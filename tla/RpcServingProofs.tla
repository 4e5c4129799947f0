--------------------------- MODULE RpcServingProofs ---------------------------
(***************************************************************************)
(* Proofs about the serving side of ContextRPC, for every set of requests, *)
(* every assignment of ids and every bound on slots and queue.             *)
(*                                                                         *)
(* Indexing the scheduler's Maps by id is sound only together with the     *)
(* rest of the bookkeeping, so the invariants are proved as one            *)
(* conjunction, ServingInv: where each instance is, how often it has been  *)
(* answered, and what closing has done.                                    *)
(***************************************************************************)
EXTENDS RpcServing, SequenceTheorems, FiniteSetTheorems, TLAPS

NoDuplicates == IsInjective(queued)

Places ==
    /\ Waiting \cap running = {}
    /\ Waiting \cap detached = {}
    /\ running \cap detached = {}
    /\ settling \cap InFlight = {}
    /\ InFlight \cup settling \cup aborted \subseteq seen
    /\ heldOpen \cap aborted = {}

Undecided == Waiting \cup running \cup heldOpen \cup settling

AnswerCount ==
    /\ AnsweredOnce
    /\ \A r \in Requests : r \notin seen \/ r \in Undecided => answers[r] = 0
    /\ \A r \in pendingWrites : answers[r] = 1

ClosedShape ==
    /\ ClosedTellsEveryone
    /\ closed => readEnded \/ Disposing

ServingInv ==
    /\ TypeOK
    /\ NoDuplicates
    /\ Places
    /\ OneInFlightPerId
    /\ NoIdleSlot
    /\ HeldRecordsAgree
    /\ AnswerCount
    /\ ClosedShape

-----------------------------------------------------------------------------
(* What the operations on the queue do to the set of waiting requests. *)

\* Adding a request that is not waiting keeps the queue free of duplicates.
LEMMA AppendQueue ==
    ASSUME NEW S, NEW q \in Seq(S), NEW x \in S, IsInjective(q), x \notin Range(q)
    PROVE  /\ Append(q, x) \in Seq(S)
           /\ Len(Append(q, x)) = Len(q) + 1
           /\ IsInjective(Append(q, x))
           /\ Range(Append(q, x)) = Range(q) \cup {x}
<1>1. /\ Append(q, x) \in Seq(S)
      /\ Len(Append(q, x)) = Len(q) + 1
      /\ \A i \in 1..Len(q) : Append(q, x)[i] = q[i]
      /\ Append(q, x)[Len(q) + 1] = x
  BY AppendProperties
<1>2. Len(q) \in Nat /\ DOMAIN q = 1..Len(q) /\ DOMAIN Append(q, x) = 1..Len(q) + 1
  BY <1>1, LenProperties
<1>3. IsInjective(Append(q, x))
  BY <1>1, <1>2 DEF IsInjective, Range
<1>4. Range(Append(q, x)) = Range(q) \cup {x}
  BY <1>1, <1>2 DEF Range
<1>. QED  BY <1>1, <1>3, <1>4

\* Taking one request out of the queue, at any place, takes out that one only.
LEMMA RemoveFromQueue ==
    ASSUME NEW S, NEW q \in Seq(S), NEW i \in DOMAIN q, IsInjective(q)
    PROVE  /\ RemoveAt(q, i) \in Seq(S)
           /\ Len(RemoveAt(q, i)) = Len(q) - 1
           /\ IsInjective(RemoveAt(q, i))
           /\ Range(RemoveAt(q, i)) = Range(q) \ {q[i]}
<1>. DEFINE a == SubSeq(q, 1, i - 1)
            b == SubSeq(q, i + 1, Len(q))
            n == Len(q)
<1>1. n \in Nat /\ DOMAIN q = 1..n /\ i \in 1..n /\ \A j \in 1..n : q[j] \in S
  BY LenProperties, ElementOfSeq
<1>2. /\ a \in Seq(S) /\ Len(a) = i - 1
      /\ \A j \in 1..i - 1 : a[j] = q[j]
  <2>1. \A j \in 1..i - 1 : q[j] \in S  BY <1>1
  <2>2. 1 \in Int /\ i - 1 \in Int /\ i >= 1  BY <1>1
  <2>3. /\ a \in Seq(S) /\ Len(a) = IF 1 <= i - 1 THEN i - 1 - 1 + 1 ELSE 0
        /\ \A j \in 1..i - 1 - 1 + 1 : a[j] = q[1 + j - 1]
    BY <2>1, <2>2, SubSeqProperties
  <2>. QED  BY <2>2, <2>3
<1>3. /\ b \in Seq(S) /\ Len(b) = n - i
      /\ \A j \in 1..n - i : b[j] = q[i + j]
  <2>1. \A j \in i + 1..n : q[j] \in S  BY <1>1
  <2>2. i + 1 \in Int /\ n \in Int /\ i <= n  BY <1>1
  <2>3. /\ b \in Seq(S) /\ Len(b) = IF i + 1 <= n THEN n - (i + 1) + 1 ELSE 0
        /\ \A j \in 1..n - (i + 1) + 1 : b[j] = q[i + 1 + j - 1]
    BY <2>1, <2>2, SubSeqProperties
  <2>4. ASSUME NEW j \in 1..n - i PROVE b[j] = q[i + j]
    <3>. HIDE DEF b
    <3>1. j \in 1..n - (i + 1) + 1 /\ i + 1 + j - 1 = i + j  BY <1>1
    <3>. QED  BY <2>3, <3>1
  <2>5. Len(b) = n - i
    <3>. HIDE DEF b
    <3>. QED  BY <1>1, <2>2, <2>3
  <2>. QED  BY <2>3, <2>4, <2>5
<1>4. /\ RemoveAt(q, i) \in Seq(S)
      /\ Len(RemoveAt(q, i)) = n - 1
      /\ \A j \in 1..n - 1 : RemoveAt(q, i)[j] = IF j < i THEN q[j] ELSE q[j + 1]
  <2>. HIDE DEF a, b
  <2>1. /\ a \o b \in Seq(S) /\ Len(a \o b) = Len(a) + Len(b)
        /\ \A j \in 1..Len(a) + Len(b) : (a \o b)[j] = IF j <= Len(a) THEN a[j] ELSE b[j - Len(a)]
    BY <1>2, <1>3, ConcatProperties
  <2>2. RemoveAt(q, i) = a \o b  BY DEF RemoveAt, a, b
  <2>3. Len(a) + Len(b) = n - 1  BY <1>1, <1>2, <1>3
  <2>4. ASSUME NEW j \in 1..n - 1 PROVE (a \o b)[j] = IF j < i THEN q[j] ELSE q[j + 1]
    <3>1. CASE j < i
      BY <1>1, <1>2, <2>1, <2>3, <3>1
    <3>2. CASE ~(j < i)
      <4>1. j - (i - 1) \in 1..n - i /\ i + (j - (i - 1)) = j + 1  BY <1>1, <3>2
      <4>2. b[j - (i - 1)] = q[j + 1]  BY <1>3, <4>1
      <4>3. ~(j <= Len(a)) /\ j \in 1..Len(a) + Len(b)  BY <1>1, <1>2, <2>3, <3>2
      <4>4. (a \o b)[j] = b[j - (i - 1)]  BY <1>2, <2>1, <4>3
      <4>. QED  BY <3>2, <4>2, <4>4
    <3>. QED  BY <3>1, <3>2
  <2>. QED  BY <2>1, <2>2, <2>3, <2>4
<1>5. DOMAIN RemoveAt(q, i) = 1..n - 1
  BY <1>4, LenProperties
<1>. DEFINE p == RemoveAt(q, i)
            at(j) == IF j < i THEN j ELSE j + 1
<1>. HIDE DEF p, a, b
<1>at. ASSUME NEW j \in 1..n - 1 PROVE at(j) \in 1..n /\ at(j) # i /\ p[j] = q[at(j)]
  BY <1>1, <1>4 DEF p
<1>inj. \A j, k \in 1..n : q[j] = q[k] => j = k
  BY <1>1 DEF IsInjective
<1>6. IsInjective(RemoveAt(q, i))
  <2>1. ASSUME NEW j \in 1..n - 1, NEW k \in 1..n - 1, p[j] = p[k] PROVE j = k
    <3>1. at(j) = at(k)
      <4>. HIDE DEF at
      <4>. QED  BY <1>at, <1>inj, <2>1
    <3>. QED  BY <1>1, <3>1
  <2>. QED  BY <1>5, <2>1 DEF IsInjective, p
<1>7. Range(RemoveAt(q, i)) = Range(q) \ {q[i]}
  <2>1. ASSUME NEW j \in 1..n - 1 PROVE RemoveAt(q, i)[j] \in Range(q) \ {q[i]}
    <3>. HIDE DEF at
    <3>1. p[j] = q[at(j)] /\ at(j) \in DOMAIN q /\ q[at(j)] # q[i]  BY <1>1, <1>at, <1>inj
    <3>. QED  BY <3>1 DEF Range, p
  <2>2. ASSUME NEW k \in 1..n, k # i PROVE q[k] \in Range(RemoveAt(q, i))
    <3>1. CASE k < i
      <4>1. k \in 1..n - 1 /\ RemoveAt(q, i)[k] = q[k]  BY <1>1, <1>4, <3>1
      <4>. QED  BY <1>5, <4>1 DEF Range
    <3>2. CASE k > i
      <4>1. k - 1 \in 1..n - 1 /\ RemoveAt(q, i)[k - 1] = q[k]  BY <1>1, <1>4, <3>2
      <4>. QED  BY <1>5, <4>1 DEF Range
    <3>. QED  BY <1>1, <2>2, <3>1, <3>2
  <2>. QED  BY <1>1, <1>5, <2>1, <2>2 DEF Range
<1>. QED  BY <1>4, <1>6, <1>7

\* The drain that follows the release of one slot starts the oldest waiting
\* request, if there is one, and nothing else.
LEMMA DrainOne ==
    ASSUME ServingInv, NEW r \in running, Drain(running \ {r}, queued)
    PROVE  \/ /\ queued = <<>>
              /\ queued' = <<>>
              /\ running' = running \ {r}
           \/ \E h \in Waiting :
                 /\ queued' \in Seq(Requests)
                 /\ Len(queued') = Len(queued) - 1
                 /\ IsInjective(queued')
                 /\ Waiting' = Waiting \ {h}
                 /\ running' = (running \ {r}) \cup {h}
                 /\ Cardinality(running') = Cardinality(running)
                 /\ IsFiniteSet(running')
<1>. DEFINE run == running \ {r}
            n == Drainable(run, queued)
<1>1. /\ running \subseteq Requests /\ queued \in Seq(Requests)
      /\ IsInjective(queued) /\ Waiting \cap running = {}
      /\ Cardinality(running) <= MaxConcurrentRequests
      /\ queued # <<>> => Cardinality(running) = MaxConcurrentRequests
  BY DEF ServingInv, TypeOK, NoDuplicates, Places, NoIdleSlot
<1>2. IsFiniteSet(running) /\ Cardinality(running) \in Nat
  BY <1>1, ServingAssumption, FS_Subset, FS_CardinalityType
<1>3. IsFiniteSet(run) /\ Cardinality(run) = Cardinality(running) - 1
  BY <1>2, FS_RemoveElement
<1>4. /\ Len(queued) \in Nat /\ DOMAIN queued = 1..Len(queued)
      /\ queued # <<>> => Len(queued) > 0
  BY <1>1, LenProperties, EmptySeq
<1>5. CASE queued = <<>>
  <2>1. Len(queued) = 0  BY <1>5
  <2>2. n = 0
    BY <1>2, <1>3, <1>1, <2>1, ServingAssumption DEF Drainable
  <2>3. queued' = SubSeq(queued, 1, 0) /\ running' = run \cup {queued[i] : i \in 1..0}
    <3>. HIDE DEF n
    <3>1. running' = run \cup {queued[i] : i \in 1..n} /\ queued' = SubSeq(queued, n + 1, Len(queued))
      BY DEF Drain, n
    <3>. QED  BY <2>1, <2>2, <3>1
  <2>4. SubSeq(queued, 1, 0) = <<>>  BY SubSeqEmpty
  <2>5. {queued[i] : i \in 1..0} = {}  OBVIOUS
  <2>. QED  BY <1>5, <2>3, <2>4, <2>5
<1>6. CASE queued # <<>>
  <2>1. Cardinality(run) = MaxConcurrentRequests - 1  BY <1>1, <1>3, <1>6
  <2>2. n = 1  BY <1>4, <1>6, <2>1, <1>2, ServingAssumption DEF Drainable
  <2>3. queued' = SubSeq(queued, 2, Len(queued)) /\ running' = run \cup {queued[1]}
    <3>. HIDE DEF n
    <3>1. running' = run \cup {queued[i] : i \in 1..n} /\ queued' = SubSeq(queued, n + 1, Len(queued))
      BY DEF Drain, n
    <3>2. {queued[i] : i \in 1..1} = {queued[1]}  OBVIOUS
    <3>. QED  BY <2>2, <3>1, <3>2
  <2>4. RemoveAt(queued, 1) = SubSeq(queued, 1, 0) \o SubSeq(queued, 2, Len(queued))
    BY DEF RemoveAt
  <2>5. SubSeq(queued, 1, 0) = <<>>  BY SubSeqEmpty
  <2>6. SubSeq(queued, 2, Len(queued)) \in Seq(Requests)
    <3>1. \A i \in 2..Len(queued) : queued[i] \in Requests  BY <1>1, <1>4, ElementOfSeq
    <3>. QED  BY <1>4, <3>1, SubSeqProperties
  <2>7. queued' = RemoveAt(queued, 1)  BY <2>3, <2>4, <2>5, <2>6, ConcatEmptySeq
  <2>8. 1 \in DOMAIN queued /\ queued[1] \in Waiting
    <3>1. 1 \in DOMAIN queued  BY <1>4, <1>6
    <3>. QED  BY <3>1 DEF Waiting, Range
  <2>9. /\ queued' \in Seq(Requests)
        /\ Len(queued') = Len(queued) - 1
        /\ IsInjective(queued')
        /\ Range(queued') = Range(queued) \ {queued[1]}
    BY <1>1, <2>7, <2>8, RemoveFromQueue
  <2>10. queued[1] \notin run  BY <1>1, <2>8
  <2>11. IsFiniteSet(running') /\ Cardinality(running') = Cardinality(running)
    <3>. HIDE DEF run
    <3>1. /\ IsFiniteSet(run \cup {queued[1]})
          /\ Cardinality(run \cup {queued[1]}) = Cardinality(run) + 1
      BY <1>3, <2>10, FS_AddElement
    <3>. QED  BY <1>2, <1>3, <2>3, <3>1
  <2>. QED  BY <2>3, <2>8, <2>9, <2>11 DEF Waiting
<1>. QED  BY <1>5, <1>6

-----------------------------------------------------------------------------
(* One lemma per action: each step keeps every part of the invariant. *)

\* An invalid request is answered by the loop and tracked nowhere else.
LEMMA InvalidRequestStep ==
    ASSUME ServingInv, NEW r \in Requests, InvalidRequest(r)
    PROVE  ServingInv'
<1>0. answers \in [Requests -> Nat] /\ seen \subseteq Requests
  BY DEF ServingInv, TypeOK
<1>w. Waiting' = Waiting
  BY DEF InvalidRequest, RefuseInLoop, Read, CanRead, BeginWrite, schedVars, heldVars, writeVars, flushVars, Waiting
<1>1. TypeOK'
  BY <1>0 DEF InvalidRequest, RefuseInLoop, Read, CanRead, BeginWrite, schedVars, heldVars, writeVars, flushVars, ServingInv, TypeOK
<1>2. NoDuplicates'
  BY DEF InvalidRequest, RefuseInLoop, Read, CanRead, BeginWrite, schedVars, heldVars, writeVars, flushVars, ServingInv, NoDuplicates
<1>3. Places'
  BY <1>0, <1>w DEF InvalidRequest, RefuseInLoop, Read, CanRead, BeginWrite, schedVars, heldVars, writeVars, flushVars, ServingInv, TypeOK, Places, InFlight, HeldRecordsAgree, Held
<1>4. OneInFlightPerId'
  BY <1>0, <1>w DEF InvalidRequest, RefuseInLoop, Read, CanRead, BeginWrite, schedVars, heldVars, writeVars, flushVars, ServingInv, OneInFlightPerId, InFlight
<1>5. NoIdleSlot'
  BY DEF InvalidRequest, RefuseInLoop, Read, CanRead, BeginWrite, schedVars, heldVars, writeVars, flushVars, ServingInv, NoIdleSlot
<1>6. HeldRecordsAgree'
  BY DEF InvalidRequest, RefuseInLoop, Read, CanRead, BeginWrite, schedVars, heldVars, writeVars, flushVars, ServingInv, HeldRecordsAgree, Held
<1>7. AnswerCount'
  BY <1>0, <1>w DEF InvalidRequest, RefuseInLoop, Read, CanRead, BeginWrite, schedVars, heldVars, writeVars, flushVars, ServingInv, TypeOK, AnswerCount, AnsweredOnce, Undecided, Places, InFlight, HeldRecordsAgree, Held
<1>8. ClosedShape'
  BY DEF InvalidRequest, RefuseInLoop, Read, CanRead, BeginWrite, schedVars, heldVars, writeVars, flushVars, ServingInv, ClosedShape, ClosedTellsEveryone, Disposing
<1>. QED  BY <1>1, <1>2, <1>3, <1>4, <1>5, <1>6, <1>7, <1>8 DEF ServingInv

\* So is a request refused while disposing.
LEMMA RefuseWhileDisposingStep ==
    ASSUME ServingInv, NEW r \in Requests, RefuseWhileDisposing(r)
    PROVE  ServingInv'
<1>0. answers \in [Requests -> Nat] /\ seen \subseteq Requests
  BY DEF ServingInv, TypeOK
<1>w. Waiting' = Waiting
  BY DEF RefuseWhileDisposing, RefuseInLoop, Read, CanRead, BeginWrite, schedVars, heldVars, writeVars, flushVars, Waiting
<1>1. TypeOK'
  BY <1>0 DEF RefuseWhileDisposing, RefuseInLoop, Read, CanRead, BeginWrite, schedVars, heldVars, writeVars, flushVars, ServingInv, TypeOK
<1>2. NoDuplicates'
  BY DEF RefuseWhileDisposing, RefuseInLoop, Read, CanRead, BeginWrite, schedVars, heldVars, writeVars, flushVars, ServingInv, NoDuplicates
<1>3. Places'
  BY <1>0, <1>w DEF RefuseWhileDisposing, RefuseInLoop, Read, CanRead, BeginWrite, schedVars, heldVars, writeVars, flushVars, ServingInv, TypeOK, Places, InFlight, HeldRecordsAgree, Held
<1>4. OneInFlightPerId'
  BY <1>0, <1>w DEF RefuseWhileDisposing, RefuseInLoop, Read, CanRead, BeginWrite, schedVars, heldVars, writeVars, flushVars, ServingInv, OneInFlightPerId, InFlight
<1>5. NoIdleSlot'
  BY DEF RefuseWhileDisposing, RefuseInLoop, Read, CanRead, BeginWrite, schedVars, heldVars, writeVars, flushVars, ServingInv, NoIdleSlot
<1>6. HeldRecordsAgree'
  BY DEF RefuseWhileDisposing, RefuseInLoop, Read, CanRead, BeginWrite, schedVars, heldVars, writeVars, flushVars, ServingInv, HeldRecordsAgree, Held
<1>7. AnswerCount'
  BY <1>0, <1>w DEF RefuseWhileDisposing, RefuseInLoop, Read, CanRead, BeginWrite, schedVars, heldVars, writeVars, flushVars, ServingInv, TypeOK, AnswerCount, AnsweredOnce, Undecided, Places, InFlight, HeldRecordsAgree, Held
<1>8. ClosedShape'
  BY DEF RefuseWhileDisposing, RefuseInLoop, Read, CanRead, BeginWrite, schedVars, heldVars, writeVars, flushVars, ServingInv, ClosedShape, ClosedTellsEveryone, Disposing
<1>. QED  BY <1>1, <1>2, <1>3, <1>4, <1>5, <1>6, <1>7, <1>8 DEF ServingInv

\* A request refused by the scheduler is only ever a response to come.
LEMMA RefuseDuplicateStep ==
    ASSUME ServingInv, NEW r \in Requests, RefuseDuplicate(r)
    PROVE  ServingInv'
<1>0. answers \in [Requests -> Nat] /\ seen \subseteq Requests
  BY DEF ServingInv, TypeOK
<1>w. Waiting' = Waiting
  BY DEF RefuseDuplicate, RefuseByScheduler, Read, CanRead, BeginWrite, schedVars, heldVars, writeVars, flushVars, Waiting
<1>1. TypeOK'
  BY <1>0 DEF RefuseDuplicate, RefuseByScheduler, Read, CanRead, BeginWrite, schedVars, heldVars, writeVars, flushVars, ServingInv, TypeOK
<1>2. NoDuplicates'
  BY DEF RefuseDuplicate, RefuseByScheduler, Read, CanRead, BeginWrite, schedVars, heldVars, writeVars, flushVars, ServingInv, NoDuplicates
<1>3. Places'
  BY <1>0, <1>w DEF RefuseDuplicate, RefuseByScheduler, Read, CanRead, BeginWrite, schedVars, heldVars, writeVars, flushVars, ServingInv, TypeOK, Places, InFlight, HeldRecordsAgree, Held
<1>4. OneInFlightPerId'
  BY <1>0, <1>w DEF RefuseDuplicate, RefuseByScheduler, Read, CanRead, BeginWrite, schedVars, heldVars, writeVars, flushVars, ServingInv, OneInFlightPerId, InFlight
<1>5. NoIdleSlot'
  BY DEF RefuseDuplicate, RefuseByScheduler, Read, CanRead, BeginWrite, schedVars, heldVars, writeVars, flushVars, ServingInv, NoIdleSlot
<1>6. HeldRecordsAgree'
  BY DEF RefuseDuplicate, RefuseByScheduler, Read, CanRead, BeginWrite, schedVars, heldVars, writeVars, flushVars, ServingInv, HeldRecordsAgree, Held
<1>7. AnswerCount'
  BY <1>0, <1>w DEF RefuseDuplicate, RefuseByScheduler, Read, CanRead, BeginWrite, schedVars, heldVars, writeVars, flushVars, ServingInv, TypeOK, AnswerCount, AnsweredOnce, Undecided, Places, InFlight, HeldRecordsAgree, Held
<1>8. ClosedShape'
  BY DEF RefuseDuplicate, RefuseByScheduler, Read, CanRead, BeginWrite, schedVars, heldVars, writeVars, flushVars, ServingInv, ClosedShape, ClosedTellsEveryone, Disposing
<1>. QED  BY <1>1, <1>2, <1>3, <1>4, <1>5, <1>6, <1>7, <1>8 DEF ServingInv

\* The same for the bound on the queue.
LEMMA RefuseBusyStep ==
    ASSUME ServingInv, NEW r \in Requests, RefuseBusy(r)
    PROVE  ServingInv'
<1>0. answers \in [Requests -> Nat] /\ seen \subseteq Requests
  BY DEF ServingInv, TypeOK
<1>w. Waiting' = Waiting
  BY DEF RefuseBusy, RefuseByScheduler, Read, CanRead, BeginWrite, schedVars, heldVars, writeVars, flushVars, Waiting
<1>1. TypeOK'
  BY <1>0 DEF RefuseBusy, RefuseByScheduler, Read, CanRead, BeginWrite, schedVars, heldVars, writeVars, flushVars, ServingInv, TypeOK
<1>2. NoDuplicates'
  BY DEF RefuseBusy, RefuseByScheduler, Read, CanRead, BeginWrite, schedVars, heldVars, writeVars, flushVars, ServingInv, NoDuplicates
<1>3. Places'
  BY <1>0, <1>w DEF RefuseBusy, RefuseByScheduler, Read, CanRead, BeginWrite, schedVars, heldVars, writeVars, flushVars, ServingInv, TypeOK, Places, InFlight, HeldRecordsAgree, Held
<1>4. OneInFlightPerId'
  BY <1>0, <1>w DEF RefuseBusy, RefuseByScheduler, Read, CanRead, BeginWrite, schedVars, heldVars, writeVars, flushVars, ServingInv, OneInFlightPerId, InFlight
<1>5. NoIdleSlot'
  BY DEF RefuseBusy, RefuseByScheduler, Read, CanRead, BeginWrite, schedVars, heldVars, writeVars, flushVars, ServingInv, NoIdleSlot
<1>6. HeldRecordsAgree'
  BY DEF RefuseBusy, RefuseByScheduler, Read, CanRead, BeginWrite, schedVars, heldVars, writeVars, flushVars, ServingInv, HeldRecordsAgree, Held
<1>7. AnswerCount'
  BY <1>0, <1>w DEF RefuseBusy, RefuseByScheduler, Read, CanRead, BeginWrite, schedVars, heldVars, writeVars, flushVars, ServingInv, TypeOK, AnswerCount, AnsweredOnce, Undecided, Places, InFlight, HeldRecordsAgree, Held
<1>8. ClosedShape'
  BY DEF RefuseBusy, RefuseByScheduler, Read, CanRead, BeginWrite, schedVars, heldVars, writeVars, flushVars, ServingInv, ClosedShape, ClosedTellsEveryone, Disposing
<1>. QED  BY <1>1, <1>2, <1>3, <1>4, <1>5, <1>6, <1>7, <1>8 DEF ServingInv

\* A request started on arrival has an id of its own, and finds the queue empty.
LEMMA StartAtOnceStep ==
    ASSUME ServingInv, NEW r \in Requests, StartAtOnce(r)
    PROVE  ServingInv'
<1>0. answers \in [Requests -> Nat] /\ seen \subseteq Requests
  BY DEF ServingInv, TypeOK
<1>w. Waiting' = Waiting
  BY DEF StartAtOnce, Read, CanRead, BeginWrite, schedVars, heldVars, writeVars, flushVars, Waiting
<1>q. queued = <<>>
  <2>1. Cardinality(running) \in Nat
    BY ServingAssumption, FS_Subset, FS_CardinalityType DEF ServingInv, TypeOK
  <2>. QED  BY <2>1, ServingAssumption DEF StartAtOnce, ServingInv, NoIdleSlot
<1>c. Cardinality(running') = Cardinality(running) + 1 /\ Cardinality(running) \in Nat
  <2>1. r \notin running  BY DEF StartAtOnce, Read, ServingInv, Places, InFlight
  <2>2. IsFiniteSet(running) /\ Cardinality(running) \in Nat
    BY ServingAssumption, FS_Subset, FS_CardinalityType DEF ServingInv, TypeOK
  <2>3. Cardinality(running \cup {r}) = Cardinality(running) + 1  BY <2>1, <2>2, FS_AddElement
  <2>. QED  BY <2>2, <2>3 DEF StartAtOnce
<1>1. TypeOK'
  BY <1>0 DEF StartAtOnce, Read, CanRead, BeginWrite, schedVars, heldVars, writeVars, flushVars, ServingInv, TypeOK
<1>2. NoDuplicates'
  BY DEF StartAtOnce, Read, CanRead, BeginWrite, schedVars, heldVars, writeVars, flushVars, ServingInv, NoDuplicates
<1>3. Places'
  BY <1>0, <1>w DEF StartAtOnce, Read, CanRead, BeginWrite, schedVars, heldVars, writeVars, flushVars, ServingInv, TypeOK, Places, InFlight, HeldRecordsAgree, Held
<1>4. OneInFlightPerId'
  BY <1>w DEF StartAtOnce, Read, CanRead, BeginWrite, schedVars, heldVars, writeVars, flushVars, SameId, ServingInv, OneInFlightPerId, InFlight
<1>5. NoIdleSlot'
  BY <1>q, <1>c, ServingAssumption DEF StartAtOnce, ServingInv, TypeOK, NoIdleSlot
<1>6. HeldRecordsAgree'
  BY DEF StartAtOnce, Read, CanRead, BeginWrite, schedVars, heldVars, writeVars, flushVars, ServingInv, HeldRecordsAgree, Held
<1>7. AnswerCount'
  BY <1>0, <1>w DEF StartAtOnce, Read, CanRead, BeginWrite, schedVars, heldVars, writeVars, flushVars, ServingInv, TypeOK, AnswerCount, AnsweredOnce, Undecided, Places, InFlight, HeldRecordsAgree, Held
<1>8. ClosedShape'
  BY DEF StartAtOnce, Read, CanRead, heldVars, flushVars, ServingInv, ClosedShape, ClosedTellsEveryone, Disposing
<1>. QED  BY <1>1, <1>2, <1>3, <1>4, <1>5, <1>6, <1>7, <1>8 DEF ServingInv

\* A queued request has an id of its own and is not yet anywhere else.
LEMMA EnqueueStep ==
    ASSUME ServingInv, NEW r \in Requests, Enqueue(r)
    PROVE  ServingInv'
<1>0. answers \in [Requests -> Nat] /\ seen \subseteq Requests
  BY DEF ServingInv, TypeOK
<1>q. /\ queued' \in Seq(Requests)
      /\ Len(queued') = Len(queued) + 1
      /\ IsInjective(queued')
      /\ Range(queued') = Range(queued) \cup {r}
  <2>1. r \notin Range(queued)  BY DEF Enqueue, Read, ServingInv, Places, InFlight, Waiting
  <2>2. queued \in Seq(Requests) /\ IsInjective(queued)
    BY DEF ServingInv, TypeOK, NoDuplicates
  <2>. QED  BY <2>1, <2>2, AppendQueue DEF Enqueue
<1>w. Waiting' = Waiting \cup {r}
  BY <1>q DEF Waiting
<1>c. Cardinality(running) \in Nat /\ Len(queued) \in Nat
  BY ServingAssumption, FS_Subset, FS_CardinalityType, LenProperties DEF ServingInv, TypeOK
<1>1. TypeOK'
  BY <1>0, <1>q DEF Enqueue, Read, CanRead, BeginWrite, schedVars, heldVars, writeVars, flushVars, ServingInv, TypeOK
<1>2. NoDuplicates'
  BY <1>q DEF NoDuplicates
<1>3. Places'
  BY <1>0, <1>w DEF Enqueue, Read, CanRead, BeginWrite, schedVars, heldVars, writeVars, flushVars, ServingInv, TypeOK, Places, InFlight, HeldRecordsAgree, Held
<1>4. OneInFlightPerId'
  BY <1>w DEF Enqueue, Read, CanRead, BeginWrite, schedVars, heldVars, writeVars, flushVars, SameId, ServingInv, OneInFlightPerId, InFlight
<1>5. NoIdleSlot'
  BY <1>q, <1>c, ServingAssumption DEF Enqueue, ServingInv, NoIdleSlot
<1>6. HeldRecordsAgree'
  BY DEF Enqueue, Read, CanRead, BeginWrite, schedVars, heldVars, writeVars, flushVars, ServingInv, HeldRecordsAgree, Held
<1>7. AnswerCount'
  BY <1>0, <1>w DEF Enqueue, Read, CanRead, BeginWrite, schedVars, heldVars, writeVars, flushVars, ServingInv, TypeOK, AnswerCount, AnsweredOnce, Undecided, Places, InFlight, HeldRecordsAgree, Held
<1>8. ClosedShape'
  BY DEF Enqueue, Read, CanRead, BeginWrite, schedVars, heldVars, writeVars, flushVars, ServingInv, ClosedShape, ClosedTellsEveryone, Disposing
<1>. QED  BY <1>1, <1>2, <1>3, <1>4, <1>5, <1>6, <1>7, <1>8 DEF ServingInv

\* A cancelled queued request leaves the queue and nothing else changes place.
LEMMA CancelQueuedStep ==
    ASSUME ServingInv, NEW r \in Requests, CancelQueued(r)
    PROVE  ServingInv'
<1>0. answers \in [Requests -> Nat] /\ seen \subseteq Requests
  BY DEF ServingInv, TypeOK
<1>q. /\ queued' \in Seq(Requests)
      /\ Len(queued') = Len(queued) - 1
      /\ IsInjective(queued')
      /\ Range(queued') = Range(queued) \ {r}
      /\ r \in Range(queued)
      /\ queued # <<>>
  <2>1. PICK i \in DOMAIN queued : queued[i] = r /\ queued' = RemoveAt(queued, i)
    BY DEF CancelQueued
  <2>2. queued \in Seq(Requests) /\ IsInjective(queued)
    BY DEF ServingInv, TypeOK, NoDuplicates
  <2>3. r \in Range(queued)  BY <2>1 DEF Range
  <2>4. queued # <<>>  BY <2>1, <2>2
  <2>. QED  BY <2>1, <2>2, <2>3, <2>4, RemoveFromQueue
<1>w. Waiting' = Waiting \ {r} /\ r \in Waiting
  BY <1>q DEF Waiting
<1>c. Len(queued) \in Nat
  BY LenProperties DEF ServingInv, TypeOK
<1>1. TypeOK'
  BY <1>0, <1>q DEF CancelQueued, Read, CanRead, BeginWrite, schedVars, heldVars, writeVars, flushVars, ServingInv, TypeOK
<1>2. NoDuplicates'
  BY <1>q DEF NoDuplicates
<1>3. Places'
  BY <1>0, <1>w DEF CancelQueued, Read, CanRead, BeginWrite, schedVars, heldVars, writeVars, flushVars, ServingInv, TypeOK, Places, InFlight, HeldRecordsAgree, Held
<1>4. OneInFlightPerId'
  BY <1>0, <1>w DEF CancelQueued, Read, CanRead, BeginWrite, schedVars, heldVars, writeVars, flushVars, ServingInv, OneInFlightPerId, InFlight
<1>5. NoIdleSlot'
  BY <1>q, <1>c, ServingAssumption DEF CancelQueued, ServingInv, NoIdleSlot
<1>6. HeldRecordsAgree'
  BY DEF CancelQueued, Read, CanRead, BeginWrite, schedVars, heldVars, writeVars, flushVars, ServingInv, HeldRecordsAgree, Held
<1>7. AnswerCount'
  BY <1>0, <1>w DEF CancelQueued, Read, CanRead, BeginWrite, schedVars, heldVars, writeVars, flushVars, ServingInv, TypeOK, AnswerCount, AnsweredOnce, Undecided, Places, InFlight, HeldRecordsAgree, Held
<1>8. ClosedShape'
  BY <1>q DEF CancelQueued, Read, CanRead, BeginWrite, schedVars, heldVars, writeVars, flushVars, ServingInv, ClosedShape, ClosedTellsEveryone, Disposing
<1>. QED  BY <1>1, <1>2, <1>3, <1>4, <1>5, <1>6, <1>7, <1>8 DEF ServingInv

\* Cancelling a started request removes both records of a held one.
LEMMA CancelStartedStep ==
    ASSUME ServingInv, NEW r \in Requests, CancelStarted(r)
    PROVE  ServingInv'
<1>0. answers \in [Requests -> Nat] /\ seen \subseteq Requests
  BY DEF ServingInv, TypeOK
<1>w. Waiting' = Waiting
  BY DEF CancelStarted, Read, CanRead, BeginWrite, schedVars, heldVars, writeVars, flushVars, Waiting
<1>1. TypeOK'
  BY <1>0 DEF CancelStarted, Read, CanRead, BeginWrite, schedVars, heldVars, writeVars, flushVars, ServingInv, TypeOK
<1>2. NoDuplicates'
  BY DEF CancelStarted, Read, CanRead, BeginWrite, schedVars, heldVars, writeVars, flushVars, ServingInv, NoDuplicates
<1>3. Places'
  BY <1>0, <1>w DEF CancelStarted, Read, CanRead, BeginWrite, schedVars, heldVars, writeVars, flushVars, ServingInv, TypeOK, Places, InFlight, HeldRecordsAgree, Held
<1>4. OneInFlightPerId'
  BY <1>0, <1>w DEF CancelStarted, Read, CanRead, BeginWrite, schedVars, heldVars, writeVars, flushVars, ServingInv, OneInFlightPerId, InFlight
<1>5. NoIdleSlot'
  BY DEF CancelStarted, Read, CanRead, BeginWrite, schedVars, heldVars, writeVars, flushVars, ServingInv, NoIdleSlot
<1>6. HeldRecordsAgree'
  BY DEF CancelStarted, Read, CanRead, BeginWrite, schedVars, heldVars, writeVars, flushVars, ServingInv, HeldRecordsAgree, Held
<1>7. AnswerCount'
  BY <1>0, <1>w DEF CancelStarted, Read, CanRead, BeginWrite, schedVars, heldVars, writeVars, flushVars, ServingInv, TypeOK, AnswerCount, AnsweredOnce, Undecided, Places, InFlight, HeldRecordsAgree, Held
<1>8. ClosedShape'
  BY DEF CancelStarted, Read, CanRead, BeginWrite, schedVars, heldVars, writeVars, flushVars, ServingInv, ClosedShape, ClosedTellsEveryone, Disposing
<1>. QED  BY <1>1, <1>2, <1>3, <1>4, <1>5, <1>6, <1>7, <1>8 DEF ServingInv

\* A handler that settles gives its slot to the oldest waiting request.
LEMMA HandlerSettlesStep ==
    ASSUME ServingInv, NEW r \in Requests, HandlerSettles(r)
    PROVE  ServingInv'
<1>0. answers \in [Requests -> Nat] /\ seen \subseteq Requests
  BY DEF ServingInv, TypeOK
<1>d. \/ /\ queued = <<>>
         /\ queued' = <<>>
         /\ running' = running \ {r}
      \/ \E h \in Waiting :
            /\ queued' \in Seq(Requests)
            /\ Len(queued') = Len(queued) - 1
            /\ IsInjective(queued')
            /\ Waiting' = Waiting \ {h}
            /\ running' = (running \ {r}) \cup {h}
            /\ Cardinality(running') = Cardinality(running)
            /\ IsFiniteSet(running')
  BY DrainOne DEF HandlerSettles
<1>w. Waiting' \subseteq Waiting /\ running' \subseteq (running \ {r}) \cup (Waiting \ Waiting')
  BY <1>d DEF Waiting
<1>t. Waiting \subseteq Requests /\ Len(queued) \in Nat
  BY RangeOfSeq, LenProperties DEF ServingInv, TypeOK, Waiting
<1>n. r \in running
  BY DEF HandlerSettles
<1>1. TypeOK'
  BY <1>0, <1>d, <1>t, <1>n, EmptySeq DEF HandlerSettles, Read, CanRead, BeginWrite, schedVars, heldVars, writeVars, flushVars, ServingInv, TypeOK
<1>2. NoDuplicates'
  BY <1>d DEF ServingInv, NoDuplicates
<1>3. Places'
  BY <1>n, <1>w DEF HandlerSettles, Read, CanRead, BeginWrite, schedVars, heldVars, writeVars, flushVars, ServingInv, Places, InFlight
<1>4. OneInFlightPerId'
  BY <1>n, <1>w DEF HandlerSettles, Read, CanRead, BeginWrite, schedVars, heldVars, writeVars, flushVars, ServingInv, OneInFlightPerId, InFlight
<1>5. NoIdleSlot'
  <2>1. IsFiniteSet(running) /\ Cardinality(running) \in Nat
    BY ServingAssumption, FS_Subset, FS_CardinalityType DEF ServingInv, TypeOK
  <2>2. Cardinality(running \ {r}) = Cardinality(running) - 1
    BY <1>n, <2>1, FS_RemoveElement
  <2>3. CASE queued = <<>> /\ queued' = <<>> /\ running' = running \ {r}
    BY <2>1, <2>2, <2>3, ServingAssumption DEF ServingInv, NoIdleSlot
  <2>4. CASE Len(queued') = Len(queued) - 1 /\ Cardinality(running') = Cardinality(running) /\ queued # <<>>
    BY <1>t, <2>1, <2>4, ServingAssumption DEF ServingInv, NoIdleSlot
  <2>5. Waiting # {} => queued # <<>>
    BY DEF Waiting, Range
  <2>. QED  BY <1>d, <2>3, <2>4, <2>5
<1>6. HeldRecordsAgree'
  BY DEF HandlerSettles, Read, CanRead, BeginWrite, schedVars, heldVars, writeVars, flushVars, ServingInv, HeldRecordsAgree, Held
<1>7. AnswerCount'
  BY <1>0, <1>n, <1>w DEF HandlerSettles, Read, CanRead, BeginWrite, schedVars, heldVars, writeVars, flushVars, ServingInv, TypeOK, AnswerCount, AnsweredOnce, Undecided, Places, InFlight, HeldRecordsAgree, Held
<1>8. ClosedShape'
  BY <1>d, <1>n DEF HandlerSettles, Read, CanRead, BeginWrite, schedVars, heldVars, writeVars, flushVars, ServingInv, ClosedShape, ClosedTellsEveryone, Disposing, Waiting, Range
<1>. QED  BY <1>1, <1>2, <1>3, <1>4, <1>5, <1>6, <1>7, <1>8 DEF ServingInv

\* A decided response is written once.
LEMMA SettleRequestStep ==
    ASSUME ServingInv, NEW r \in Requests, SettleRequest(r)
    PROVE  ServingInv'
<1>0. answers \in [Requests -> Nat] /\ seen \subseteq Requests
  BY DEF ServingInv, TypeOK
<1>w. Waiting' = Waiting
  BY DEF SettleRequest, Read, CanRead, BeginWrite, schedVars, heldVars, writeVars, flushVars, Waiting
<1>1. TypeOK'
  BY <1>0 DEF SettleRequest, Read, CanRead, BeginWrite, schedVars, heldVars, writeVars, flushVars, ServingInv, TypeOK
<1>2. NoDuplicates'
  BY DEF SettleRequest, Read, CanRead, BeginWrite, schedVars, heldVars, writeVars, flushVars, ServingInv, NoDuplicates
<1>3. Places'
  BY <1>0, <1>w DEF SettleRequest, Read, CanRead, BeginWrite, schedVars, heldVars, writeVars, flushVars, ServingInv, TypeOK, Places, InFlight, HeldRecordsAgree, Held
<1>4. OneInFlightPerId'
  BY <1>0, <1>w DEF SettleRequest, Read, CanRead, BeginWrite, schedVars, heldVars, writeVars, flushVars, ServingInv, OneInFlightPerId, InFlight
<1>5. NoIdleSlot'
  BY DEF SettleRequest, Read, CanRead, BeginWrite, schedVars, heldVars, writeVars, flushVars, ServingInv, NoIdleSlot
<1>6. HeldRecordsAgree'
  BY DEF SettleRequest, Read, CanRead, BeginWrite, schedVars, heldVars, writeVars, flushVars, ServingInv, HeldRecordsAgree, Held
<1>7. AnswerCount'
  BY <1>0, <1>w DEF SettleRequest, Read, CanRead, BeginWrite, schedVars, heldVars, writeVars, flushVars, ServingInv, TypeOK, AnswerCount, AnsweredOnce, Undecided, Places, InFlight, HeldRecordsAgree, Held
<1>8. ClosedShape'
  BY DEF SettleRequest, Read, CanRead, BeginWrite, schedVars, heldVars, writeVars, flushVars, ServingInv, ClosedShape, ClosedTellsEveryone, Disposing
<1>. QED  BY <1>1, <1>2, <1>3, <1>4, <1>5, <1>6, <1>7, <1>8 DEF ServingInv

\* A held request keeps its id and gives its slot away.
LEMMA HandlerHoldsStep ==
    ASSUME ServingInv, NEW r \in Requests, HandlerHolds(r)
    PROVE  ServingInv'
<1>0. answers \in [Requests -> Nat] /\ seen \subseteq Requests
  BY DEF ServingInv, TypeOK
<1>d. \/ /\ queued = <<>>
         /\ queued' = <<>>
         /\ running' = running \ {r}
      \/ \E h \in Waiting :
            /\ queued' \in Seq(Requests)
            /\ Len(queued') = Len(queued) - 1
            /\ IsInjective(queued')
            /\ Waiting' = Waiting \ {h}
            /\ running' = (running \ {r}) \cup {h}
            /\ Cardinality(running') = Cardinality(running)
            /\ IsFiniteSet(running')
  BY DrainOne DEF HandlerHolds
<1>w. Waiting' \subseteq Waiting /\ running' \subseteq (running \ {r}) \cup (Waiting \ Waiting')
  BY <1>d DEF Waiting
<1>t. Waiting \subseteq Requests /\ Len(queued) \in Nat
  BY RangeOfSeq, LenProperties DEF ServingInv, TypeOK, Waiting
<1>n. r \in running
  BY DEF HandlerHolds
<1>1. TypeOK'
  BY <1>0, <1>d, <1>t, <1>n, EmptySeq DEF HandlerHolds, Read, CanRead, BeginWrite, schedVars, heldVars, writeVars, flushVars, ServingInv, TypeOK
<1>2. NoDuplicates'
  BY <1>d DEF ServingInv, NoDuplicates
<1>3. Places'
  BY <1>n, <1>w DEF HandlerHolds, Read, CanRead, BeginWrite, schedVars, heldVars, writeVars, flushVars, ServingInv, Places, InFlight
<1>4. OneInFlightPerId'
  BY <1>n, <1>w DEF HandlerHolds, Read, CanRead, BeginWrite, schedVars, heldVars, writeVars, flushVars, ServingInv, OneInFlightPerId, InFlight
<1>5. NoIdleSlot'
  <2>1. IsFiniteSet(running) /\ Cardinality(running) \in Nat
    BY ServingAssumption, FS_Subset, FS_CardinalityType DEF ServingInv, TypeOK
  <2>2. Cardinality(running \ {r}) = Cardinality(running) - 1
    BY <1>n, <2>1, FS_RemoveElement
  <2>3. CASE queued = <<>> /\ queued' = <<>> /\ running' = running \ {r}
    BY <2>1, <2>2, <2>3, ServingAssumption DEF ServingInv, NoIdleSlot
  <2>4. CASE Len(queued') = Len(queued) - 1 /\ Cardinality(running') = Cardinality(running) /\ queued # <<>>
    BY <1>t, <2>1, <2>4, ServingAssumption DEF ServingInv, NoIdleSlot
  <2>5. Waiting # {} => queued # <<>>
    BY DEF Waiting, Range
  <2>. QED  BY <1>d, <2>3, <2>4, <2>5
<1>6. HeldRecordsAgree'
  BY DEF HandlerHolds, Read, CanRead, BeginWrite, schedVars, heldVars, writeVars, flushVars, ServingInv, HeldRecordsAgree, Held, Places, InFlight
<1>7. AnswerCount'
  BY <1>0, <1>n, <1>w DEF HandlerHolds, Read, CanRead, BeginWrite, schedVars, heldVars, writeVars, flushVars, ServingInv, TypeOK, AnswerCount, AnsweredOnce, Undecided, Places, InFlight, HeldRecordsAgree, Held
<1>8. ClosedShape'
  BY <1>d, <1>n DEF HandlerHolds, Read, CanRead, BeginWrite, schedVars, heldVars, writeVars, flushVars, ServingInv, ClosedShape, ClosedTellsEveryone, Disposing, Waiting, Range
<1>. QED  BY <1>1, <1>2, <1>3, <1>4, <1>5, <1>6, <1>7, <1>8 DEF ServingInv

\* The terminal claims the held response.
LEMMA TerminalWinsStep ==
    ASSUME ServingInv, NEW r \in Requests, TerminalWins(r)
    PROVE  ServingInv'
<1>0. answers \in [Requests -> Nat] /\ seen \subseteq Requests
  BY DEF ServingInv, TypeOK
<1>w. Waiting' = Waiting
  BY DEF TerminalWins, Read, CanRead, BeginWrite, schedVars, heldVars, writeVars, flushVars, Waiting
<1>1. TypeOK'
  BY <1>0 DEF TerminalWins, Read, CanRead, BeginWrite, schedVars, heldVars, writeVars, flushVars, ServingInv, TypeOK
<1>2. NoDuplicates'
  BY DEF TerminalWins, Read, CanRead, BeginWrite, schedVars, heldVars, writeVars, flushVars, ServingInv, NoDuplicates
<1>3. Places'
  BY <1>0, <1>w DEF TerminalWins, Read, CanRead, BeginWrite, schedVars, heldVars, writeVars, flushVars, ServingInv, TypeOK, Places, InFlight, HeldRecordsAgree, Held
<1>4. OneInFlightPerId'
  BY <1>0, <1>w DEF TerminalWins, Read, CanRead, BeginWrite, schedVars, heldVars, writeVars, flushVars, ServingInv, OneInFlightPerId, InFlight
<1>5. NoIdleSlot'
  BY DEF TerminalWins, Read, CanRead, BeginWrite, schedVars, heldVars, writeVars, flushVars, ServingInv, NoIdleSlot
<1>6. HeldRecordsAgree'
  BY DEF TerminalWins, Read, CanRead, BeginWrite, schedVars, heldVars, writeVars, flushVars, ServingInv, HeldRecordsAgree, Held
<1>7. AnswerCount'
  BY <1>0, <1>w DEF TerminalWins, Read, CanRead, BeginWrite, schedVars, heldVars, writeVars, flushVars, ServingInv, TypeOK, AnswerCount, AnsweredOnce, Undecided, Places, InFlight, HeldRecordsAgree, Held
<1>8. ClosedShape'
  BY DEF TerminalWins, Read, CanRead, BeginWrite, schedVars, heldVars, writeVars, flushVars, ServingInv, ClosedShape, ClosedTellsEveryone, Disposing
<1>. QED  BY <1>1, <1>2, <1>3, <1>4, <1>5, <1>6, <1>7, <1>8 DEF ServingInv

\* A rejected terminal removes both records.
LEMMA TerminalRejectsStep ==
    ASSUME ServingInv, NEW r \in Requests, TerminalRejects(r)
    PROVE  ServingInv'
<1>0. answers \in [Requests -> Nat] /\ seen \subseteq Requests
  BY DEF ServingInv, TypeOK
<1>w. Waiting' = Waiting
  BY DEF TerminalRejects, Read, CanRead, BeginWrite, schedVars, heldVars, writeVars, flushVars, Waiting
<1>1. TypeOK'
  BY <1>0 DEF TerminalRejects, Read, CanRead, BeginWrite, schedVars, heldVars, writeVars, flushVars, ServingInv, TypeOK
<1>2. NoDuplicates'
  BY DEF TerminalRejects, Read, CanRead, BeginWrite, schedVars, heldVars, writeVars, flushVars, ServingInv, NoDuplicates
<1>3. Places'
  BY <1>0, <1>w DEF TerminalRejects, Read, CanRead, BeginWrite, schedVars, heldVars, writeVars, flushVars, ServingInv, TypeOK, Places, InFlight, HeldRecordsAgree, Held
<1>4. OneInFlightPerId'
  BY <1>0, <1>w DEF TerminalRejects, Read, CanRead, BeginWrite, schedVars, heldVars, writeVars, flushVars, ServingInv, OneInFlightPerId, InFlight
<1>5. NoIdleSlot'
  BY DEF TerminalRejects, Read, CanRead, BeginWrite, schedVars, heldVars, writeVars, flushVars, ServingInv, NoIdleSlot
<1>6. HeldRecordsAgree'
  BY DEF TerminalRejects, Read, CanRead, BeginWrite, schedVars, heldVars, writeVars, flushVars, ServingInv, HeldRecordsAgree, Held
<1>7. AnswerCount'
  BY <1>0, <1>w DEF TerminalRejects, Read, CanRead, BeginWrite, schedVars, heldVars, writeVars, flushVars, ServingInv, TypeOK, AnswerCount, AnsweredOnce, Undecided, Places, InFlight, HeldRecordsAgree, Held
<1>8. ClosedShape'
  BY DEF TerminalRejects, Read, CanRead, BeginWrite, schedVars, heldVars, writeVars, flushVars, ServingInv, ClosedShape, ClosedTellsEveryone, Disposing
<1>. QED  BY <1>1, <1>2, <1>3, <1>4, <1>5, <1>6, <1>7, <1>8 DEF ServingInv

\* A claimed held response is written once.
LEMMA WriteHeldStep ==
    ASSUME ServingInv, NEW r \in Requests, WriteHeld(r)
    PROVE  ServingInv'
<1>0. answers \in [Requests -> Nat] /\ seen \subseteq Requests
  BY DEF ServingInv, TypeOK
<1>w. Waiting' = Waiting
  BY DEF WriteHeld, Read, CanRead, BeginWrite, schedVars, heldVars, writeVars, flushVars, Waiting
<1>1. TypeOK'
  BY <1>0 DEF WriteHeld, Read, CanRead, BeginWrite, schedVars, heldVars, writeVars, flushVars, ServingInv, TypeOK
<1>2. NoDuplicates'
  BY DEF WriteHeld, Read, CanRead, BeginWrite, schedVars, heldVars, writeVars, flushVars, ServingInv, NoDuplicates
<1>3. Places'
  BY <1>0, <1>w DEF WriteHeld, Read, CanRead, BeginWrite, schedVars, heldVars, writeVars, flushVars, ServingInv, TypeOK, Places, InFlight, HeldRecordsAgree, Held
<1>4. OneInFlightPerId'
  BY <1>0, <1>w DEF WriteHeld, Read, CanRead, BeginWrite, schedVars, heldVars, writeVars, flushVars, ServingInv, OneInFlightPerId, InFlight
<1>5. NoIdleSlot'
  BY DEF WriteHeld, Read, CanRead, BeginWrite, schedVars, heldVars, writeVars, flushVars, ServingInv, NoIdleSlot
<1>6. HeldRecordsAgree'
  BY DEF WriteHeld, Read, CanRead, BeginWrite, schedVars, heldVars, writeVars, flushVars, ServingInv, HeldRecordsAgree, Held
<1>7. AnswerCount'
  BY <1>0, <1>w DEF WriteHeld, Read, CanRead, BeginWrite, schedVars, heldVars, writeVars, flushVars, ServingInv, TypeOK, AnswerCount, AnsweredOnce, Undecided, Places, InFlight, HeldRecordsAgree, Held
<1>8. ClosedShape'
  BY DEF WriteHeld, Read, CanRead, BeginWrite, schedVars, heldVars, writeVars, flushVars, ServingInv, ClosedShape, ClosedTellsEveryone, Disposing
<1>. QED  BY <1>1, <1>2, <1>3, <1>4, <1>5, <1>6, <1>7, <1>8 DEF ServingInv

\* A settled write ends the loop's wait and the life of a held request.
LEMMA WriteSettlesStep ==
    ASSUME ServingInv, NEW r \in Requests, WriteSettles(r)
    PROVE  ServingInv'
<1>0. answers \in [Requests -> Nat] /\ seen \subseteq Requests
  BY DEF ServingInv, TypeOK
<1>w. Waiting' = Waiting
  BY DEF WriteSettles, Read, CanRead, BeginWrite, schedVars, heldVars, writeVars, flushVars, Waiting
<1>1. TypeOK'
  BY <1>0 DEF WriteSettles, Read, CanRead, BeginWrite, schedVars, heldVars, writeVars, flushVars, ServingInv, TypeOK
<1>2. NoDuplicates'
  BY DEF WriteSettles, Read, CanRead, BeginWrite, schedVars, heldVars, writeVars, flushVars, ServingInv, NoDuplicates
<1>3. Places'
  BY <1>0, <1>w DEF WriteSettles, Read, CanRead, BeginWrite, schedVars, heldVars, writeVars, flushVars, ServingInv, TypeOK, Places, InFlight, HeldRecordsAgree, Held
<1>4. OneInFlightPerId'
  BY <1>0, <1>w DEF WriteSettles, Read, CanRead, BeginWrite, schedVars, heldVars, writeVars, flushVars, ServingInv, OneInFlightPerId, InFlight
<1>5. NoIdleSlot'
  BY DEF WriteSettles, Read, CanRead, BeginWrite, schedVars, heldVars, writeVars, flushVars, ServingInv, NoIdleSlot
<1>6. HeldRecordsAgree'
  BY DEF WriteSettles, Read, CanRead, BeginWrite, schedVars, heldVars, writeVars, flushVars, ServingInv, HeldRecordsAgree, Held, AnswerCount, Undecided, TypeOK
<1>7. AnswerCount'
  BY <1>0, <1>w DEF WriteSettles, Read, CanRead, BeginWrite, schedVars, heldVars, writeVars, flushVars, ServingInv, TypeOK, AnswerCount, AnsweredOnce, Undecided, Places, InFlight, HeldRecordsAgree, Held
<1>8. ClosedShape'
  BY DEF WriteSettles, Read, CanRead, BeginWrite, schedVars, heldVars, writeVars, flushVars, ServingInv, ClosedShape, ClosedTellsEveryone, Disposing
<1>. QED  BY <1>1, <1>2, <1>3, <1>4, <1>5, <1>6, <1>7, <1>8 DEF ServingInv

\* Closing, wherever it is called from, drops the queue, the undecided held
\* responses and nothing that has an answer under way.
LEMMA CloseStep ==
    ASSUME ServingInv, Close, UNCHANGED <<seen, writeVars, blockedOn>>,
           readEnded' \/ Disposing',
           readEnded' \in BOOLEAN, stage' \in Stages, heldAwaited' \subseteq Requests,
           writesAwaited' \subseteq Requests, deadlineHit' \in BOOLEAN
    PROVE  ServingInv'
<1>w. Waiting' \subseteq Waiting /\ Waiting' = IF closed THEN Waiting ELSE {}
  BY DEF Close, schedVars, Waiting, Range
<1>t. InFlight \subseteq Requests
  BY RangeOfSeq DEF ServingInv, TypeOK, InFlight, Waiting
<1>1. TypeOK'
  BY <1>t, EmptySeq DEF Close, schedVars, heldVars, writeVars, ServingInv, TypeOK
<1>2. NoDuplicates'
  BY DEF Close, schedVars, ServingInv, NoDuplicates, IsInjective
<1>3. Places'
  BY <1>w DEF Close, schedVars, heldVars, writeVars, ServingInv, Places, InFlight
<1>4. OneInFlightPerId'
  BY <1>w DEF Close, schedVars, heldVars, ServingInv, OneInFlightPerId, InFlight
<1>5. NoIdleSlot'
  <2>1. Len(<<>>) = 0  OBVIOUS
  <2>. QED  BY <2>1, ServingAssumption DEF Close, schedVars, ServingInv, NoIdleSlot
<1>6. HeldRecordsAgree'
  BY DEF Close, schedVars, heldVars, ServingInv, HeldRecordsAgree, Held
<1>7. AnswerCount'
  BY <1>w DEF Close, schedVars, heldVars, writeVars, ServingInv, AnswerCount, AnsweredOnce, Undecided
<1>8. ClosedShape'
  BY DEF Close, schedVars, heldVars, ServingInv, ClosedShape, ClosedTellsEveryone, InFlight
<1>. QED  BY <1>1, <1>2, <1>3, <1>4, <1>5, <1>6, <1>7, <1>8 DEF ServingInv

\* A step that touches only the progress of the disposal keeps the invariant.
LEMMA StageStep ==
    ASSUME ServingInv,
           UNCHANGED <<seen, schedVars, heldVars, aborted, writeVars, blockedOn, readEnded, closed>>,
           Disposing => Disposing', stage' \in Stages, heldAwaited' \subseteq Requests,
           writesAwaited' \subseteq Requests, deadlineHit' \in BOOLEAN
    PROVE  ServingInv'
<1>w. Waiting' = Waiting
  BY DEF schedVars, Waiting
<1>1. TypeOK'
  BY DEF schedVars, heldVars, writeVars, ServingInv, TypeOK
<1>2. NoDuplicates' /\ NoIdleSlot' /\ HeldRecordsAgree'
  BY DEF schedVars, heldVars, ServingInv, NoDuplicates, NoIdleSlot, HeldRecordsAgree, Held
<1>3. Places' /\ OneInFlightPerId'
  BY <1>w DEF schedVars, heldVars, writeVars, ServingInv, Places, OneInFlightPerId, InFlight
<1>4. AnswerCount'
  BY <1>w DEF schedVars, heldVars, writeVars, ServingInv, AnswerCount, AnsweredOnce, Undecided
<1>5. ClosedShape'
  BY DEF schedVars, heldVars, ServingInv, ClosedShape, ClosedTellsEveryone
<1>. QED  BY <1>1, <1>2, <1>3, <1>4, <1>5 DEF ServingInv

\* The steps of the connection as a whole.
LEMMA ConnectionKeeps ==
    ASSUME ServingInv, ConnectionStep
    PROVE  ServingInv'
<1>t. /\ readEnded \in BOOLEAN /\ deadlineHit \in BOOLEAN /\ heldAwaited \subseteq Requests
      /\ writesAwaited \subseteq Requests /\ pendingWrites \subseteq Requests
      /\ Held \subseteq Requests /\ stage \in Stages
  BY DEF ServingInv, TypeOK, Held
<1>1. CASE TransportEnds
  <2>1. /\ Close /\ UNCHANGED <<seen, writeVars, blockedOn>> /\ readEnded' = TRUE
        /\ UNCHANGED <<stage, heldAwaited, writesAwaited, deadlineHit>>
    BY <1>1 DEF TransportEnds, flushVars
  <2>. QED  BY <1>t, <2>1, CloseStep
<1>2. CASE WritesFlushed \/ FlushDeadline
  <2>1. /\ Close /\ UNCHANGED <<seen, writeVars, blockedOn>> /\ stage' = "drain"
        /\ readEnded' = readEnded /\ heldAwaited' = heldAwaited
        /\ writesAwaited' = pendingWrites /\ deadlineHit' \in {deadlineHit, TRUE}
    BY <1>2 DEF WritesFlushed, FlushDeadline, CloseAndDrain
  <2>2. Disposing' /\ stage' \in Stages  BY <2>1 DEF Disposing, Stages
  <2>. QED  BY <1>t, <2>1, <2>2, CloseStep
<1>3. CASE Dispose \/ HookReturns \/ HeldFlushed \/ Drained \/ DrainDeadline
  <2>1. /\ UNCHANGED <<seen, schedVars, heldVars, aborted, writeVars, blockedOn, readEnded, closed>>
        /\ stage' \in {"hook", "held", "flush", "disposed"}
        /\ heldAwaited' \in {heldAwaited, Held}
        /\ writesAwaited' \in {writesAwaited, pendingWrites}
        /\ deadlineHit' \in {deadlineHit, TRUE}
    BY <1>3 DEF Dispose, HookReturns, HeldFlushed, Drained, DrainDeadline, DisposeTransport, flushVars
  <2>2. Disposing' /\ stage' \in Stages  BY <2>1 DEF Disposing, Stages
  <2>. QED  BY <1>t, <2>1, <2>2, StageStep
<1>. QED  BY <1>1, <1>2, <1>3 DEF ConnectionStep

-----------------------------------------------------------------------------
(* The theorems. *)

\* ServingInv holds in every reachable state of a serving connection, whatever
\* the peer sends, however handlers settle and whenever the connection closes.
THEOREM ServingInvariant == Spec => []ServingInv
<1>1. Init => ServingInv
  <2>. SUFFICES ASSUME Init PROVE ServingInv  OBVIOUS
  <2>1. Waiting = {} /\ Len(<<>>) = 0 /\ <<>> \in Seq(Requests)
    BY EmptySeq DEF Init, Waiting, Range
  <2>2. TypeOK /\ NoDuplicates
    <3>1. [r \in Requests |-> 0] \in [Requests -> Nat]  OBVIOUS
    <3>2. IsInjective(<<>>)  BY DEF IsInjective
    <3>. QED  BY <2>1, <3>1, <3>2 DEF Init, TypeOK, Stages, NoDuplicates
  <2>3. Places /\ OneInFlightPerId /\ HeldRecordsAgree
    BY <2>1 DEF Init, Places, OneInFlightPerId, InFlight, HeldRecordsAgree, Held
  <2>4. NoIdleSlot
    BY <2>1, ServingAssumption, FS_EmptySet DEF Init, NoIdleSlot
  <2>5. AnswerCount /\ ClosedShape
    BY DEF Init, AnswerCount, AnsweredOnce, ClosedShape, ClosedTellsEveryone
  <2>. QED  BY <2>2, <2>3, <2>4, <2>5 DEF ServingInv
<1>2. ServingInv /\ [Next]_vars => ServingInv'
  <2>. SUFFICES ASSUME ServingInv, [Next]_vars PROVE ServingInv'  OBVIOUS
  <2>1. ASSUME NEW r \in Requests, Receive(r) PROVE ServingInv'
    BY <2>1, InvalidRequestStep, RefuseWhileDisposingStep, RefuseDuplicateStep, RefuseBusyStep,
       StartAtOnceStep, EnqueueStep, CancelQueuedStep, CancelStartedStep DEF Receive
  <2>2. ASSUME NEW r \in Requests, HandlerStep(r) PROVE ServingInv'
    BY <2>2, HandlerSettlesStep, SettleRequestStep, HandlerHoldsStep, TerminalWinsStep,
       TerminalRejectsStep, WriteHeldStep, WriteSettlesStep DEF HandlerStep
  <2>3. CASE UNCHANGED vars
    <3>1. UNCHANGED <<seen, schedVars, heldVars, aborted, writeVars, blockedOn, readEnded, closed>>
      BY <2>3 DEF vars, schedVars, heldVars, writeVars
    <3>2. UNCHANGED <<stage, heldAwaited, writesAwaited, deadlineHit>>  BY <2>3 DEF vars
    <3>. QED  BY <3>1, <3>2, StageStep DEF ServingInv, TypeOK, Disposing
  <2>. QED  BY <2>1, <2>2, <2>3, ConnectionKeeps DEF Next
<1>. QED  BY <1>1, <1>2, PTL DEF Spec

\* Every variable keeps its type.
THEOREM TypeCorrect == Spec => []TypeOK
<1>1. ServingInv => TypeOK  BY DEF ServingInv
<1>. QED  BY <1>1, ServingInvariant, PTL

\* An id never names two requests at once: the scheduler's Maps keyed by id lose
\* no entry, for every way a peer may reuse ids.
THEOREM IdsAreUnique == Spec => []OneInFlightPerId
<1>1. ServingInv => OneInFlightPerId  BY DEF ServingInv
<1>. QED  BY <1>1, ServingInvariant, PTL

\* The bounds on slots and queue hold, and no slot is idle while a request waits.
THEOREM SlotsAreUsed == Spec => []NoIdleSlot
<1>1. ServingInv => NoIdleSlot  BY DEF ServingInv
<1>. QED  BY <1>1, ServingInvariant, PTL

\* The RPC's and the scheduler's records of a held request never disagree.
THEOREM HeldRecordsNeverDisagree == Spec => []HeldRecordsAgree
<1>1. ServingInv => HeldRecordsAgree  BY DEF ServingInv
<1>. QED  BY <1>1, ServingInvariant, PTL

\* No request is answered twice.
THEOREM AtMostOneAnswer == Spec => []AnsweredOnce
<1>1. ServingInv => AnsweredOnce  BY DEF ServingInv, AnswerCount
<1>. QED  BY <1>1, ServingInvariant, PTL

\* After the close nothing is queued or undecided and every handler was told.
THEOREM CloseReachesEveryone == Spec => []ClosedTellsEveryone
<1>1. ServingInv => ClosedTellsEveryone  BY DEF ServingInv, ClosedShape
<1>. QED  BY <1>1, ServingInvariant, PTL

\* A request whose signal fired before its response was decided is never answered
\* afterwards: no step of the handler, of the loop or of the disposal writes it.
THEOREM CancelledStaysSilent == Spec => CancelledAnswersNothing
<1>. DEFINE Silent(r) ==
         (r \in aborted /\ r \notin heldClaimed \cup settling)
            => answers'[r] = answers[r] /\ r \notin heldClaimed' \cup settling'
<1>1. ServingInv /\ [Next]_vars => \A r \in Requests : Silent(r)
  <2>. SUFFICES ASSUME ServingInv, [Next]_vars, NEW r \in Requests,
                       r \in aborted, r \notin heldClaimed, r \notin settling
                PROVE  answers'[r] = answers[r] /\ r \notin heldClaimed' /\ r \notin settling'
    OBVIOUS
  <2>t. /\ answers \in [Requests -> Nat] /\ r \in seen /\ r \notin heldOpen
    BY DEF ServingInv, TypeOK, Places
  <2>1. ASSUME NEW x \in Requests, Receive(x)
        PROVE  answers'[r] = answers[r] /\ r \notin heldClaimed' /\ r \notin settling'
    <3>1. CASE InvalidRequest(x) \/ RefuseWhileDisposing(x)
      BY <2>t, <3>1 DEF InvalidRequest, RefuseWhileDisposing, Read, RefuseInLoop, BeginWrite, heldVars
    <3>2. CASE RefuseDuplicate(x) \/ RefuseBusy(x)
      BY <2>t, <3>2 DEF RefuseDuplicate, RefuseBusy, Read, RefuseByScheduler, heldVars
    <3>3. CASE StartAtOnce(x) \/ Enqueue(x) \/ CancelQueued(x) \/ CancelStarted(x)
      BY <3>3 DEF StartAtOnce, Enqueue, CancelQueued, CancelStarted, heldVars, writeVars
    <3>. QED  BY <2>1, <3>1, <3>2, <3>3 DEF Receive
  <2>2. ASSUME NEW x \in Requests, HandlerStep(x)
        PROVE  answers'[r] = answers[r] /\ r \notin heldClaimed' /\ r \notin settling'
    <3>1. CASE HandlerSettles(x) \/ HandlerHolds(x)
      BY <3>1 DEF HandlerSettles, HandlerHolds, heldVars, writeVars
    <3>2. CASE SettleRequest(x) \/ WriteHeld(x)
      BY <2>t, <3>2 DEF SettleRequest, WriteHeld, BeginWrite, heldVars
    <3>3. CASE TerminalWins(x) \/ TerminalRejects(x) \/ WriteSettles(x)
      BY <2>t, <3>3 DEF TerminalWins, TerminalRejects, WriteSettles, writeVars
    <3>. QED  BY <2>2, <3>1, <3>2, <3>3 DEF HandlerStep
  <2>3. CASE ConnectionStep
    <3>1. UNCHANGED <<answers, settling, heldClaimed>>
      BY <2>3 DEF ConnectionStep, TransportEnds, Dispose, HookReturns, HeldFlushed, WritesFlushed,
         FlushDeadline, Drained, DrainDeadline, CloseAndDrain, DisposeTransport, Close, heldVars, writeVars
    <3>. QED  BY <3>1
  <2>4. CASE UNCHANGED vars
    BY <2>4 DEF vars
  <2>. QED  BY <2>1, <2>2, <2>3, <2>4 DEF Next
<1>2. ServingInv /\ [Next]_vars => [\A r \in Requests : Silent(r)]_vars
  BY <1>1
<1>. QED  BY <1>2, ServingInvariant, PTL DEF Spec, CancelledAnswersNothing
=============================================================================
