--------------------------- MODULE TaskManagerProofs ---------------------------
(***************************************************************************)
(* What tasks guarantee for every number of operations at once, of input   *)
(* requests, store errors, crashes and recoveries: TaskManager implements  *)
(* TaskLifecycle, no visible active task is without work, and a task that  *)
(* waits for recovery is nobody else's.                                    *)
(***************************************************************************)
EXTENDS TaskManager, TLAPS, SequenceTheorems

-----------------------------------------------------------------------------
(* Records. *)

\* Requests share no key, only the latest may be open, and a task with an open
\* request that goes on says so in its status.
SoundRecord(r) ==
    /\ r \in Records
    /\ \A i, j \in DOMAIN r.inputs :
          i # j => KeysOf[r.inputs[i].payload] \cap KeysOf[r.inputs[j].payload] = {}
    /\ \A i \in DOMAIN r.inputs : r.inputs[i].outcome = "open" =>
          i = Len(r.inputs) /\ (IsTerminal(r) \/ r.status = "input_required")

\* FateOf and ReplyTo, of any record.
FateIn(r, p) ==
    IF r = NoRecord \/ Same(r, p) = {} THEN "never"
    ELSE r.inputs[CHOOSE i \in Same(r, p) : TRUE].outcome
ReplyIn(r, k) ==
    IF r = NoRecord \/ IssuedIn(r, k) = {} THEN NoValue
    ELSE r.inputs[CHOOSE i \in IssuedIn(r, k) : TRUE].responses[k]

LEMMA Inputs ==
  ASSUME NEW r \in Records
  PROVE  /\ Len(r.inputs) \in Nat /\ DOMAIN r.inputs = 1..Len(r.inputs)
         /\ \A i \in DOMAIN r.inputs : r.inputs[i] \in Entries
         /\ r # NoRecord
         /\ r.inputs # <<>> => Len(r.inputs) \in DOMAIN r.inputs /\ Last(r.inputs) = r.inputs[Len(r.inputs)]
<1>1. r.inputs \in Seq(Entries) /\ r # NoRecord
  BY NoRecordAssumption DEF Records
<1>2. Len(r.inputs) \in Nat /\ DOMAIN r.inputs = 1..Len(r.inputs)
      /\ \A i \in DOMAIN r.inputs : r.inputs[i] \in Entries
  BY <1>1, LenProperties, ElementOfSeq
<1>3. r.inputs # <<>> => Len(r.inputs) > 0
  BY <1>1, EmptySeq, LenProperties
<1> QED BY <1>1, <1>2, <1>3 DEF Last

\* A request is found under its payload and under each of its keys.
LEMMA FateFound ==
  ASSUME ManagerAssumption, NEW r, SoundRecord(r), NEW i \in DOMAIN r.inputs
  PROVE  /\ FateIn(r, r.inputs[i].payload) = r.inputs[i].outcome
         /\ \A k \in KeysOf[r.inputs[i].payload] : ReplyIn(r, k) = r.inputs[i].responses[k]
<1>1. r \in Records /\ r # NoRecord /\ r.inputs[i] \in Entries
      /\ \A j \in DOMAIN r.inputs : r.inputs[j].payload \in Payloads
  BY Inputs DEF SoundRecord, Entries
<1>2. Same(r, r.inputs[i].payload) = {i}
  <2>1. ASSUME NEW j \in DOMAIN r.inputs, r.inputs[j].payload = r.inputs[i].payload
        PROVE  j = i
    <3>1. KeysOf[r.inputs[i].payload] # {}
      BY <1>1 DEF ManagerAssumption
    <3> QED BY <2>1, <3>1 DEF SoundRecord
  <2> QED BY <2>1 DEF Same
<1>3. ASSUME NEW k \in KeysOf[r.inputs[i].payload]
      PROVE  IssuedIn(r, k) = {i}
  BY DEF IssuedIn, SoundRecord
<1> QED BY <1>1, <1>2, <1>3 DEF FateIn, ReplyIn

LEMMA NeverFound ==
  ASSUME NEW r, NEW p, NEW k
  PROVE  /\ (\A i \in DOMAIN r.inputs : r.inputs[i].payload # p) => FateIn(r, p) = "never"
         /\ (\A i \in DOMAIN r.inputs : k \notin KeysOf[r.inputs[i].payload]) => ReplyIn(r, k) = NoValue
  BY DEF FateIn, ReplyIn, Same, IssuedIn

-----------------------------------------------------------------------------
(* What each change does to the record, seen from outside. *)

NewEntry(p) == [payload |-> p, responses |-> NoReply, outcome |-> "open"]

AskSeen(r, n, p) ==
    /\ FateIn(n, p) = "open"
    /\ \A q \in Payloads : /\ FateIn(r, q) # "open"
                           /\ FateIn(r, q) # "never" => KeysOf[q] \cap KeysOf[p] = {}
                           /\ q # p => FateIn(n, q) = FateIn(r, q)
    /\ \A k \in Keys : ReplyIn(n, k) = ReplyIn(r, k)

LEMMA AskMoves ==
  ASSUME ManagerAssumption, NEW r, SoundRecord(r), ~IsTerminal(r),
         NEW p \in Payloads, CanAsk(r, p), NEW n \in Records,
         n.status = "input_required", n.inputs = Append(r.inputs, NewEntry(p))
  PROVE  SoundRecord(n) /\ AskSeen(r, n, p)
<1> DEFINE l == Len(r.inputs)
<1>1. /\ r \in Records /\ l \in Nat /\ DOMAIN r.inputs = 1..l
      /\ \A i \in 1..l : r.inputs[i] \in Entries
      /\ r.inputs \in Seq(Entries)
  BY Inputs DEF SoundRecord, Records
<1>2. /\ Len(n.inputs) = l + 1 /\ DOMAIN n.inputs = 1..(l + 1)
      /\ n.inputs[l + 1] = NewEntry(p)
      /\ \A i \in 1..l : n.inputs[i] = r.inputs[i]
  <2>1. NewEntry(p) \in Entries
    BY DEF NewEntry, Entries, NoReply, Replies, Outcomes
  <2> QED BY <1>1, <2>1, AppendProperties, Inputs
<1> HIDE DEF l
<1>3. \A i \in 1..l : KeysOf[r.inputs[i].payload] \cap KeysOf[p] = {}
  BY <1>1 DEF CanAsk, Reused
<1>4. \A i \in 1..l : r.inputs[i].outcome # "open"
  <2>1. ASSUME NEW i \in 1..l, r.inputs[i].outcome = "open" PROVE FALSE
    <3>1. i = l /\ r.status = "input_required" /\ r.inputs # <<>>
      BY <1>1, <2>1, EmptySeq DEF SoundRecord, l
    <3>2. Last(r.inputs).outcome = "open"
      BY <2>1, <3>1, <1>1, Inputs DEF l
    <3> QED BY <3>1, <3>2 DEF CanAsk, HasOpen
  <2> QED BY <2>1
<1>5. SoundRecord(n)
  <2>1. ASSUME NEW i \in 1..(l + 1), NEW j \in 1..(l + 1), i # j
        PROVE  KeysOf[n.inputs[i].payload] \cap KeysOf[n.inputs[j].payload] = {}
    <3>1. CASE i \in 1..l /\ j \in 1..l
      BY <1>1, <1>2, <2>1, <3>1 DEF SoundRecord
    <3>2. CASE i = l + 1 /\ j \in 1..l
      BY <1>2, <1>3, <3>2 DEF NewEntry
    <3>3. CASE i \in 1..l /\ j = l + 1
      BY <1>2, <1>3, <3>3 DEF NewEntry
    <3>4. (i \in 1..l \/ i = l + 1) /\ (j \in 1..l \/ j = l + 1)
      <4>1. l \in Nat
        BY <1>1
      <4> QED BY <4>1
    <3> QED BY <2>1, <3>1, <3>2, <3>3, <3>4
  <2>2. ASSUME NEW i \in 1..(l + 1), n.inputs[i].outcome = "open"
        PROVE  i = l + 1
    BY <1>1, <1>2, <1>4, <2>2
  <2> QED BY <1>2, <2>1, <2>2 DEF SoundRecord
<1>6. FateIn(n, p) = "open" /\ \A k \in KeysOf[p] : ReplyIn(n, k) = NoReply[k]
  <2>1. l + 1 \in DOMAIN n.inputs
    BY <1>1, <1>2
  <2> QED BY <1>2, <1>5, <2>1, FateFound DEF NewEntry
<1>7. \A k \in KeysOf[p] : ReplyIn(r, k) = NoValue
  BY <1>1, <1>3, NeverFound
<1>8. ASSUME NEW i \in 1..l
      PROVE  /\ FateIn(n, r.inputs[i].payload) = r.inputs[i].outcome
             /\ FateIn(r, r.inputs[i].payload) = r.inputs[i].outcome
             /\ \A k \in KeysOf[r.inputs[i].payload] : ReplyIn(n, k) = ReplyIn(r, k)
  <2>1. i \in DOMAIN n.inputs /\ i \in DOMAIN r.inputs /\ n.inputs[i] = r.inputs[i]
    BY <1>1, <1>2
  <2> QED BY <1>5, <2>1, FateFound
<1>9. ASSUME NEW q \in Payloads
      PROVE  /\ FateIn(r, q) # "open"
             /\ FateIn(r, q) # "never" => KeysOf[q] \cap KeysOf[p] = {}
             /\ q # p => FateIn(n, q) = FateIn(r, q)
  <2>1. CASE \E i \in 1..l : r.inputs[i].payload = q
    BY <1>3, <1>4, <1>8, <2>1
  <2>2. CASE \A i \in 1..l : r.inputs[i].payload # q
    <3>1. FateIn(r, q) = "never"
      BY <1>1, <2>2, NeverFound
    <3>2. q # p => FateIn(n, q) = "never"
      <4>1. q # p => \A i \in DOMAIN n.inputs : n.inputs[i].payload # q
        BY <1>1, <1>2, <2>2 DEF NewEntry
      <4> QED BY <4>1, NeverFound
    <3> QED BY <3>1, <3>2
  <2> QED BY <2>1, <2>2
<1>10. ASSUME NEW k \in Keys
       PROVE  ReplyIn(n, k) = ReplyIn(r, k)
  <2>1. CASE \E i \in 1..l : k \in KeysOf[r.inputs[i].payload]
    BY <1>8, <2>1
  <2>2. CASE k \in KeysOf[p]
    BY <1>6, <1>7, <2>2 DEF NoReply
  <2>3. CASE k \notin KeysOf[p] /\ \A i \in 1..l : k \notin KeysOf[r.inputs[i].payload]
    <3>1. \A i \in DOMAIN n.inputs : k \notin KeysOf[n.inputs[i].payload]
      BY <1>1, <1>2, <2>3 DEF NewEntry
    <3> QED BY <1>1, <2>3, <3>1, NeverFound
  <2> QED BY <2>1, <2>2, <2>3
<1> QED BY <1>5, <1>6, <1>9, <1>10 DEF AskSeen

\* An answer or a withdrawal replaces the latest request by one with the same payload.
LatestSeen(r, n, e) ==
    /\ e.payload \in Payloads /\ FateIn(r, e.payload) = "open"
    /\ \A p \in Payloads : FateIn(n, p) = IF p = e.payload THEN e.outcome ELSE FateIn(r, p)
    /\ \A k \in KeysOf[e.payload] : /\ ReplyIn(r, k) = Last(r.inputs).responses[k]
                                    /\ ReplyIn(n, k) = e.responses[k]
    /\ \A k \in Keys \ KeysOf[e.payload] : ReplyIn(n, k) = ReplyIn(r, k)

LEMMA LatestMoves ==
  ASSUME ManagerAssumption, NEW r, SoundRecord(r), HasOpen(r),
         NEW e \in Entries, e.payload = Last(r.inputs).payload,
         NEW n \in Records, n.inputs = SettleLatest(r, e),
         e.outcome = "open" => n.status = "input_required"
  PROVE  SoundRecord(n) /\ LatestSeen(r, n, e)
<1> DEFINE l == Len(r.inputs)
<1>1. /\ r \in Records /\ l \in Nat /\ DOMAIN r.inputs = 1..l /\ l \in 1..l
      /\ \A i \in 1..l : r.inputs[i] \in Entries
      /\ r.inputs \in Seq(Entries) /\ Last(r.inputs) = r.inputs[l]
  BY Inputs DEF SoundRecord, Records, HasOpen
<1>2. /\ Len(n.inputs) = l /\ DOMAIN n.inputs = 1..l /\ n.inputs[l] = e
      /\ \A i \in 1..l : i # l => n.inputs[i] = r.inputs[i]
      /\ \A i \in 1..l : n.inputs[i].payload = r.inputs[i].payload
  <2>1. n.inputs = [r.inputs EXCEPT ![l] = e]
    BY DEF SettleLatest
  <2>2. DOMAIN n.inputs = 1..l
    BY <1>1, <2>1
  <2>3. Len(n.inputs) = l
    BY <1>1, <2>2, Inputs
  <2> QED BY <1>1, <2>1, <2>2, <2>3
<1> HIDE DEF l
<1>3. SoundRecord(n)
  <2>1. ASSUME NEW i \in 1..l, n.inputs[i].outcome = "open"
        PROVE  i = l /\ n.status = "input_required"
    <3>1. CASE i = l
      BY <1>2, <2>1, <3>1
    <3>2. CASE i # l
      BY <1>1, <1>2, <2>1, <3>2 DEF SoundRecord, l
    <3> QED BY <3>1, <3>2
  <2>2. \A i, j \in 1..l : i # j => KeysOf[n.inputs[i].payload] \cap KeysOf[n.inputs[j].payload] = {}
    BY <1>1, <1>2 DEF SoundRecord
  <2> QED BY <1>2, <2>1, <2>2 DEF SoundRecord
<1>4. ASSUME NEW i \in 1..l
      PROVE  /\ FateIn(r, r.inputs[i].payload) = r.inputs[i].outcome
             /\ FateIn(n, r.inputs[i].payload) = n.inputs[i].outcome
             /\ \A k \in KeysOf[r.inputs[i].payload] :
                   /\ ReplyIn(r, k) = r.inputs[i].responses[k]
                   /\ ReplyIn(n, k) = n.inputs[i].responses[k]
  <2>1. i \in DOMAIN n.inputs /\ i \in DOMAIN r.inputs /\ n.inputs[i].payload = r.inputs[i].payload
    BY <1>1, <1>2
  <2> QED BY <1>3, <2>1, FateFound
<1>5. e.payload = r.inputs[l].payload /\ e.payload \in Payloads /\ r.inputs[l].outcome = "open"
  BY <1>1 DEF Entries, HasOpen
<1>6. ASSUME NEW p \in Payloads
      PROVE  FateIn(n, p) = IF p = e.payload THEN e.outcome ELSE FateIn(r, p)
  <2>1. CASE p = e.payload
    BY <1>1, <1>2, <1>4, <1>5, <2>1
  <2>2. CASE p # e.payload /\ \E i \in 1..l : r.inputs[i].payload = p
    BY <1>2, <1>4, <1>5, <2>2
  <2>3. CASE p # e.payload /\ \A i \in 1..l : r.inputs[i].payload # p
    <3>1. /\ \A i \in DOMAIN r.inputs : r.inputs[i].payload # p
          /\ \A i \in DOMAIN n.inputs : n.inputs[i].payload # p
      BY <1>1, <1>2, <2>3
    <3>2. FateIn(r, p) = "never" /\ FateIn(n, p) = "never"
      BY <3>1, NeverFound
    <3> QED BY <2>3, <3>2
  <2> QED BY <2>1, <2>2, <2>3
<1>7. ASSUME NEW k \in KeysOf[e.payload]
      PROVE  /\ ReplyIn(r, k) = Last(r.inputs).responses[k]
             /\ ReplyIn(n, k) = e.responses[k]
  BY <1>1, <1>2, <1>4, <1>5
<1>8. ASSUME NEW k \in Keys \ KeysOf[e.payload]
      PROVE  ReplyIn(n, k) = ReplyIn(r, k)
  <2>1. CASE \E i \in 1..l : k \in KeysOf[r.inputs[i].payload]
    BY <1>2, <1>4, <1>5, <2>1
  <2>2. CASE \A i \in 1..l : k \notin KeysOf[r.inputs[i].payload]
    <3>1. /\ \A i \in DOMAIN r.inputs : k \notin KeysOf[r.inputs[i].payload]
          /\ \A i \in DOMAIN n.inputs : k \notin KeysOf[n.inputs[i].payload]
      BY <1>1, <1>2, <2>2
    <3>2. ReplyIn(r, k) = NoValue /\ ReplyIn(n, k) = NoValue
      BY <3>1, NeverFound
    <3> QED BY <3>2
  <2> QED BY <2>1, <2>2
<1> QED BY <1>1, <1>3, <1>4, <1>5, <1>6, <1>7, <1>8 DEF LatestSeen

\* Whatever leaves the requests alone leaves what is known of them alone.
LEMMA SameInputs ==
  ASSUME NEW r \in Records, SoundRecord(r), NEW n \in Records, n.inputs = r.inputs,
         n.status = r.status \/ IsTerminal(n)
  PROVE  /\ SoundRecord(n)
         /\ \A p : FateIn(n, p) = FateIn(r, p)
         /\ \A k : ReplyIn(n, k) = ReplyIn(r, k)
<1>1. r # NoRecord /\ n # NoRecord
  BY Inputs
<1>2. SoundRecord(n)
  BY DEF SoundRecord, IsTerminal
<1> QED BY <1>1, <1>2 DEF FateIn, ReplyIn, Same, IssuedIn

-----------------------------------------------------------------------------
(* Operations. *)

Enders == {"complete", "fail", "cancel", "interrupt", "cancelFromHandle"}

Operation ==
    [kind : Kinds \cup {"idle"}, phase : {"idle", "read", "write", "notify", "waitRead", "waitSleep", "wait"},
     payload : Payloads \cup {NoPayload}, given : Replies, id : Nat,
     record : Records \cup {NoRecord}, signalled : BOOLEAN]

\* What an operation has to hold to compute a patch.
Computes(x) ==
    /\ x.kind \in Kinds
    /\ x.kind = "ask" => x.payload \in Payloads
    /\ x.kind = "answer" => x.given \in Given

\* The part of Wanted that only a write can change.
Allowed(x, r) ==
    /\ x.kind # "answer" => ~IsTerminal(r)
    /\ x.kind = "ask" => CanAsk(r, x.payload)
    /\ x.kind = "answer" => Fits(r, x.given)
    /\ x.kind = "withdraw" => HasOpen(r)

\* What an operation may rely on, phase by phase: its patch was computed from an earlier
\* revision, or from the record that is stored.
Quiet(x) ==
    /\ x.phase \in {"idle", "read", "waitRead", "waitSleep", "wait"}
    /\ x.phase = "read" => Computes(x)
    /\ x.phase \in {"waitRead", "waitSleep", "wait"} => x.kind = "ask"
Writing(x, r) ==
    /\ x.phase = "write" /\ Computes(x) /\ x.record \in Records
    /\ r # NoRecord =>
          /\ x.record.revision <= r.revision
          /\ x.record.revision = r.revision => Allowed(x, r) /\ x.record = Patched(x, r)
Notifying(x, r) ==
    /\ x.phase = "notify" /\ x.kind \in Kinds /\ x.record \in Records
    /\ x.kind \in Enders => ~IsActive(r)
SoundOp(x, r) == x \in Operation /\ (Quiet(x) \/ Writing(x, r) \/ Notifying(x, r))

LEMMA WantedAllowed ==
  ASSUME NEW x, NEW r, Computes(x), Wanted(x, r)
  PROVE  Allowed(x, r)
<1>1. Settles = {"complete", "fail"}
  BY DEF Settles
<1> QED BY <1>1 DEF Computes, Kinds, Wanted, Allowed, HasOpen, IsTerminal, Terminal

LEMMA WantedOfTheWork ==
  ASSUME NEW x, NEW r, x.kind \in Settles \/ x.kind = "interrupt"
  PROVE  Wanted(x, r) <=> ~IsTerminal(r)
<1>1. Settles = {"complete", "fail"}
  BY DEF Settles
<1> QED BY <1>1 DEF Wanted, IsTerminal

Life(r) == IF IsTerminal(r) THEN r.status ELSE "active"
SameSeen(r, n) ==
    /\ \A p \in Payloads : FateIn(n, p) = FateIn(r, p)
    /\ \A k \in Keys : ReplyIn(n, k) = ReplyIn(r, k)

\* The steps of the life cycle, between a record and the one that replaces it.
EndMove(r, n) == Life(n) \in Terminal /\ SameSeen(r, n)
AskMove(r, n, p) ==
    /\ Life(n) = "active"
    /\ \A q \in Payloads :
         /\ FateIn(r, q) # "open"
         /\ FateIn(r, q) # "never" => KeysOf[q] \cap KeysOf[p] = {}
         /\ FateIn(n, q) = IF q = p THEN "open" ELSE FateIn(r, q)
    /\ \A k \in Keys : ReplyIn(n, k) = ReplyIn(r, k)
ReplyMove(r, n, p, given) ==
    /\ Life(n) = "active" /\ FateIn(r, p) = "open"
    /\ \A k \in Keys : /\ given[k] # NoValue => k \in KeysOf[p] /\ ReplyIn(r, k) = NoValue
                       /\ ReplyIn(n, k) = IF given[k] # NoValue THEN given[k] ELSE ReplyIn(r, k)
    /\ \A q \in Payloads : FateIn(n, q) =
          IF q # p THEN FateIn(r, q)
          ELSE IF \A k \in KeysOf[p] : ReplyIn(n, k) # NoValue THEN "answered" ELSE "open"
WithdrawMove(r, n, p) ==
    /\ Life(n) = "active" /\ FateIn(r, p) = "open"
    /\ \A q \in Payloads : FateIn(n, q) = IF q = p THEN "withdrawn" ELSE FateIn(r, q)
    /\ \A k \in Keys : ReplyIn(n, k) = ReplyIn(r, k)
Moves(r, n) ==
    \/ EndMove(r, n)
    \/ Life(n) = "active" /\ SameSeen(r, n)
    \/ \E p \in Payloads : AskMove(r, n, p) \/ WithdrawMove(r, n, p)
                           \/ \E given \in Given : ReplyMove(r, n, p, given)

\* The latest entry can be replaced.
LEMMA Latest ==
  ASSUME NEW r, SoundRecord(r), HasOpen(r), NEW e \in Entries
  PROVE  Last(r.inputs) \in Entries /\ SettleLatest(r, e) \in Seq(Entries)
<1>1. r.inputs \in Seq(Entries) /\ Len(r.inputs) \in DOMAIN r.inputs
      /\ DOMAIN r.inputs = 1..Len(r.inputs) /\ Last(r.inputs) \in Entries
  BY Inputs DEF SoundRecord, Records, HasOpen
<1> QED BY <1>1, ExceptSeq DEF SettleLatest

LEMMA Stamped ==
  ASSUME NEW q \in Records, NEW n, n = [q EXCEPT !.revision = @ + 1]
  PROVE  /\ n \in Records /\ n.revision = q.revision + 1
         /\ n.status = q.status /\ n.inputs = q.inputs
BY DEF Records

\* What a patch makes of the record it was computed from.
LEMMA PatchMoves ==
  ASSUME ManagerAssumption, NEW r, SoundRecord(r), NEW x \in Operation, Computes(x), Allowed(x, r),
         NEW n, n = [Patched(x, r) EXCEPT !.revision = @ + 1]
  PROVE  /\ Patched(x, r) \in Records /\ Patched(x, r).revision = r.revision
         /\ SoundRecord(n) /\ n.revision = r.revision + 1
         /\ IsActive(r) /\ Moves(r, n)
         /\ x.kind \in Enders => ~IsActive(n)
<1>1. /\ r \in Records /\ r # NoRecord /\ r.revision \in Nat /\ r.inputs \in Seq(Entries)
      /\ r.status \in Statuses
  BY Inputs DEF SoundRecord, Records
<1>2. ASSUME NEW q \in Records, Patched(x, r) = q, q.revision = r.revision
      PROVE  /\ n \in Records /\ n.revision = r.revision + 1
             /\ n.status = q.status /\ n.inputs = q.inputs
  BY <1>2, Stamped
<1>3. CASE x.kind \in Enders
  <2> DEFINE q == [r EXCEPT !.status = StatusFor(x)]
  <2>1. Patched(x, r) = q
    BY <1>3 DEF Patched, Enders
  <2>2. StatusFor(x) \in Terminal /\ StatusFor(x) \in Statuses
    BY DEF StatusFor, Terminal, Statuses
  <2>3. q \in Records /\ q.revision = r.revision /\ q.status = StatusFor(x) /\ q.inputs = r.inputs
    BY <1>1, <2>2 DEF Records
  <2>4. /\ n \in Records /\ n.revision = r.revision + 1
        /\ n.status = StatusFor(x) /\ n.inputs = r.inputs
    BY <1>2, <2>1, <2>3
  <2>5. ~IsTerminal(r)
    BY <1>3 DEF Allowed, Enders
  <2>6. SoundRecord(n) /\ SameSeen(r, n)
    BY <1>1, <2>2, <2>4, SameInputs DEF IsTerminal, SameSeen
  <2> QED BY <1>1, <2>1, <2>2, <2>3, <2>4, <2>5, <2>6 DEF Moves, EndMove, Life, IsTerminal, IsActive
<1>4. CASE x.kind = "touch"
  <2>1. Patched(x, r) = r /\ ~IsTerminal(r)
    BY <1>4 DEF Patched, Allowed
  <2>2. /\ n \in Records /\ n.revision = r.revision + 1 /\ n.status = r.status /\ n.inputs = r.inputs
    BY <1>1, <1>2, <2>1
  <2>3. SoundRecord(n) /\ SameSeen(r, n)
    BY <1>1, <2>2, SameInputs DEF SameSeen
  <2> QED BY <1>1, <1>4, <2>1, <2>2, <2>3 DEF Moves, Life, IsTerminal, IsActive, Enders
<1>5. CASE x.kind = "ask"
  <2> DEFINE p == x.payload
             q == [r EXCEPT !.status = "input_required", !.inputs = Append(r.inputs, NewEntry(p))]
  <2>1. Patched(x, r) = q /\ p \in Payloads /\ ~IsTerminal(r) /\ CanAsk(r, p)
    BY <1>5 DEF Patched, Allowed, Computes, NewEntry
  <2>2. NewEntry(p) \in Entries
    BY <2>1 DEF NewEntry, Entries, NoReply, Replies, Outcomes
  <2>3. q \in Records /\ q.revision = r.revision /\ q.status = "input_required"
        /\ q.inputs = Append(r.inputs, NewEntry(p))
    BY <1>1, <2>2, AppendProperties DEF Records, Statuses
  <2>4. /\ n \in Records /\ n.revision = r.revision + 1
        /\ n.status = "input_required" /\ n.inputs = Append(r.inputs, NewEntry(p))
    BY <1>2, <2>1, <2>3
  <2> HIDE DEF p, q
  <2>5. SoundRecord(n) /\ AskMove(r, n, p)
    <3>1. SoundRecord(n) /\ AskSeen(r, n, p)
      BY <2>1, <2>4, AskMoves
    <3>2. Life(n) = "active"
      BY <2>4 DEF Life, IsTerminal, Terminal
    <3> QED BY <3>1, <3>2 DEF AskMove, AskSeen
  <2> QED BY <1>1, <1>5, <2>1, <2>3, <2>4, <2>5 DEF Moves, IsActive, IsTerminal, Enders
<1>6. CASE x.kind = "withdraw"
  <2> DEFINE last == Last(r.inputs)
             e == [last EXCEPT !.outcome = "withdrawn"]
             q == [r EXCEPT !.status = "working", !.inputs = SettleLatest(r, e)]
  <2>1. Patched(x, r) = q /\ HasOpen(r)
    BY <1>6 DEF Patched, Allowed, Withdrawn, WithdrawnInputs
  <2>2. last \in Entries
    BY <1>1, <2>1, Inputs DEF SoundRecord, HasOpen
  <2>3. e \in Entries /\ e.payload = last.payload /\ e.responses = last.responses
        /\ e.outcome = "withdrawn"
    BY <2>2 DEF Entries, Outcomes
  <2>4. SettleLatest(r, e) \in Seq(Entries)
    BY <2>1, <2>3, Latest
  <2> HIDE DEF e
  <2>5. q \in Records /\ q.revision = r.revision /\ q.status = "working" /\ q.inputs = SettleLatest(r, e)
    BY <1>1, <2>4 DEF Records, Statuses
  <2>6. /\ n \in Records /\ n.revision = r.revision + 1
        /\ n.status = "working" /\ n.inputs = SettleLatest(r, e)
    BY <1>2, <2>1, <2>5
  <2>7. SoundRecord(n) /\ LatestSeen(r, n, e)
    BY <2>1, <2>3, <2>6, LatestMoves
  <2>8. \A k \in Keys : ReplyIn(n, k) = ReplyIn(r, k)
    BY <2>3, <2>7 DEF LatestSeen
  <2>9. WithdrawMove(r, n, e.payload)
    BY <2>3, <2>6, <2>7, <2>8 DEF WithdrawMove, LatestSeen, Life, IsTerminal, Terminal
  <2> QED BY <1>1, <1>6, <2>1, <2>5, <2>6, <2>7, <2>9
          DEF Moves, IsActive, IsTerminal, HasOpen, Terminal, Enders, LatestSeen
<1>7. CASE x.kind = "answer"
  <2> DEFINE last == Last(r.inputs)
             e == Answered(last, x.given)
             s == IF e.outcome = "answered" THEN "working" ELSE r.status
             q == [r EXCEPT !.status = s, !.inputs = SettleLatest(r, e)]
             closes == \A k \in KeysOf[last.payload] : Merged(last.responses, x.given)[k] # NoValue
  <2>1. Patched(x, r) = q /\ HasOpen(r) /\ Fits(r, x.given) /\ x.given \in Given
    BY <1>7 DEF Patched, Allowed, Fits, Computes
  <2>2. last \in Entries /\ last.outcome = "open" /\ r.status = "input_required"
    BY <1>1, <2>1, Inputs DEF HasOpen
  <2>3. /\ e \in Entries /\ e.payload = last.payload
        /\ e.responses = Merged(last.responses, x.given)
        /\ e.outcome = IF closes THEN "answered" ELSE "open"
    <3>1. Merged(last.responses, x.given) \in Replies
      BY <2>1, <2>2 DEF Merged, Replies, Entries, Given
    <3> QED BY <2>2, <3>1 DEF Answered, Entries, Outcomes
  <2>4. SettleLatest(r, e) \in Seq(Entries)
    BY <2>1, <2>3, Latest
  <2> HIDE DEF e, closes
  <2>5. q \in Records /\ q.revision = r.revision /\ q.status = s /\ q.inputs = SettleLatest(r, e)
    BY <1>1, <2>4 DEF Records, Statuses
  <2>6. /\ n \in Records /\ n.revision = r.revision + 1
        /\ n.status = s /\ n.inputs = SettleLatest(r, e)
    BY <1>2, <2>1, <2>5
  <2>7. s \in {"working", "input_required"} /\ (e.outcome = "open" => s = "input_required")
    BY <2>2
  <2> HIDE DEF s, q
  <2>8. SoundRecord(n) /\ LatestSeen(r, n, e)
    BY <2>1, <2>3, <2>6, <2>7, LatestMoves
  <2>9. KeysOf[e.payload] \subseteq Keys
    BY <2>8 DEF ManagerAssumption, LatestSeen
  <2>10. ASSUME NEW k \in Keys
         PROVE  /\ x.given[k] # NoValue => k \in KeysOf[e.payload] /\ ReplyIn(r, k) = NoValue
                /\ ReplyIn(n, k) = IF x.given[k] # NoValue THEN x.given[k] ELSE ReplyIn(r, k)
    BY <2>1, <2>3, <2>8 DEF Fits, Merged, LatestSeen
  <2>11. closes <=> \A k \in KeysOf[e.payload] : ReplyIn(n, k) # NoValue
    BY <2>3, <2>8 DEF closes, LatestSeen
  <2>12. ReplyMove(r, n, e.payload, x.given)
    BY <2>3, <2>6, <2>7, <2>8, <2>10, <2>11 DEF ReplyMove, LatestSeen, Life, IsTerminal, Terminal
  <2> QED BY <1>1, <1>7, <2>1, <2>2, <2>5, <2>6, <2>8, <2>12
          DEF Moves, IsActive, IsTerminal, Terminal, Enders, LatestSeen
<1> QED BY <1>3, <1>4, <1>5, <1>6, <1>7 DEF Computes, Kinds, Enders

-----------------------------------------------------------------------------
(* The invariant. *)

Busy(x, kinds) == x.phase # "idle" /\ x.kind \in kinds

\* The stored record is sound and every operation under way may rely on it.
StoreInv ==
    /\ rec \in Records \cup {NoRecord} /\ created \in BOOLEAN
    /\ rec # NoRecord => SoundRecord(rec) /\ created
    /\ op \in [Ops -> Operation]
    /\ \A o \in Ops : SoundOp(op[o], rec)
    /\ expiring => rec = NoRecord

\* Nothing happens before the task is created.
Unborn ==
    ~created => /\ \A o \in Ops : op[o].phase = "idle"
                /\ \A c \in Recoverers : recoverer[c] = "idle"
                /\ worker = "none" /\ ctl = "none"
                /\ ~creating /\ ~hidden /\ ~expiring

\* The work: attached once, its outcome written by one operation, told to stop or
\* ended only when the task has ended, or when the manager gives up.
WorkInv ==
    /\ worker \in {"none", "running", "settling", "ended"}
    /\ attempts \in 0..SettleAttempts
    /\ \A o \in Ops : Busy(op[o], Settles) => worker = "settling"
    /\ \A o, p \in Ops : Busy(op[o], Settles) /\ Busy(op[p], Settles) => o = p
    /\ worker = "none" => ~IsActive(rec) \/ hidden \/ creating \/ disposed
    /\ worker = "ended" => ~IsActive(rec) \/ disposed \/ creating \/ attempts = SettleAttempts
    /\ ctl = "aborted" => ~IsActive(rec) \/ disposed

\* Recovery: one call at a time, with no work and no operation but its own.
RecoveryInv ==
    /\ hidden \in BOOLEAN /\ creating \in BOOLEAN /\ ready \in BOOLEAN /\ recovering \in BOOLEAN
    /\ recoverer \in [Recoverers -> {"idle", "callback", "resumed", "declined", "interrupting"}]
    /\ hidden => /\ worker = "none" /\ ~creating
                 /\ \A o \in Ops : op[o].phase # "idle" => op[o].kind = "interrupt"
    /\ creating => worker \in {"none", "ended"} /\ \A c \in Recoverers : recoverer[c] = "idle"
    /\ \A c \in Recoverers : recoverer[c] # "idle" => recovering /\ ready /\ worker = "none"
    /\ \A c, d \in Recoverers : recoverer[c] # "idle" /\ recoverer[d] # "idle" => c = d
    /\ \A o \in Ops : Busy(op[o], {"interrupt"}) =>
          /\ ~ready \/ recovering
          /\ \A c \in Recoverers : recoverer[c] \in {"idle", "interrupting"}
    /\ \A o, p \in Ops : Busy(op[o], {"interrupt"}) /\ Busy(op[p], {"interrupt"}) => o = p

Inv == StoreInv /\ Unborn /\ WorkInv /\ RecoveryInv

-----------------------------------------------------------------------------
(* The slots. *)

LEMMA IdleOperation == Idle \in Operation /\ NoReply \in Replies
BY DEF Idle, Operation, NoReply, Replies

LEMMA OverOperation == InterruptOver \in Operation /\ InterruptOver.phase = "idle"
BY IdleOperation DEF InterruptOver, Idle, Operation, Kinds

\* The waiters told that they need not wait any longer; ops2 is ops but for them.
Excused(ops, ops2) ==
    /\ ops2 \in [Ops -> Operation]
    /\ \A o \in Ops : ops2[o] = ops[o] \/ (Waits(ops[o]) /\ ops2[o].phase = "idle")

LEMMA ToldExcused ==
  ASSUME NEW ops \in [Ops -> Operation], NEW r
  PROVE  Excused(ops, Told(ops, r))
<1>1. Idle \in Operation /\ Idle.phase = "idle"
  BY IdleOperation DEF Idle
<1> QED BY <1>1 DEF Excused, Told

LEMMA AbortedExcused ==
  ASSUME NEW ops \in [Ops -> Operation]
  PROVE  Excused(ops, AbortedIfLive(ops))
<1>1. Idle \in Operation /\ Idle.phase = "idle"
  BY IdleOperation DEF Idle
<1> QED BY <1>1 DEF Excused, AbortedIfLive, Aborted

\* The slot of a requestInput that starts, or starts again, to wait.
LEMMA Started ==
  ASSUME NEW x \in Operation, x.kind = "ask", NEW id \in Nat
  PROVE  /\ StartsWaiting(x, id) \in Operation /\ Quiet(StartsWaiting(x, id))
         /\ \/ StartsWaiting(x, id).phase = "idle"
            \/ StartsWaiting(x, id).phase = "waitRead" /\ StartsWaiting(x, id).kind = "ask"
<1>1. CASE disposed
  BY <1>1, IdleOperation DEF StartsWaiting, Quiet, Idle
<1>2. CASE ~disposed
  <2> DEFINE y == [x EXCEPT !.phase = "waitRead", !.record = NoRecord, !.id = id]
  <2>1. y \in Operation /\ y.phase = "waitRead" /\ y.kind = "ask"
    BY DEF Operation
  <2>2. StartsWaiting(x, id) = y
    BY <1>2 DEF StartsWaiting
  <2> QED BY <2>1, <2>2 DEF Quiet
<1> QED BY <1>1, <1>2

LEMMA ExcusedTwice ==
  ASSUME NEW ops, NEW ops2, NEW ops3, Excused(ops, ops2), Excused(ops2, ops3)
  PROVE  Excused(ops, ops3)
BY DEF Excused, Waits

LEMMA Begun ==
  ASSUME op \in [Ops -> Operation], NEW o \in Ops, NEW x \in Operation, Computes(x), Begin(o, x)
  PROVE  /\ op' \in [Ops -> Operation]
         /\ op'[o].phase = "read" /\ op'[o].kind = x.kind /\ Quiet(op'[o])
         /\ \A p \in Ops \ {o} : op'[p] = op[p]
<1>1. [x EXCEPT !.phase = "read"] \in Operation
  BY DEF Operation
<1>2. op'[o] = [x EXCEPT !.phase = "read"] /\ op' \in [Ops -> Operation]
      /\ \A p \in Ops \ {o} : op'[p] = op[p]
  BY <1>1 DEF Begin
<1> QED BY <1>2 DEF Quiet, Computes, Operation

LEMMA Finished ==
  ASSUME NEW o \in Ops, op \in [Ops -> Operation], NEW ops, Excused(op, ops), NEW c,
         Finish(o, ops, c)
  PROVE  /\ op' \in [Ops -> Operation] /\ op'[o].phase = "idle"
         /\ \A p \in Ops \ {o} : op'[p] = ops[p]
<1>1. Idle \in Operation /\ Idle.phase = "idle"
  BY IdleOperation DEF Idle
<1> QED BY <1>1 DEF Finish, Excused

-----------------------------------------------------------------------------
(* The life cycle, seen through the stored record. *)

Refines == [Lifecycle!LifecycleNext]_(Lifecycle!lifeVars)

Fates(r)     == [p \in Payloads |-> FateIn(r, p)]
AnswersIn(r) == [k \in Keys |-> ReplyIn(r, k)]

LEMMA Bar ==
  /\ Lifecycle!lifeVars = <<LifeOf, Fates(rec), AnswersIn(rec)>>
  /\ [p \in Payloads |-> FateOf(p)] = Fates(rec)
  /\ [k \in Keys |-> ReplyTo(k)] = AnswersIn(rec)
  /\ created /\ rec # NoRecord => LifeOf = Life(rec)
BY DEF Lifecycle!lifeVars, FateOf, ReplyTo, FateIn, ReplyIn, Fates, AnswersIn, LifeOf, Life

LEMMA Unseen ==
  ASSUME UNCHANGED <<rec, created>>
  PROVE  Refines
BY DEF Refines, Lifecycle!lifeVars, LifeOf, FateOf, ReplyTo, Same, IssuedIn, IsTerminal

LEMMA GivenSame == \A g \in Given : g \in Lifecycle!Given /\ g \in Replies
<1>1. ASSUME NEW g \in Given PROVE \E k \in Keys : g[k] # NoValue
  <2>1. g \in Replies /\ g # NoReply
    BY DEF Given
  <2>2. (\A k \in Keys : g[k] = NoValue) => g = NoReply
    BY <2>1 DEF Replies, NoReply
  <2> QED BY <2>1, <2>2
<1> QED BY <1>1 DEF Given, Lifecycle!Given, Replies

LEMMA MovesRefine ==
  ASSUME created, created' = created, IsActive(rec), rec' # NoRecord, Moves(rec, rec')
  PROVE  Refines
<1> DEFINE life == LifeOf
           fate == Fates(rec)
           replies == AnswersIn(rec)
<1>1. /\ life = "active" /\ life' = Life(rec')
      /\ rec # NoRecord
  BY DEF LifeOf, Life, IsActive, IsTerminal
<1>2. /\ \A p \in Payloads : fate[p] = FateIn(rec, p) /\ fate'[p] = FateIn(rec', p)
      /\ \A k \in Keys : replies[k] = ReplyIn(rec, k) /\ replies'[k] = ReplyIn(rec', k)
      /\ fate = [p \in Payloads |-> fate[p]] /\ fate' = [p \in Payloads |-> fate'[p]]
      /\ replies = [k \in Keys |-> replies[k]] /\ replies' = [k \in Keys |-> replies'[k]]
  BY DEF Fates, AnswersIn
<1>3. /\ [p \in Payloads |-> FateOf(p)] = fate /\ [k \in Keys |-> ReplyTo(k)] = replies
      /\ [p \in Payloads |-> FateOf(p)]' = fate' /\ [k \in Keys |-> ReplyTo(k)]' = replies'
  BY DEF FateOf, ReplyTo, FateIn, ReplyIn, Fates, AnswersIn
<1> HIDE DEF life, fate, replies
<1>4. CASE EndMove(rec, rec')
  <2>1. fate' = fate /\ replies' = replies
    BY <1>2, <1>4 DEF EndMove, SameSeen
  <2>2. life' \in Terminal
    BY <1>1, <1>4 DEF EndMove
  <2>3. Lifecycle!End(life')
    BY <1>1, <1>3, <2>1 DEF Lifecycle!End, life
  <2> QED BY <2>2, <2>3 DEF Refines, Lifecycle!LifecycleNext, Lifecycle!Terminal, Terminal
<1>5. CASE Life(rec') = "active" /\ SameSeen(rec, rec')
  <2>1. fate' = fate /\ replies' = replies
    BY <1>2, <1>5 DEF SameSeen
  <2> QED BY <1>1, <1>3, <1>5, <2>1 DEF Refines, Lifecycle!lifeVars, life
<1>6. ASSUME NEW p \in Payloads, AskMove(rec, rec', p)
      PROVE  Lifecycle!Ask(p)
  <2>1. life' = life /\ replies' = replies
    BY <1>1, <1>2, <1>6 DEF AskMove
  <2>2. fate' = [fate EXCEPT ![p] = "open"]
    BY <1>2, <1>6 DEF AskMove
  <2>3. \A q \in Payloads : /\ fate[q] # "open"
                            /\ fate[q] # "never" => KeysOf[q] \cap KeysOf[p] = {}
    BY <1>2, <1>6 DEF AskMove
  <2> QED BY <1>1, <1>3, <2>1, <2>2, <2>3 DEF Lifecycle!Ask, life
<1>7. ASSUME NEW p \in Payloads, WithdrawMove(rec, rec', p)
      PROVE  Lifecycle!Withdraw(p)
  <2>1. life' = life /\ replies' = replies
    BY <1>1, <1>2, <1>7 DEF WithdrawMove
  <2>2. fate[p] = "open" /\ fate' = [fate EXCEPT ![p] = "withdrawn"]
    BY <1>2, <1>7 DEF WithdrawMove
  <2> QED BY <1>1, <1>3, <2>1, <2>2 DEF Lifecycle!Withdraw, life
<1>8. ASSUME NEW p \in Payloads, NEW given \in Given, ReplyMove(rec, rec', p, given)
      PROVE  Lifecycle!Reply(p, given)
  <2>1. life' = life /\ fate[p] = "open"
    BY <1>1, <1>2, <1>8 DEF ReplyMove
  <2>2. \A k \in Keys : given[k] # NoValue => k \in KeysOf[p] /\ replies[k] = NoValue
    BY <1>2, <1>8 DEF ReplyMove
  <2>3. replies' = [k \in Keys |-> IF given[k] # NoValue THEN given[k] ELSE replies[k]]
    BY <1>2, <1>8 DEF ReplyMove
  <2>4. fate' = [fate EXCEPT ![p] = IF \A k \in KeysOf[p] : replies'[k] # NoValue
                                    THEN "answered" ELSE @]
    <3>1. (\A k \in KeysOf[p] : replies'[k] # NoValue) <=> (\A k \in KeysOf[p] : ReplyIn(rec', k) # NoValue)
      BY <1>2, ManagerAssumption DEF ManagerAssumption
    <3> QED BY <1>2, <1>8, <2>1, <3>1 DEF ReplyMove
  <2> QED BY <1>1, <1>3, <2>1, <2>2, <2>3, <2>4 DEF Lifecycle!Reply, life
<1> QED BY <1>4, <1>5, <1>6, <1>7, <1>8, GivenSame DEF Moves, Refines, Lifecycle!LifecycleNext

LEMMA StoreInit == Init => StoreInv /\ Unborn /\ WorkInv /\ RecoveryInv
<1> SUFFICES ASSUME Init PROVE StoreInv /\ Unborn /\ WorkInv /\ RecoveryInv
  OBVIOUS
<1>1. /\ op = [o \in Ops |-> Idle] /\ op \in [Ops -> Operation]
      /\ \A o \in Ops : op[o] = Idle /\ op[o].phase = "idle" /\ op[o] \in Operation
  BY IdleOperation DEF Init, Idle
<1>2. StoreInv
  BY <1>1 DEF StoreInv, SoundOp, Quiet, Init
<1>3. Unborn /\ RecoveryInv
  BY <1>1 DEF Unborn, RecoveryInv, Init, Busy
<1>4. WorkInv
  BY <1>1, ManagerAssumption DEF WorkInv, Init, Busy, IsActive, ManagerAssumption
<1> QED BY <1>2, <1>3, <1>4

\* A step that leaves the record alone.
LEMMA Unwritten ==
  ASSUME StoreInv, UNCHANGED <<rec, created>>, expiring' => rec = NoRecord,
         op' \in [Ops -> Operation],
         \A o \in Ops : op'[o] = op[o] \/ Quiet(op'[o]) \/ Writing(op'[o], rec)
  PROVE  StoreInv' /\ Refines
<1>1. \A o \in Ops : SoundOp(op'[o], rec')
  BY DEF StoreInv, SoundOp
<1>2. StoreInv'
  BY <1>1 DEF StoreInv
<1> QED BY <1>2, Unseen

\* The first record.
LEMMA Created ==
  ASSUME StoreInv, Unborn, ~created, created', rec' = NewRecord, op' = op, ~expiring'
  PROVE  StoreInv' /\ Refines
<1>1. rec = NoRecord /\ \A o \in Ops : op[o].phase = "idle"
  BY DEF StoreInv, Unborn
<1>2. /\ rec' \in Records /\ rec'.inputs = <<>> /\ rec'.status = "working"
      /\ DOMAIN rec'.inputs = {}
  BY DEF NewRecord, Records, Statuses
<1>3. SoundRecord(rec')
  BY <1>2 DEF SoundRecord
<1>4. \A o \in Ops : SoundOp(op'[o], rec')
  BY <1>1 DEF StoreInv, SoundOp, Quiet
<1>5. StoreInv'
  BY <1>2, <1>3, <1>4 DEF StoreInv
<1>6. /\ \A p : FateIn(rec, p) = "never" /\ FateIn(rec', p) = "never"
      /\ \A k : ReplyIn(rec, k) = NoValue /\ ReplyIn(rec', k) = NoValue
  <2>1. \A p : FateIn(rec, p) = "never" /\ \A k : ReplyIn(rec, k) = NoValue
    BY <1>1 DEF FateIn, ReplyIn
  <2>2. \A p, k : FateIn(rec', p) = "never" /\ ReplyIn(rec', k) = NoValue
    BY <1>2, NeverFound
  <2> QED BY <2>1, <2>2
<1>7. LifeOf = "absent" /\ LifeOf' = "active"
  BY <1>2, Inputs DEF LifeOf, IsTerminal, Terminal
<1>8. /\ [p \in Payloads |-> FateOf(p)] = [p \in Payloads |-> FateOf(p)]'
      /\ [k \in Keys |-> ReplyTo(k)] = [k \in Keys |-> ReplyTo(k)]'
  BY <1>6 DEF FateIn, ReplyIn, FateOf, ReplyTo
<1> QED BY <1>5, <1>7, <1>8 DEF Refines, Lifecycle!LifecycleNext, Lifecycle!Create

\* The record is deleted.
LEMMA Deleted ==
  ASSUME StoreInv, rec # NoRecord, rec' = NoRecord, created' = created, op' = op
  PROVE  StoreInv' /\ Refines /\ ~IsActive(rec)'
<1>1. \A o \in Ops : SoundOp(op'[o], rec')
  BY DEF StoreInv, SoundOp, Writing, Notifying, IsActive
<1>2. StoreInv'
  BY <1>1 DEF StoreInv
<1>3. /\ \A p : FateOf(p)' = "never"
      /\ \A k : ReplyTo(k)' = NoValue
  BY DEF FateOf, ReplyTo
<1>4. LifeOf' = "expired" /\ LifeOf \notin {"absent", "expired"}
  BY DEF LifeOf, StoreInv, IsTerminal, Terminal
<1> QED BY <1>2, <1>3, <1>4 DEF Refines, Lifecycle!LifecycleNext, Lifecycle!Expire, IsActive

\* A conditional write.
LEMMA Written ==
  ASSUME StoreInv, NEW o \in Ops, op[o].phase = "write", rec # NoRecord,
         rec.revision = op[o].record.revision, rec' = Committed(o),
         UNCHANGED <<created, expiring>>, op' \in [Ops -> Operation],
         \A p \in Ops \ {o} : op'[p] = op[p],
         Quiet(op'[o]) \/ op'[o] = [op[o] EXCEPT !.phase = "notify", !.record = Committed(o)]
  PROVE  /\ StoreInv' /\ Refines
         /\ IsActive(rec) /\ (op[o].kind \in Enders => ~IsActive(rec'))
         /\ op[o].kind = "interrupt" => rec'.status = "failed" /\ rec'.inputs = rec.inputs
<1>1. /\ SoundRecord(rec) /\ created /\ op[o] \in Operation /\ Computes(op[o])
      /\ Allowed(op[o], rec) /\ op[o].record = Patched(op[o], rec)
      /\ rec \in Records /\ rec.revision \in Nat
  BY DEF StoreInv, SoundOp, Quiet, Writing, Notifying, Records
<1>2. rec' = [Patched(op[o], rec) EXCEPT !.revision = @ + 1]
  BY <1>1 DEF Committed
<1>3. /\ SoundRecord(rec') /\ rec'.revision = rec.revision + 1
      /\ IsActive(rec) /\ Moves(rec, rec')
      /\ op[o].kind \in Enders => ~IsActive(rec')
  BY <1>1, <1>2, PatchMoves, ManagerAssumption
<1>4. rec' \in Records /\ rec' # NoRecord
  BY <1>3, Inputs DEF SoundRecord
<1>5. Refines
  BY <1>1, <1>3, <1>4, MovesRefine
<1>6. ASSUME NEW p \in Ops \ {o}
      PROVE  SoundOp(op'[p], rec')
  <2>1. op'[p] = op[p] /\ SoundOp(op[p], rec)
    BY DEF StoreInv
  <2>2. CASE Quiet(op[p])
    BY <2>1, <2>2 DEF SoundOp
  <2>3. CASE Writing(op[p], rec)
    <3>1. op[p].record.revision <= rec.revision /\ op[p].record.revision \in Nat
      BY <2>3 DEF Writing, Records
    <3>2. op[p].record.revision <= rec'.revision /\ op[p].record.revision # rec'.revision
      BY <1>1, <1>3, <3>1
    <3> QED BY <2>1, <2>3, <3>2 DEF SoundOp, Writing
  <2>4. CASE Notifying(op[p], rec)
    BY <1>3, <2>1, <2>4 DEF SoundOp, Notifying
  <2> QED BY <2>1, <2>2, <2>3, <2>4 DEF SoundOp
<1>7. SoundOp(op'[o], rec')
  <2>1. CASE Quiet(op'[o])
    BY <2>1 DEF SoundOp
  <2>2. CASE op'[o] = [op[o] EXCEPT !.phase = "notify", !.record = Committed(o)]
    <3>1. op'[o].phase = "notify" /\ op'[o].kind = op[o].kind /\ op'[o].record = rec'
          /\ op'[o] \in Operation
      BY <1>1, <2>2 DEF Operation
    <3> QED BY <1>1, <1>3, <1>4, <3>1 DEF SoundOp, Notifying, Computes
  <2> QED BY <2>1, <2>2
<1>8. StoreInv'
  BY <1>1, <1>3, <1>4, <1>6, <1>7 DEF StoreInv
<1>9. op[o].kind = "interrupt" => rec'.status = "failed" /\ rec'.inputs = rec.inputs
  <2>1. op[o].kind = "interrupt" => Patched(op[o], rec) = [rec EXCEPT !.status = "failed"]
    BY DEF Patched, StatusFor
  <2> QED BY <1>1, <1>2, <2>1 DEF Records
<1> QED BY <1>3, <1>5, <1>8, <1>9

-----------------------------------------------------------------------------
(* Steps that share their effect on the work and on recovery. *)

ScheduleInv == Unborn /\ WorkInv /\ RecoveryInv

\* The slot goes on with its operation, or is free.
Follows(o) == op'[o].phase = "idle" \/ (op[o].phase # "idle" /\ op'[o].kind = op[o].kind)

\* The slot begins an operation any visible or running task allows.
Ordinary(o) ==
    /\ created /\ ~hidden
    /\ op'[o].kind \notin Settles \cup {"interrupt"}

\* A step of operations only.
LEMMA Quietly ==
  ASSUME ScheduleInv, UNCHANGED <<created, creating, worker, attempts, ctl, bootVars, disposed>>,
         IsActive(rec)' => IsActive(rec), expiring' => created,
         \A o \in Ops : Follows(o) \/ Ordinary(o)
  PROVE  ScheduleInv'
<1>1. \A o \in Ops : /\ Busy(op'[o], Settles) => Busy(op[o], Settles)
                     /\ Busy(op'[o], {"interrupt"}) => Busy(op[o], {"interrupt"})
                     /\ ~created => op'[o].phase = "idle" \/ op[o].phase # "idle"
                     /\ hidden /\ op'[o].phase # "idle" => op[o].phase # "idle" /\ op'[o].kind = op[o].kind
  BY DEF Follows, Ordinary, Busy
<1>2. Unborn'
  BY <1>1 DEF ScheduleInv, Unborn, bootVars
<1>3. WorkInv'
  BY <1>1 DEF ScheduleInv, WorkInv, bootVars
<1>4. RecoveryInv'
  BY <1>1 DEF ScheduleInv, RecoveryInv, bootVars
<1> QED BY <1>2, <1>3, <1>4 DEF ScheduleInv

\* The end of an operation: what it leaves of the work and of recovery.
LEMMA Finishes ==
  ASSUME ScheduleInv, created, UNCHANGED <<created, creating, attempts, disposed, expiring>>,
         IsActive(rec)' => IsActive(rec),
         NEW o \in Ops, op \in [Ops -> Operation], op[o].phase # "idle",
         NEW ops, Excused(op, ops), NEW c, c = "aborted" => ~IsActive(rec)' \/ disposed,
         Finish(o, ops, c),
         op[o].kind \in Settles => ~IsActive(rec)' \/ disposed \/ attempts = SettleAttempts,
         op[o].kind = "interrupt" => ~IsActive(rec)'
  PROVE  ScheduleInv'
<1>1. /\ op'[o].phase = "idle"
      /\ \A p \in Ops \ {o} : op'[p] = op[p] \/ op'[p].phase = "idle"
  BY Finished DEF Excused
<1>2. \A p \in Ops : /\ Busy(op'[p], Settles) => Busy(op[p], Settles) /\ p # o
                     /\ Busy(op'[p], {"interrupt"}) => Busy(op[p], {"interrupt"}) /\ p # o
                     /\ op'[p].phase # "idle" => op[p].phase # "idle" /\ op'[p].kind = op[p].kind
  BY <1>1 DEF Busy
<1> HIDE DEF Busy
<1>3. Unborn'
  BY DEF Unborn
<1>4. CASE op[o].kind \in Settles
  <2>1. /\ worker = "settling" /\ worker' = "ended" /\ UNCHANGED bootVars
        /\ ctl' = "aborted" => c = "aborted"
        /\ \A p \in Ops : ~Busy(op'[p], Settles)
    BY <1>2, <1>4 DEF Finish, CtlReleased, Settles, ScheduleInv, WorkInv, Busy
  <2>2. WorkInv'
    BY <1>4, <2>1 DEF ScheduleInv, WorkInv
  <2>3. RecoveryInv'
    BY <1>2, <2>1 DEF ScheduleInv, RecoveryInv, bootVars
  <2> QED BY <1>3, <2>2, <2>3 DEF ScheduleInv
<1>5. CASE op[o].kind = "interrupt"
  <2>1. /\ worker' = worker /\ ctl' = c /\ ~hidden' /\ ready' /\ ~recovering'
        /\ hidden' \in BOOLEAN /\ ready' \in BOOLEAN /\ recovering' \in BOOLEAN
        /\ recoverer' = [x \in Recoverers |->
                            IF recoverer[x] = "interrupting" THEN "idle" ELSE recoverer[x]]
    BY <1>5 DEF Finish, Settles
  <2>2. \A x \in Recoverers : recoverer[x] \in {"idle", "interrupting"}
    BY <1>5 DEF ScheduleInv, RecoveryInv, Busy
  <2>3. \A x \in Recoverers : recoverer'[x] = "idle"
    BY <2>1, <2>2
  <2>4. \A p \in Ops : ~Busy(op'[p], {"interrupt"})
    BY <1>2, <1>5 DEF ScheduleInv, RecoveryInv, Busy
  <2>5. WorkInv'
    BY <1>2, <1>5, <2>1 DEF ScheduleInv, WorkInv
  <2>6. RecoveryInv'
    BY <2>1, <2>3, <2>4 DEF ScheduleInv, RecoveryInv
  <2> QED BY <1>3, <2>5, <2>6 DEF ScheduleInv
<1>6. CASE op[o].kind \notin Settles \cup {"interrupt"}
  <2>1. worker' = worker /\ ctl' = c /\ UNCHANGED bootVars
    BY <1>6 DEF Finish
  <2>2. WorkInv'
    BY <1>2, <2>1 DEF ScheduleInv, WorkInv, bootVars
  <2>3. RecoveryInv'
    BY <1>2, <2>1 DEF ScheduleInv, RecoveryInv, bootVars
  <2> QED BY <1>3, <2>2, <2>3 DEF ScheduleInv
<1> QED BY <1>4, <1>5, <1>6

-----------------------------------------------------------------------------
(* The operations. *)

Sound == StoreInv /\ ScheduleInv

Exclusive ==
    /\ hidden /\ rec' # rec =>
          rec' = NoRecord \/ (rec'.status = "failed" /\ rec'.inputs = rec.inputs)
    /\ worker' = "running" /\ worker # "running" => worker = "none"

\* What every step does.
Kept == Sound' /\ Refines /\ Exclusive

LEMMA Typed ==
  ASSUME Sound
  PROVE  /\ op \in [Ops -> Operation] /\ rec \in Records \cup {NoRecord}
         /\ worker = "running" \/ rec # NoRecord => created
         /\ \A o \in Ops : op[o].phase # "idle" => created
         /\ ~hidden \/ worker = "none"
         /\ \A o \in Ops : Waits(op[o]) => op[o].kind = "ask"
BY DEF Sound, StoreInv, ScheduleInv, Unborn, RecoveryInv, SoundOp, Quiet, Writing, Notifying, Waits

\* A step of operations that writes nothing.
LEMMA Still ==
  ASSUME Sound, UNCHANGED <<rec, created, creating, worker, attempts, ctl, bootVars, disposed, expiring>>,
         op' \in [Ops -> Operation],
         \A o \in Ops : op'[o] = op[o] \/ Quiet(op'[o]) \/ Writing(op'[o], rec),
         \A o \in Ops : Follows(o) \/ Ordinary(o)
  PROVE  Kept
<1>1. StoreInv' /\ Refines
  BY Unwritten DEF Sound, StoreInv
<1>2. expiring' => created
  BY DEF Sound, ScheduleInv, Unborn
<1>3. ScheduleInv'
  BY <1>2, Quietly DEF Sound, IsActive
<1> QED BY <1>1, <1>3 DEF Kept, Sound, Exclusive

\* The ways to begin an operation of a visible task or of its running work.
LEMMA BeginKeeps ==
  ASSUME Sound, NEW o \in Ops, Free(o), NEW x \in Operation, Computes(x),
         x.kind \notin Settles \cup {"interrupt"}, Begin(o, x),
         Visible \/ worker = "running",
         UNCHANGED <<rec, created, creating, worker, attempts, ctl, bootVars, disposed, expiring>>
  PROVE  Kept
<1>1. /\ op' \in [Ops -> Operation]
      /\ op'[o].phase = "read" /\ op'[o].kind = x.kind /\ Quiet(op'[o])
      /\ \A p \in Ops \ {o} : op'[p] = op[p]
  BY Typed, Begun
<1>2. created /\ ~hidden
  BY Typed DEF Visible
<1>3. \A p \in Ops : Follows(p) \/ Ordinary(p)
  BY <1>1, <1>2 DEF Follows, Ordinary
<1> QED BY <1>1, <1>3, Still

LEMMA StartKeeps ==
  ASSUME Sound, NEW o \in Ops,
         \/ \E given \in Given : BeginAnswer(o, given)
         \/ BeginCancel(o)
         \/ \E p \in Payloads : BeginAsk(o, p)
         \/ BeginTouch(o)
         \/ BeginCancelFromHandle(o)
  PROVE  Kept
<1>1. ASSUME NEW given \in Given, BeginAnswer(o, given) PROVE Kept
  <2> DEFINE x == [Idle EXCEPT !.kind = "answer", !.given = given]
  <2>1. x \in Operation /\ Computes(x) /\ x.kind \notin Settles \cup {"interrupt"}
    BY IdleOperation DEF Operation, Idle, Kinds, Given, Computes, Settles
  <2>2. Free(o) /\ Visible /\ Begin(o, x)
        /\ UNCHANGED <<rec, created, creating, worker, attempts, ctl, bootVars, disposed, expiring>>
    BY <1>1 DEF BeginAnswer, expiryVars
  <2> QED BY <2>1, <2>2, BeginKeeps
<1>2. CASE BeginCancel(o)
  <2> DEFINE x == [Idle EXCEPT !.kind = "cancel"]
  <2>1. x \in Operation /\ Computes(x) /\ x.kind \notin Settles \cup {"interrupt"}
    BY IdleOperation DEF Operation, Idle, Kinds, Computes, Settles
  <2>2. Free(o) /\ Visible /\ Begin(o, x)
        /\ UNCHANGED <<rec, created, creating, worker, attempts, ctl, bootVars, disposed, expiring>>
    BY <1>2 DEF BeginCancel, expiryVars
  <2> QED BY <2>1, <2>2, BeginKeeps
<1>3. ASSUME NEW p \in Payloads, BeginAsk(o, p) PROVE Kept
  <2> DEFINE x == [Idle EXCEPT !.kind = "ask", !.payload = p]
  <2>1. x \in Operation /\ Computes(x) /\ x.kind \notin Settles \cup {"interrupt"}
    BY IdleOperation DEF Operation, Idle, Kinds, Computes, Settles
  <2>2. Free(o) /\ worker = "running" /\ Begin(o, x)
        /\ UNCHANGED <<rec, created, creating, worker, attempts, ctl, bootVars, disposed, expiring>>
    BY <1>3 DEF BeginAsk, expiryVars
  <2> QED BY <2>1, <2>2, BeginKeeps
<1>4. CASE BeginTouch(o)
  <2> DEFINE x == [Idle EXCEPT !.kind = "touch"]
  <2>1. x \in Operation /\ Computes(x) /\ x.kind \notin Settles \cup {"interrupt"}
    BY IdleOperation DEF Operation, Idle, Kinds, Computes, Settles
  <2>2. Free(o) /\ worker = "running" /\ Begin(o, x)
        /\ UNCHANGED <<rec, created, creating, worker, attempts, ctl, bootVars, disposed, expiring>>
    BY <1>4 DEF BeginTouch, expiryVars
  <2> QED BY <2>1, <2>2, BeginKeeps
<1>5. CASE BeginCancelFromHandle(o)
  <2> DEFINE x == [Idle EXCEPT !.kind = "cancelFromHandle"]
  <2>1. x \in Operation /\ Computes(x) /\ x.kind \notin Settles \cup {"interrupt"}
    BY IdleOperation DEF Operation, Idle, Kinds, Computes, Settles
  <2>2. Free(o) /\ worker = "running" /\ Begin(o, x)
        /\ UNCHANGED <<rec, created, creating, worker, attempts, ctl, bootVars, disposed, expiring>>
    BY <1>5 DEF BeginCancelFromHandle, expiryVars
  <2> QED BY <2>1, <2>2, BeginKeeps
<1> QED BY <1>1, <1>2, <1>3, <1>4, <1>5

LEMMA WorkEndsKeeps ==
  ASSUME Sound, NEW o \in Ops, NEW how \in Settles, WorkEnds(o, how)
  PROVE  Kept
<1>1. created /\ ~hidden /\ worker = "running"
  BY Typed DEF WorkEnds
<1>2. /\ UNCHANGED <<rec, created, creating, bootVars, disposed, expiring, expired>>
      /\ ctl' = "aborted" => ctl = "aborted"
      /\ worker' \in {"ended", "settling"}
  BY DEF WorkEnds, expiryVars, CtlReleased
<1>3. \A p \in Ops : ~Busy(op[p], Settles)
  BY <1>1 DEF Sound, ScheduleInv, WorkInv
<1>4. CASE ctl = "aborted" \/ disposed
  <2>1. worker' = "ended" /\ op' = op /\ attempts' = attempts
    BY <1>4 DEF WorkEnds
  <2>2. StoreInv' /\ Refines
    BY <1>2, <2>1, Typed, Unwritten DEF Sound, StoreInv
  <2>3. Unborn' /\ RecoveryInv'
    BY <1>1, <1>2, <2>1 DEF Sound, ScheduleInv, Unborn, RecoveryInv, bootVars
  <2>4. WorkInv'
    BY <1>2, <1>3, <1>4, <2>1 DEF Sound, ScheduleInv, WorkInv, bootVars, IsActive
  <2> QED BY <1>1, <1>2, <2>1, <2>2, <2>3, <2>4 DEF Kept, Sound, ScheduleInv, Exclusive
<1>5. CASE ~(ctl = "aborted" \/ disposed)
  <2> DEFINE x == [Idle EXCEPT !.kind = how]
  <2>1. worker' = "settling" /\ attempts' = 1 /\ Begin(o, x) /\ Free(o)
    BY <1>5 DEF WorkEnds
  <2>2. x \in Operation /\ Computes(x) /\ x.kind = how
    BY IdleOperation DEF Operation, Idle, Kinds, Computes, Settles
  <2>3. /\ op' \in [Ops -> Operation]
        /\ op'[o].phase = "read" /\ op'[o].kind = how /\ Quiet(op'[o])
        /\ \A p \in Ops \ {o} : op'[p] = op[p]
    BY <2>1, <2>2, Typed, Begun
  <2>4. StoreInv' /\ Refines
    BY <1>2, <2>3, Unwritten DEF Sound, StoreInv
  <2>5. \A p \in Ops : /\ Busy(op'[p], Settles) => p = o
                       /\ Busy(op'[p], {"interrupt"}) => Busy(op[p], {"interrupt"})
    BY <1>3, <2>3 DEF Busy, Settles
  <2>6. Unborn' /\ RecoveryInv'
    BY <1>1, <1>2, <2>1, <2>5 DEF Sound, ScheduleInv, Unborn, RecoveryInv, bootVars
  <2>7. 1 \in 0..SettleAttempts
    BY ManagerAssumption DEF ManagerAssumption
  <2>8. WorkInv'
    BY <1>2, <2>1, <2>5, <2>7 DEF Sound, ScheduleInv, WorkInv, bootVars, IsActive
  <2> QED BY <1>1, <1>2, <2>1, <2>4, <2>6, <2>8 DEF Kept, Sound, ScheduleInv, Exclusive
<1> QED BY <1>4, <1>5

LEMMA AbortAskKeeps ==
  ASSUME Sound, NEW o \in Ops, NEW w \in Ops \ {o}, AbortAsk(o, w)
  PROVE  Kept
<1> DEFINE x == [Idle EXCEPT !.kind = "withdraw", !.phase = "read", !.id = op[o].id]
           y == [op[o] EXCEPT !.signalled = TRUE]
           z == IF disposed THEN op[w] ELSE x
<1>1. /\ op[o] \in Operation /\ Waits(op[o]) /\ op[o].kind = "ask" /\ created
      /\ op \in [Ops -> Operation]
  BY Typed DEF AbortAsk, Waiting, Waits
<1>2. x \in Operation /\ y \in Operation /\ x.phase = "read" /\ x.kind = "withdraw"
      /\ y.phase = op[o].phase /\ y.kind = "ask"
  BY <1>1, IdleOperation DEF Operation, Idle, Kinds
<1>3. op' = [op EXCEPT ![o] = y, ![w] = z]
  BY DEF AbortAsk
<1>4. ~hidden
  BY <1>1 DEF Sound, ScheduleInv, RecoveryInv, Waits
<1>10. z \in Operation /\ (z = op[w] \/ z = x)
  BY <1>1, <1>2
<1> HIDE DEF x, y, z
<1>5. /\ op' \in [Ops -> Operation] /\ op'[o] = y /\ op'[w] = z
      /\ \A p \in Ops \ {o, w} : op'[p] = op[p]
  BY <1>1, <1>2, <1>3, <1>10
<1>6. Quiet(x) /\ Quiet(y)
  BY <1>1, <1>2 DEF Quiet, Computes, Kinds, Waits
<1>7. \A p \in Ops : Follows(p) \/ Ordinary(p)
  BY <1>1, <1>2, <1>4, <1>5, <1>10 DEF Follows, Ordinary, Settles, Waits
<1>8. \A p \in Ops : op'[p] = op[p] \/ Quiet(op'[p])
  BY <1>5, <1>6, <1>10
<1>9. UNCHANGED <<rec, created, creating, worker, attempts, ctl, bootVars, disposed, expiring>>
  BY DEF AbortAsk, expiryVars
<1> QED BY <1>5, <1>7, <1>8, <1>9, Still

-----------------------------------------------------------------------------
(* The steps of an operation under way. *)

\* An operation that ends without having written: the record is gone or has ended, as
\* far as the work and recovery depend on it.
LEMMA FinishKeeps ==
  ASSUME Sound, NEW o \in Ops, op[o].phase # "idle", NEW ops, Excused(op, ops),
         NEW c, c = "aborted" => ~IsActive(rec) \/ disposed,
         Finish(o, ops, c),
         UNCHANGED <<rec, created, creating, attempts, disposed, expiring>>,
         op[o].kind \in Settles => ~IsActive(rec) \/ disposed \/ attempts = SettleAttempts,
         op[o].kind = "interrupt" => ~IsActive(rec)
  PROVE  Kept
<1>1. /\ op' \in [Ops -> Operation] /\ op'[o].phase = "idle"
      /\ \A p \in Ops \ {o} : op'[p] = ops[p]
  BY Typed, Finished
<1>2. \A p \in Ops : op'[p] = op[p] \/ Quiet(op'[p])
  BY <1>1 DEF Excused, Quiet
<1>3. StoreInv' /\ Refines
  BY <1>1, <1>2, Unwritten DEF Sound, StoreInv
<1>4. ScheduleInv'
  BY Typed, Finishes DEF Sound, IsActive
<1>5. worker' = "running" => worker = "running"
  BY DEF Finish
<1> QED BY <1>3, <1>4, <1>5 DEF Kept, Sound, Exclusive

LEMMA ExcusedSame ==
  ASSUME Sound PROVE Excused(op, op)
BY Typed DEF Excused

LEMMA AbortedEnded ==
  ASSUME Sound PROVE ctl = "aborted" => ~IsActive(rec) \/ disposed
BY DEF Sound, ScheduleInv, WorkInv

LEMMA ReadKeeps ==
  ASSUME Sound, NEW o \in Ops, Read(o)
  PROVE  Kept
<1> DEFINE x == op[o]
<1>1. /\ x \in Operation /\ x.phase = "read" /\ Computes(x)
      /\ UNCHANGED <<rec, created, creating, attempts, disposed, expiring>>
      /\ op \in [Ops -> Operation]
  BY Typed DEF Read, Sound, StoreInv, SoundOp, Quiet, Writing, Notifying, expiryVars
<1>2. CASE rec # NoRecord /\ Wanted(x, rec)
  <2> DEFINE y == [x EXCEPT !.phase = "write", !.record = Patched(x, rec)]
  <2>1. op' = [op EXCEPT ![o].phase = "write", ![o].record = Patched(op[o], rec)]
        /\ UNCHANGED <<worker, ctl, bootVars>>
    BY <1>2 DEF Read
  <2>2. op'[o] = y /\ \A p \in Ops \ {o} : op'[p] = op[p]
    BY <1>1, <2>1
  <2>3. SoundRecord(rec) /\ rec \in Records /\ rec.revision \in Nat
    BY <1>2 DEF Sound, StoreInv, SoundRecord, Records
  <2>4. Allowed(x, rec) /\ Patched(x, rec) \in Records /\ Patched(x, rec).revision = rec.revision
    <3>1. Allowed(x, rec)
      BY <1>1, <1>2, WantedAllowed
    <3> QED BY <1>1, <2>3, <3>1, PatchMoves, ManagerAssumption
  <2>5. /\ y \in Operation /\ y.phase = "write" /\ y.kind = x.kind /\ y.record = Patched(x, rec)
        /\ y.payload = x.payload /\ y.given = x.given
    BY <1>1, <2>4 DEF Operation
  <2>6. op' \in [Ops -> Operation]
    BY <1>1, <2>1, <2>5
  <2>7. Patched(y, rec) = Patched(x, rec)
    BY <2>5 DEF Patched, StatusFor
  <2>8. Writing(y, rec)
    BY <1>1, <2>3, <2>4, <2>5, <2>7 DEF Writing, Computes, Allowed
  <2>9. \A p \in Ops : Follows(p)
    BY <1>1, <2>2, <2>5 DEF Follows
  <2> HIDE DEF y
  <2> QED BY <1>1, <2>1, <2>2, <2>6, <2>8, <2>9, Still
<1>3. CASE ~(rec # NoRecord /\ Wanted(x, rec))
           /\ rec # NoRecord /\ x.kind = "ask" /\ ~IsTerminal(rec) /\ ctl # "aborted"
           /\ Same(rec, x.payload) # {}
  <2>1. PICK i \in Same(rec, x.payload) : op' = [op EXCEPT ![o] = StartsWaiting(x, i)]
    BY <1>3 DEF Read
  <2>2. UNCHANGED <<worker, ctl, bootVars>>
    BY <1>3 DEF Read
  <2>3. i \in Nat
    BY <1>3, Inputs DEF Same, Sound, StoreInv, SoundRecord
  <2>4. /\ StartsWaiting(x, i) \in Operation /\ Quiet(StartsWaiting(x, i))
        /\ \/ StartsWaiting(x, i).phase = "idle"
           \/ StartsWaiting(x, i).phase = "waitRead" /\ StartsWaiting(x, i).kind = "ask"
    BY <1>1, <1>3, <2>3, Started
  <2> HIDE DEF x
  <2>5. /\ op'[o] = StartsWaiting(x, i) /\ op' \in [Ops -> Operation]
        /\ \A p \in Ops \ {o} : op'[p] = op[p]
    BY <1>1, <2>1, <2>4
  <2> USE DEF x
  <2>6. \A p \in Ops : Follows(p)
    BY <1>1, <1>3, <2>4, <2>5 DEF Follows
  <2> QED BY <1>1, <2>2, <2>4, <2>5, <2>6, Still
<1>4. CASE ~(rec # NoRecord /\ Wanted(x, rec))
           /\ ~(rec # NoRecord /\ x.kind = "ask" /\ ~IsTerminal(rec) /\ ctl # "aborted"
                /\ Same(rec, x.payload) # {})
  <2>1. Finish(o, op, ctl)
    BY <1>4 DEF Read
  <2>2. /\ op[o].kind \in Settles => ~IsActive(rec)
        /\ op[o].kind = "interrupt" => ~IsActive(rec)
    BY <1>4, WantedOfTheWork DEF IsActive, IsTerminal
  <2>3. Excused(op, op) /\ (ctl = "aborted" => ~IsActive(rec) \/ disposed)
    BY ExcusedSame, AbortedEnded
  <2>4. op[o].phase # "idle"
    BY <1>1
  <2> QED BY <1>1, <2>1, <2>2, <2>3, <2>4, FinishKeeps
<1> QED BY <1>2, <1>3, <1>4

\* The next attempt of an operation that read a stale record or met an error.
Again(o) == op' = [op EXCEPT ![o].phase = "read", ![o].record = NoRecord]

LEMMA AgainReads ==
  ASSUME Sound, NEW o \in Ops, op[o].phase \in {"read", "write"}, Again(o)
  PROVE  /\ op' \in [Ops -> Operation] /\ Quiet(op'[o]) /\ op'[o].phase = "read"
         /\ op'[o].kind = op[o].kind
         /\ \A p \in Ops \ {o} : op'[p] = op[p]
         /\ \A p \in Ops : Follows(p)
<1>1. op \in [Ops -> Operation] /\ op[o] \in Operation /\ Computes(op[o])
  BY Typed DEF Sound, StoreInv, SoundOp, Quiet, Writing, Notifying
<1>2. /\ op'[o] = [op[o] EXCEPT !.phase = "read", !.record = NoRecord]
      /\ op'[o] \in Operation /\ op' \in [Ops -> Operation]
      /\ \A p \in Ops \ {o} : op'[p] = op[p]
  BY <1>1 DEF Again, Operation
<1>3. op'[o].phase = "read" /\ op'[o].kind = op[o].kind /\ op'[o].payload = op[o].payload
      /\ op'[o].given = op[o].given
  BY <1>1, <1>2 DEF Operation
<1> QED BY <1>1, <1>2, <1>3 DEF Quiet, Computes, Follows

\* A committed write keeps everything, once its slot has gone on or been freed.
LEMMA CommitKeeps ==
  ASSUME Sound, NEW o \in Ops, op[o].phase = "write", rec # NoRecord,
         rec.revision = op[o].record.revision, rec' = Committed(o),
         UNCHANGED <<created, expiring>>, op' \in [Ops -> Operation],
         \A p \in Ops \ {o} : op'[p] = op[p],
         Quiet(op'[o]) \/ op'[o] = [op[o] EXCEPT !.phase = "notify", !.record = Committed(o)],
         worker' = "running" => worker = "running"
  PROVE  /\ StoreInv' /\ Refines /\ Exclusive
         /\ IsActive(rec) /\ (op[o].kind \in Enders => ~IsActive(rec)')
<1>1. /\ StoreInv' /\ Refines
      /\ IsActive(rec) /\ (op[o].kind \in Enders => ~IsActive(rec'))
      /\ op[o].kind = "interrupt" => rec'.status = "failed" /\ rec'.inputs = rec.inputs
  BY Written DEF Sound
<1>2. hidden => op[o].kind = "interrupt"
  BY DEF Sound, ScheduleInv, RecoveryInv
<1> QED BY <1>1, <1>2 DEF Exclusive

LEMMA WriteKeeps ==
  ASSUME Sound, NEW o \in Ops, Write(o)
  PROVE  Kept
<1>1. /\ op[o].phase = "write" /\ op[o] \in Operation /\ op \in [Ops -> Operation]
      /\ op[o].record \in Records
      /\ UNCHANGED <<created, creating, attempts, disposed, expiring>>
  BY Typed DEF Write, Sound, StoreInv, SoundOp, Quiet, Writing, Notifying, expiryVars
<1>2. CASE rec = NoRecord
  <2>1. Finish(o, op, ctl) /\ rec' = rec
    BY <1>2 DEF Write
  <2> QED BY <1>1, <1>2, <2>1, ExcusedSame, AbortedEnded, FinishKeeps DEF IsActive
<1>3. CASE rec # NoRecord /\ rec.revision = op[o].record.revision
  <2>1. /\ rec' = Committed(o) /\ UNCHANGED <<worker, ctl, bootVars>>
        /\ op' = [op EXCEPT ![o].phase = "notify", ![o].record = Committed(o)]
    BY <1>3 DEF Write
  <2>2. Committed(o) \in Records
    BY <1>1, Stamped DEF Committed
  <2>3. /\ op'[o] = [op[o] EXCEPT !.phase = "notify", !.record = Committed(o)]
        /\ op' \in [Ops -> Operation] /\ \A p \in Ops \ {o} : op'[p] = op[p]
        /\ op'[o].phase = "notify" /\ op'[o].kind = op[o].kind
    BY <1>1, <2>1, <2>2 DEF Operation
  <2>4. StoreInv' /\ Refines /\ Exclusive /\ IsActive(rec)
    <3>1. worker' = "running" => worker = "running"
      BY <2>1
    <3>2. rec' = Committed(o) /\ UNCHANGED <<created, expiring>>
      BY <1>1, <2>1
    <3> QED BY <1>1, <1>3, <2>3, <3>1, <3>2, CommitKeeps
  <2>5. \A p \in Ops : Follows(p)
    BY <1>1, <2>3 DEF Follows
  <2>6. ScheduleInv'
    BY <1>1, <2>1, <2>4, <2>5, Quietly DEF Sound, ScheduleInv, Unborn
  <2> QED BY <2>4, <2>6 DEF Kept, Sound
<1>4. CASE rec # NoRecord /\ rec.revision # op[o].record.revision
  <2>1. Again(o) /\ rec' = rec /\ UNCHANGED <<worker, ctl, bootVars>>
    BY <1>4 DEF Write, Again
  <2> QED BY <1>1, <2>1, AgainReads, Still
<1> QED BY <1>2, <1>3, <1>4

LEMMA NotifyKeeps ==
  ASSUME Sound, NEW o \in Ops, Notify(o)
  PROVE  Kept
<1> DEFINE c   == IF Cancels(op[o]) THEN CtlAborted ELSE ctl
           ops == Told(IF Cancels(op[o]) THEN AbortedIfLive(op) ELSE op, op[o].record)
<1>1. /\ op[o].phase = "notify" /\ op[o] \in Operation /\ op \in [Ops -> Operation]
      /\ op[o].record \in Records
      /\ op[o].kind \in Enders => ~IsActive(rec)
      /\ UNCHANGED <<rec, created, creating, attempts, disposed, expiring>>
  BY Typed DEF Notify, Sound, StoreInv, SoundOp, Quiet, Writing, Notifying, expiryVars
<1>2. Excused(op, ops)
  <2>1. /\ Excused(op, AbortedIfLive(op)) /\ Excused(op, op)
        /\ AbortedIfLive(op) \in [Ops -> Operation]
    BY <1>1, AbortedExcused, ExcusedSame DEF Excused
  <2>2. /\ Excused(AbortedIfLive(op), Told(AbortedIfLive(op), op[o].record))
        /\ Excused(op, Told(op, op[o].record))
    BY <1>1, <2>1, ToldExcused
  <2>3. Excused(op, Told(AbortedIfLive(op), op[o].record))
    BY <2>1, <2>2, ExcusedTwice
  <2> QED BY <2>2, <2>3
<1>3. c = "aborted" => ~IsActive(rec) \/ disposed
  BY <1>1, AbortedEnded DEF Cancels, Enders
<1>4. CASE op[o].kind = "ask" /\ ctl # "aborted"
  <2> DEFINE y == StartsWaiting(op[o], Len(op[o].record.inputs))
  <2>1. op' = [ops EXCEPT ![o] = y] /\ UNCHANGED <<worker, ctl, bootVars>>
    BY <1>4 DEF Notify
  <2>2. ops \in [Ops -> Operation] /\ Len(op[o].record.inputs) \in Nat
    BY <1>1, <1>2, Inputs DEF Excused
  <2>3. y \in Operation /\ Quiet(y) /\ (y.phase = "idle" \/ (y.phase = "waitRead" /\ y.kind = "ask"))
    BY <1>1, <1>4, <2>2, Started
  <2> HIDE DEF ops, y
  <2>4. op'[o] = y /\ op' \in [Ops -> Operation] /\ \A p \in Ops \ {o} : op'[p] = ops[p]
    BY <2>1, <2>2, <2>3
  <2>5. \A p \in Ops : op'[p] = op[p] \/ Quiet(op'[p])
    BY <1>2, <2>3, <2>4 DEF Excused, Quiet
  <2>6. \A p \in Ops : Follows(p)
    BY <1>1, <1>2, <1>4, <2>3, <2>4 DEF Follows, Excused
  <2> QED BY <1>1, <2>1, <2>4, <2>5, <2>6, Still
<1>5. CASE ~(op[o].kind = "ask" /\ ctl # "aborted")
  <2>1. Finish(o, ops, c)
    BY <1>5 DEF Notify
  <2>2. op[o].kind \in Settles \cup {"interrupt"} => ~IsActive(rec)
    BY <1>1 DEF Settles, Enders
  <2> HIDE DEF ops, c
  <2> QED BY <1>1, <1>2, <1>3, <2>1, <2>2, FinishKeeps
<1> QED BY <1>4, <1>5

\* The step of a requestInput that waits.
LEMMA WaitGoesOn ==
  ASSUME Sound, NEW o \in Ops, Waits(op[o]), NEW y \in Operation,
         y.phase = "idle" \/ (Waits(y) /\ y.kind = "ask"),
         op' = [op EXCEPT ![o] = y],
         UNCHANGED <<rec, created, creating, worker, attempts, ctl, bootVars, disposed, expiring>>
  PROVE  Kept
<1>1. op \in [Ops -> Operation] /\ op[o].kind = "ask"
  BY Typed
<1>2. op'[o] = y /\ op' \in [Ops -> Operation] /\ \A p \in Ops \ {o} : op'[p] = op[p]
  BY <1>1
<1>3. Quiet(y)
  BY DEF Quiet, Waits
<1>4. \A p \in Ops : Follows(p)
  BY <1>1, <1>2 DEF Follows, Waits
<1> QED BY <1>2, <1>3, <1>4, Still

LEMMA WaiterKeeps ==
  ASSUME Sound, NEW o \in Ops, WaiterReads(o) \/ WaiterReadFails(o) \/ WaiterRetries(o)
  PROVE  Kept
<1>1. /\ op[o] \in Operation /\ Waits(op[o])
      /\ UNCHANGED <<rec, created, creating, worker, attempts, ctl, bootVars, disposed, expiring>>
  BY Typed DEF WaiterReads, WaiterReadFails, WaiterRetries, Waits, expiryVars
<1>2. op[o].kind = "ask" /\ op[o].id \in Nat
  BY <1>1, Typed DEF Operation
<1> DEFINE w == [op[o] EXCEPT !.phase = "wait"]
           z == [op[o] EXCEPT !.phase = "waitSleep"]
           r == StartsWaiting(op[o], op[o].id)
<1>3. /\ \A y \in {w, z} : y \in Operation /\ Waits(y) /\ y.kind = "ask"
      /\ Idle \in Operation /\ Idle.phase = "idle"
  BY <1>1, <1>2, IdleOperation DEF Operation, Waits, Idle
<1>4. r \in Operation /\ (r.phase = "idle" \/ (Waits(r) /\ r.kind = "ask"))
  BY <1>1, <1>2, Started DEF Waits
<1>5. \E y \in {w, z, r, Idle} : op' = [op EXCEPT ![o] = y]
  BY DEF WaiterReads, WaiterReadFails, WaiterRetries
<1> HIDE DEF w, z, r
<1> QED BY <1>1, <1>3, <1>4, <1>5, WaitGoesOn

\* The store rejects the write that would fail an interrupted task: the task stays hidden.
LEMMA InterruptFails ==
  ASSUME Sound, NEW o \in Ops, op[o].phase # "idle", op[o].kind = "interrupt",
         op' = [op EXCEPT ![o] = InterruptOver], recovering' = FALSE,
         recoverer' = [x \in Recoverers |->
                         IF recoverer[x] = "interrupting" THEN "idle" ELSE recoverer[x]],
         UNCHANGED <<created, creating, worker, attempts, ctl, ready, hidden, disposed, expiring>>,
         IsActive(rec)' => IsActive(rec)
  PROVE  /\ ScheduleInv' /\ op' \in [Ops -> Operation] /\ Quiet(op'[o])
         /\ \A p \in Ops \ {o} : op'[p] = op[p]
<1>1. /\ op' \in [Ops -> Operation] /\ op'[o].phase = "idle"
      /\ \A p \in Ops \ {o} : op'[p] = op[p]
  BY Typed, OverOperation
<1>2. \A x \in Recoverers : recoverer[x] \in {"idle", "interrupting"}
  BY DEF Sound, ScheduleInv, RecoveryInv, Busy
<1>3. \A x \in Recoverers : recoverer'[x] = "idle"
  BY <1>2
<1>4. \A p \in Ops : /\ Busy(op'[p], Settles) => Busy(op[p], Settles)
                     /\ ~Busy(op'[p], {"interrupt"})
                     /\ op'[p].phase # "idle" => op[p].phase # "idle" /\ op'[p].kind = op[p].kind
  BY <1>1 DEF Busy, Sound, ScheduleInv, RecoveryInv
<1>5. Unborn' /\ WorkInv'
  BY <1>3, <1>4 DEF Sound, ScheduleInv, Unborn, WorkInv
<1>6. RecoveryInv'
  BY <1>3, <1>4 DEF Sound, ScheduleInv, RecoveryInv
<1> QED BY <1>1, <1>5, <1>6 DEF ScheduleInv, Quiet

LEMMA StoreFailsKeeps ==
  ASSUME Sound, NEW o \in Ops, StoreFails(o)
  PROVE  Kept
<1>1. /\ op[o].phase \in {"read", "write"} /\ op[o] \in Operation /\ op \in [Ops -> Operation]
      /\ created /\ Failed(o)
      /\ UNCHANGED <<rec, created, creating, disposed, expiring>>
  BY Typed DEF StoreFails, expiryVars
<1> DEFINE retry == /\ op[o].kind \in Settles /\ IsActive(rec) /\ ctl # "aborted" /\ ~disposed
                    /\ AttemptsLeft
<1>2. CASE retry
  <2>1. Again(o) /\ attempts' = attempts + 1 /\ UNCHANGED <<worker, ctl, bootVars>>
    BY <1>1, <1>2 DEF Failed, Again
  <2>2. /\ op' \in [Ops -> Operation] /\ Quiet(op'[o]) /\ op'[o].phase = "read"
        /\ op'[o].kind = op[o].kind
        /\ \A p \in Ops \ {o} : op'[p] = op[p]
        /\ \A p \in Ops : Follows(p)
    BY <1>1, <2>1, AgainReads
  <2>3. StoreInv' /\ Refines
    BY <1>1, <2>2, Unwritten DEF Sound, StoreInv
  <2>4. attempts' \in 0..SettleAttempts
    BY <1>2, <2>1, ManagerAssumption
       DEF Sound, ScheduleInv, WorkInv, AttemptsLeft, ManagerAssumption
  <2>5. worker = "settling"
    BY <1>1, <1>2 DEF Sound, ScheduleInv, WorkInv, Busy
  <2>6. \A p \in Ops : /\ Busy(op'[p], Settles) => Busy(op[p], Settles)
                       /\ Busy(op'[p], {"interrupt"}) => Busy(op[p], {"interrupt"})
                       /\ op'[p].phase # "idle" => op[p].phase # "idle" /\ op'[p].kind = op[p].kind
    BY <2>2 DEF Busy, Follows
  <2>7. Unborn'
    BY <1>1, <2>1, <2>6 DEF Unborn
  <2>8. WorkInv'
    BY <1>1, <2>1, <2>4, <2>5, <2>6 DEF Sound, ScheduleInv, WorkInv, bootVars
  <2>9. RecoveryInv'
    BY <1>1, <2>1, <2>6 DEF Sound, ScheduleInv, RecoveryInv, bootVars
  <2> QED BY <1>1, <2>1, <2>3, <2>7, <2>8, <2>9 DEF Kept, Sound, ScheduleInv, Exclusive
<1>3. CASE ~retry /\ op[o].kind = "withdraw" /\ WithdrawRetries
  <2>1. Again(o) /\ UNCHANGED <<worker, attempts, ctl, bootVars>>
    BY <1>1, <1>3 DEF Failed, Again
  <2> QED BY <1>1, <2>1, AgainReads, Still
<1>4. CASE ~retry /\ ~(op[o].kind = "withdraw" /\ WithdrawRetries) /\ op[o].kind = "interrupt"
  <2>1. /\ op' = [op EXCEPT ![o] = InterruptOver] /\ recovering' = FALSE
        /\ recoverer' = [x \in Recoverers |->
                           IF recoverer[x] = "interrupting" THEN "idle" ELSE recoverer[x]]
        /\ UNCHANGED <<worker, attempts, ctl, ready, hidden>>
    BY <1>1, <1>4 DEF Failed
  <2>2. /\ ScheduleInv' /\ op' \in [Ops -> Operation] /\ Quiet(op'[o])
        /\ \A p \in Ops \ {o} : op'[p] = op[p]
    BY <1>1, <1>4, <2>1, InterruptFails DEF IsActive
  <2>3. StoreInv' /\ Refines
    BY <1>1, <2>2, Unwritten DEF Sound, StoreInv
  <2> QED BY <1>1, <2>1, <2>2, <2>3 DEF Kept, Sound, Exclusive
<1>5. CASE ~retry /\ ~(op[o].kind = "withdraw" /\ WithdrawRetries) /\ op[o].kind # "interrupt"
  <2>1. Finish(o, op, ctl) /\ UNCHANGED attempts
    BY <1>1, <1>5 DEF Failed
  <2>2. Excused(op, op) /\ (ctl = "aborted" => ~IsActive(rec) \/ disposed)
    BY ExcusedSame, AbortedEnded
  <2>3. attempts < SettleAttempts \/ attempts = SettleAttempts
    BY ManagerAssumption DEF Sound, ScheduleInv, WorkInv, ManagerAssumption
  <2>4. op[o].kind \in Settles => ~IsActive(rec) \/ disposed \/ attempts = SettleAttempts
    BY <1>5, <2>2, <2>3 DEF AttemptsLeft
  <2>5. op[o].phase # "idle"
    BY <1>1
  <2> QED BY <1>1, <1>5, <2>1, <2>2, <2>4, <2>5, FinishKeeps
<1> QED BY <1>2, <1>3, <1>4, <1>5

LEMMA AckLostKeeps ==
  ASSUME Sound, NEW o \in Ops, AckLost(o)
  PROVE  Kept
<1>1. /\ op[o].phase = "write" /\ op[o] \in Operation /\ op \in [Ops -> Operation]
      /\ rec # NoRecord /\ rec.revision = op[o].record.revision /\ rec' = Committed(o)
      /\ created
      /\ UNCHANGED <<created, creating, disposed, expiring>>
  BY Typed DEF AckLost, expiryVars
<1>2. CASE op[o].kind # "interrupt" /\ ~(op[o].kind = "withdraw" /\ WithdrawRetries)
  <2>1. Finish(o, op, ctl) /\ UNCHANGED attempts
    BY <1>2 DEF AckLost, Failed, Settles
  <2>2. /\ op' \in [Ops -> Operation] /\ op'[o].phase = "idle"
        /\ \A p \in Ops \ {o} : op'[p] = op[p]
    BY <1>1, <2>1, ExcusedSame, Finished
  <2>3. worker' = "running" => worker = "running"
    BY <2>1 DEF Finish
  <2>4. Quiet(op'[o])
    BY <2>2 DEF Quiet
  <2>5. /\ StoreInv' /\ Refines /\ Exclusive
        /\ IsActive(rec) /\ (op[o].kind \in Enders => ~IsActive(rec)')
    BY <1>1, <2>2, <2>3, <2>4, CommitKeeps
  <2>6. /\ op[o].kind \in Settles => ~IsActive(rec)'
        /\ op[o].kind # "interrupt"
    BY <1>2, <2>5 DEF Settles, Enders
  <2>7. ctl = "aborted" => ~IsActive(rec)' \/ disposed
    BY <2>5, AbortedEnded
  <2>8. Excused(op, op) /\ op[o].phase # "idle" /\ ScheduleInv
    BY <1>1, ExcusedSame DEF Sound
  <2>9. UNCHANGED <<created, creating, attempts, disposed, expiring>>
    BY <1>1, <2>1
  <2>10. ScheduleInv'
    BY <1>1, <2>1, <2>5, <2>6, <2>7, <2>8, <2>9, Finishes
  <2> QED BY <2>5, <2>10 DEF Kept, Sound
<1>3. CASE op[o].kind = "withdraw" /\ WithdrawRetries
  <2>1. Again(o) /\ UNCHANGED <<worker, attempts, ctl, bootVars>>
    BY <1>3 DEF AckLost, Failed, Again, Settles
  <2>2. /\ op' \in [Ops -> Operation] /\ Quiet(op'[o])
        /\ \A p \in Ops \ {o} : op'[p] = op[p]
        /\ \A p \in Ops : Follows(p)
    BY <1>1, <2>1, AgainReads
  <2>3. worker' = "running" => worker = "running"
    BY <2>1
  <2>4. StoreInv' /\ Refines /\ Exclusive /\ IsActive(rec)
    BY <1>1, <2>2, <2>3, CommitKeeps
  <2>5. ScheduleInv'
    BY <1>1, <2>1, <2>2, <2>4, Quietly DEF Sound, ScheduleInv
  <2> QED BY <2>4, <2>5 DEF Kept, Sound
<1>4. CASE op[o].kind = "interrupt"
  <2>1. /\ op' = [op EXCEPT ![o] = InterruptOver] /\ recovering' = FALSE
        /\ recoverer' = [x \in Recoverers |->
                           IF recoverer[x] = "interrupting" THEN "idle" ELSE recoverer[x]]
        /\ UNCHANGED <<worker, attempts, ctl, ready, hidden>>
    BY <1>4 DEF AckLost, Failed, Settles
  <2>2. /\ op' \in [Ops -> Operation] /\ Quiet(op'[o]) /\ \A p \in Ops \ {o} : op'[p] = op[p]
    BY <1>1, <2>1, OverOperation DEF Quiet
  <2>3. worker' = "running" => worker = "running"
    BY <2>1
  <2>4. StoreInv' /\ Refines /\ Exclusive /\ IsActive(rec)
    BY <1>1, <2>2, <2>3, CommitKeeps
  <2>5. op[o].phase # "idle"
    BY <1>1
  <2>6. ScheduleInv'
    BY <1>1, <1>4, <2>1, <2>4, <2>5, InterruptFails
  <2> QED BY <2>4, <2>6 DEF Kept, Sound
<1> QED BY <1>2, <1>3, <1>4

-----------------------------------------------------------------------------
(* The steps of the manager. *)

\* A step that touches neither the store nor the operations.
LEMMA Aside ==
  ASSUME Sound, UNCHANGED <<rec, created, op, expiring>>
  PROVE  StoreInv' /\ Refines
BY Typed, Unwritten DEF Sound, StoreInv

LEMMA CreateKeeps ==
  ASSUME Sound, CreateRecord \/ CreateAckLost
  PROVE  Kept
<1>1. /\ ~created /\ created' = TRUE /\ rec' = NewRecord /\ creating' = TRUE
      /\ worker' = worker \/ worker' = "ended"
      /\ UNCHANGED <<op, attempts, ctl, bootVars, expiring, disposed>>
  BY DEF CreateRecord, CreateAckLost, opVars, expiryVars
<1>2. /\ \A o \in Ops : op[o].phase = "idle"
      /\ \A c \in Recoverers : recoverer[c] = "idle"
      /\ worker = "none" /\ ctl = "none" /\ ~creating /\ ~hidden /\ ~expiring
      /\ rec = NoRecord
  BY <1>1 DEF Sound, ScheduleInv, Unborn, StoreInv
<1>3. StoreInv' /\ Refines
  BY <1>1, <1>2, Created DEF Sound, ScheduleInv
<1>4. Unborn' /\ WorkInv'
  BY <1>1, <1>2 DEF Sound, ScheduleInv, Unborn, WorkInv, Busy, bootVars
<1>5. RecoveryInv'
  BY <1>1, <1>2 DEF Sound, ScheduleInv, RecoveryInv, Busy, bootVars
<1> QED BY <1>1, <1>2, <1>3, <1>4, <1>5 DEF Kept, Sound, ScheduleInv, Exclusive

LEMMA AttachKeeps ==
  ASSUME Sound, AttachCreated
  PROVE  Kept
<1>1. /\ creating /\ creating' = FALSE /\ worker = "none"
      /\ UNCHANGED <<rec, created, op, bootVars, expiring, disposed>>
  BY DEF AttachCreated, expiryVars
<1>2. /\ worker = "none" /\ \A c \in Recoverers : recoverer[c] = "idle"
      /\ created /\ ~hidden
      /\ recoverer \in [Recoverers -> {"idle"}]
  BY <1>1 DEF Sound, ScheduleInv, RecoveryInv, Unborn
<1>3. StoreInv' /\ Refines
  BY <1>1, Aside
<1>4. Exclusive
  BY <1>1, <1>2 DEF Exclusive
<1>5. CASE disposed
  <2>1. UNCHANGED <<worker, attempts, ctl>>
    BY <1>5 DEF AttachCreated
  <2>2. Unborn' /\ WorkInv' /\ RecoveryInv'
    BY <1>1, <1>2, <1>5, <2>1
       DEF Sound, ScheduleInv, Unborn, WorkInv, RecoveryInv, bootVars, IsActive
  <2> QED BY <1>3, <1>4, <2>2 DEF Kept, Sound, ScheduleInv
<1>6. CASE ~disposed
  <2>1. Attach
    BY <1>6 DEF AttachCreated
  <2>3. Unborn'
    BY <1>1, <1>2 DEF Unborn
  <2>4. WorkInv'
    BY <1>1, <1>2, <2>1, ManagerAssumption
       DEF Sound, ScheduleInv, WorkInv, Attach, ManagerAssumption
  <2>5. RecoveryInv'
    BY <1>1, <1>2 DEF Sound, ScheduleInv, RecoveryInv, bootVars
  <2> QED BY <1>3, <1>4, <2>3, <2>4, <2>5 DEF Kept, Sound, ScheduleInv
<1> QED BY <1>5, <1>6

LEMMA ElapseKeeps ==
  ASSUME Sound, Elapse
  PROVE  Kept
<1>1. UNCHANGED <<rec, created, creating, op, worker, attempts, ctl, bootVars, expiring, disposed>>
  BY DEF Elapse, opVars
<1>2. op' \in [Ops -> Operation] /\ \A o \in Ops : Follows(o)
  BY <1>1, Typed DEF Follows
<1> QED BY <1>1, <1>2, Still

LEMMA DeleteKeeps ==
  ASSUME Sound, DeleteExpired
  PROVE  Kept
<1>1. /\ rec # NoRecord /\ rec' = NoRecord /\ op' = op
      /\ UNCHANGED <<created, creating, worker, attempts, ctl, bootVars, disposed>>
  BY DEF DeleteExpired, opVars
<1>2. StoreInv' /\ Refines /\ ~IsActive(rec)'
  BY <1>1, Deleted DEF Sound
<1>3. created /\ \A o \in Ops : Follows(o)
  BY <1>1, Typed DEF Follows
<1>4. ScheduleInv'
  BY <1>1, <1>2, <1>3, Quietly DEF Sound
<1> QED BY <1>1, <1>2, <1>4 DEF Kept, Sound, Exclusive

\* Waiters are told and the work is aborted, once the task has ended or the manager is disposed.
LEMMA AbortKeeps ==
  ASSUME Sound, Excused(op, op'), ctl' = CtlAborted,
         UNCHANGED <<rec, created, creating, worker, attempts, ready, recovering, recoverer>>,
         hidden' \in BOOLEAN, hidden' => hidden, disposed => disposed',
         expiring' => expiring, ~IsActive(rec) \/ disposed',
         ~hidden' /\ hidden => ~IsActive(rec)
  PROVE  Kept
<1>1. \A o \in Ops : Follows(o) /\ (op'[o] = op[o] \/ Quiet(op'[o]))
  BY DEF Excused, Follows, Quiet
<1>2. StoreInv' /\ Refines
  BY <1>1, Unwritten DEF Excused, Sound, StoreInv
<1>3. \A p \in Ops : /\ Busy(op'[p], Settles) => Busy(op[p], Settles)
                     /\ Busy(op'[p], {"interrupt"}) => Busy(op[p], {"interrupt"})
                     /\ op'[p].phase # "idle" => op[p].phase # "idle" /\ op'[p].kind = op[p].kind
  BY <1>1 DEF Busy, Follows
<1>4. ctl' = ctl \/ (ctl' = "aborted" /\ ctl = "live")
  BY DEF CtlAborted
<1>5. Unborn'
  BY <1>3, <1>4 DEF Sound, ScheduleInv, Unborn
<1>8. IsActive(rec)' <=> IsActive(rec)
  BY DEF IsActive
<1>6. WorkInv'
  BY <1>3, <1>4, <1>8 DEF Sound, ScheduleInv, WorkInv
<1>7. RecoveryInv'
  BY <1>3 DEF Sound, ScheduleInv, RecoveryInv
<1> QED BY <1>2, <1>5, <1>6, <1>7 DEF Kept, Sound, ScheduleInv, Exclusive

LEMMA TellKeeps ==
  ASSUME Sound, TellExpired
  PROVE  Kept
<1>1. /\ rec = NoRecord /\ op' = AbortedIfLive(Told(op, NoRecord)) /\ ctl' = CtlAborted
      /\ UNCHANGED <<rec, created, creating, worker, attempts, ready, recovering, recoverer, disposed>>
      /\ hidden' = FALSE /\ expiring' = FALSE
  BY DEF TellExpired, Sound, StoreInv
<1>2. Excused(op, Told(op, NoRecord))
  BY Typed, ToldExcused
<1>3. Excused(Told(op, NoRecord), AbortedIfLive(Told(op, NoRecord)))
  BY <1>2, AbortedExcused DEF Excused
<1>4. Excused(op, op')
  BY <1>1, <1>2, <1>3, ExcusedTwice
<1> QED BY <1>1, <1>4, AbortKeeps DEF IsActive

LEMMA DisposeKeeps ==
  ASSUME Sound, Dispose
  PROVE  Kept
<1>1. /\ op' = AbortedIfLive(op) /\ ctl' = CtlAborted /\ disposed' = TRUE
      /\ UNCHANGED <<rec, created, creating, worker, attempts, ready, recovering, recoverer, hidden,
                     expiring>>
  BY DEF Dispose, bootVars, expiryVars
<1>2. Excused(op, op')
  BY <1>1, Typed, AbortedExcused
<1>3. hidden \in BOOLEAN
  BY DEF Sound, ScheduleInv, RecoveryInv
<1> QED BY <1>1, <1>2, <1>3, AbortKeeps

LEMMA CrashKeeps ==
  ASSUME Sound, Crash
  PROVE  Kept
<1>1. /\ op' = [o \in Ops |-> Idle] /\ worker' = "none" /\ attempts' = 0 /\ ctl' = "none"
      /\ hidden' = IsActive(rec) /\ recovering' = FALSE /\ creating' = FALSE /\ expiring' = FALSE
      /\ recoverer' = [c \in Recoverers |-> "idle"]
      /\ UNCHANGED <<rec, created>>
      /\ ready' \in BOOLEAN
  <2>1. ready' \in BOOLEAN
    <3>1. PICK given \in RecoverGiven : ready' = (given \/ ~IsActive(rec))
      BY DEF Crash
    <3> QED BY <3>1 DEF IsActive
  <2> QED BY <2>1 DEF Crash
<1>2. /\ op' \in [Ops -> Operation]
      /\ \A o \in Ops : op'[o].phase = "idle" /\ Quiet(op'[o])
  BY <1>1, IdleOperation DEF Idle, Quiet
<1>3. StoreInv' /\ Refines
  BY <1>1, <1>2, Unwritten DEF Sound, StoreInv
<1>4. ~created => rec = NoRecord
  BY DEF Sound, StoreInv
<1>5. Unborn'
  BY <1>1, <1>2, <1>4 DEF Unborn, IsActive
<1>8. (hidden' <=> IsActive(rec)') /\ hidden' \in BOOLEAN
  BY <1>1 DEF IsActive
<1>6. WorkInv'
  BY <1>1, <1>2, <1>8, ManagerAssumption DEF WorkInv, Busy, ManagerAssumption
<1>7. RecoveryInv'
  BY <1>1, <1>2 DEF RecoveryInv, Busy, IsActive
<1> QED BY <1>1, <1>3, <1>5, <1>6, <1>7 DEF Kept, Sound, ScheduleInv, Exclusive

-----------------------------------------------------------------------------
(* The steps of a restart. *)

\* An interrupted task begins to be failed: by the start of a manager without a recover
\* callback, or by the one call of recover() whose callback threw or declined.
LEMMA InterruptKeeps ==
  ASSUME Sound, NEW o \in Ops, Free(o), BeginInterrupt(o), created,
         UNCHANGED <<rec, created, creating, worker, attempts, ctl, ready, hidden, recovering,
                     expiring, disposed>>,
         ~ready \/ recovering,
         \A p \in Ops : ~Busy(op[p], {"interrupt"}),
         recoverer' \in [Recoverers -> {"idle", "interrupting"}],
         \A c \in Recoverers : recoverer'[c] # "idle" => recoverer[c] # "idle"
  PROVE  Kept
<1> DEFINE x == [Idle EXCEPT !.kind = "interrupt"]
<1>1. x \in Operation /\ Computes(x) /\ x.kind = "interrupt"
  BY IdleOperation DEF Operation, Idle, Kinds, Computes
<1>2. /\ op' \in [Ops -> Operation]
      /\ op'[o].phase = "read" /\ op'[o].kind = "interrupt" /\ Quiet(op'[o])
      /\ \A p \in Ops \ {o} : op'[p] = op[p]
  BY <1>1, Typed, Begun DEF BeginInterrupt
<1>3. StoreInv' /\ Refines
  BY <1>2, Unwritten DEF Sound, StoreInv
<1>4. \A p \in Ops : /\ Busy(op'[p], Settles) => Busy(op[p], Settles)
                     /\ Busy(op'[p], {"interrupt"}) => p = o
                     /\ op'[p].phase # "idle" => p = o \/ op'[p] = op[p]
  BY <1>2 DEF Busy, Settles
<1>5. Unborn'
  BY DEF Unborn
<1>6. WorkInv'
  BY <1>4 DEF Sound, ScheduleInv, WorkInv, IsActive
<1>7. /\ \A c \in Recoverers : recoverer'[c] \in {"idle", "interrupting"}
      /\ recoverer' \in [Recoverers -> {"idle", "callback", "resumed", "declined", "interrupting"}]
  OBVIOUS
<1>8. RecoveryInv'
  BY <1>2, <1>4, <1>7 DEF Sound, ScheduleInv, RecoveryInv
<1> QED BY <1>3, <1>5, <1>6, <1>8 DEF Kept, Sound, ScheduleInv, Exclusive

LEMMA FailInterruptedKeeps ==
  ASSUME Sound, NEW o \in Ops, FailInterrupted(o)
  PROVE  Kept
<1>1. /\ ~ready /\ hidden /\ Free(o) /\ BeginInterrupt(o)
      /\ \A p \in Ops : ~Busy(op[p], {"interrupt"})
      /\ UNCHANGED <<rec, created, creating, worker, attempts, ctl, ready, hidden, recovering,
                     recoverer, expiring, disposed>>
  BY DEF FailInterrupted, Busy, bootVars, expiryVars
<1>2. created /\ \A c \in Recoverers : recoverer[c] = "idle"
  BY <1>1 DEF Sound, ScheduleInv, Unborn, RecoveryInv
<1>3. recoverer' \in [Recoverers -> {"idle", "interrupting"}]
  BY <1>1, <1>2 DEF Sound, ScheduleInv, RecoveryInv
<1> QED BY <1>1, <1>2, <1>3, InterruptKeeps

LEMMA RecoverKeeps ==
  ASSUME Sound, NEW c \in Recoverers, Recover(c)
  PROVE  Kept
<1>1. /\ ready /\ hidden /\ ~recovering /\ recovering' = TRUE
      /\ recoverer' = [recoverer EXCEPT ![c] = "callback"]
      /\ UNCHANGED <<rec, created, creating, op, worker, attempts, ctl, ready, hidden, expiring, disposed>>
  BY DEF Recover, opVars, expiryVars
<1>2. /\ \A d \in Recoverers : recoverer[d] = "idle"
      /\ \A o \in Ops : ~Busy(op[o], {"interrupt"})
      /\ worker = "none" /\ created /\ ~creating
  BY <1>1 DEF Sound, ScheduleInv, Unborn, RecoveryInv
<1>3. /\ recoverer' \in [Recoverers -> {"idle", "callback", "resumed", "declined", "interrupting"}]
      /\ \A d \in Recoverers : recoverer'[d] # "idle" => d = c
  BY <1>1, <1>2 DEF Sound, ScheduleInv, RecoveryInv
<1>4. StoreInv' /\ Refines
  BY <1>1, Aside
<1>5. Unborn'
  BY <1>1, <1>2 DEF Unborn
<1>6. WorkInv'
  BY <1>1 DEF Sound, ScheduleInv, WorkInv, IsActive
<1>7. RecoveryInv'
  BY <1>1, <1>2, <1>3 DEF Sound, ScheduleInv, RecoveryInv
<1> QED BY <1>1, <1>4, <1>5, <1>6, <1>7 DEF Kept, Sound, ScheduleInv, Exclusive

\* The call that is not idle is the only one, and neither work nor interruption is under way.
LEMMA Alone ==
  ASSUME Sound, NEW c \in Recoverers, recoverer[c] \in {"callback", "resumed", "declined"}
  PROVE  /\ \A d \in Recoverers \ {c} : recoverer[d] = "idle"
         /\ \A o \in Ops : ~Busy(op[o], {"interrupt"})
         /\ recovering /\ ready /\ worker = "none" /\ created /\ ~creating
BY DEF Sound, ScheduleInv, Unborn, RecoveryInv

LEMMA CallbackReturnsKeeps ==
  ASSUME Sound, NEW c \in Recoverers, CallbackReturns(c)
  PROVE  Kept
<1>1. /\ \A d \in Recoverers \ {c} : recoverer[d] = "idle"
      /\ \A o \in Ops : ~Busy(op[o], {"interrupt"})
      /\ recovering /\ ready /\ worker = "none" /\ created /\ ~creating
      /\ UNCHANGED <<rec, created, creating, op, worker, attempts, ctl, ready, hidden, expiring, disposed>>
  BY Alone DEF CallbackReturns, opVars, expiryVars
<1>2. PICK s \in {"idle", "resumed", "declined"} :
         /\ recoverer' = [recoverer EXCEPT ![c] = s]
         /\ IF s = "idle" THEN recovering' = FALSE ELSE recovering' = recovering
  BY DEF CallbackReturns
<1>3. /\ recoverer' \in [Recoverers -> {"idle", "callback", "resumed", "declined", "interrupting"}]
      /\ \A d \in Recoverers : recoverer'[d] # "idle" => d = c /\ s # "idle"
  BY <1>1, <1>2 DEF Sound, ScheduleInv, RecoveryInv
<1>4. StoreInv' /\ Refines
  BY <1>1, Aside
<1>5. Unborn'
  BY <1>1 DEF Unborn
<1>6. WorkInv'
  BY <1>1 DEF Sound, ScheduleInv, WorkInv, IsActive
<1>7. RecoveryInv'
  BY <1>1, <1>2, <1>3 DEF Sound, ScheduleInv, RecoveryInv
<1> QED BY <1>1, <1>4, <1>5, <1>6, <1>7 DEF Kept, Sound, ScheduleInv, Exclusive

LEMMA InterruptingKeeps ==
  ASSUME Sound, NEW c \in Recoverers, NEW o \in Ops, CallbackThrows(c, o) \/ RecoverDeclined(c, o)
  PROVE  Kept
<1>1. /\ recoverer[c] \in {"callback", "declined"}
      /\ Free(o) /\ BeginInterrupt(o)
      /\ recoverer' = [recoverer EXCEPT ![c] = "interrupting"]
      /\ UNCHANGED <<rec, created, creating, worker, attempts, ctl, ready, hidden, recovering,
                     expiring, disposed>>
  BY DEF CallbackThrows, RecoverDeclined, expiryVars
<1>2. /\ \A d \in Recoverers \ {c} : recoverer[d] = "idle"
      /\ \A p \in Ops : ~Busy(op[p], {"interrupt"})
      /\ recovering /\ created
  BY <1>1, Alone
<1>3. /\ recoverer' \in [Recoverers -> {"idle", "interrupting"}]
      /\ \A d \in Recoverers : recoverer'[d] # "idle" => recoverer[d] # "idle"
  BY <1>1, <1>2 DEF Sound, ScheduleInv, RecoveryInv
<1> QED BY <1>1, <1>2, <1>3, InterruptKeeps

LEMMA RecoverEndsKeeps ==
  ASSUME Sound, NEW c \in Recoverers, RecoverEnds(c)
  PROVE  Kept
<1>1. /\ \A d \in Recoverers \ {c} : recoverer[d] = "idle"
      /\ \A o \in Ops : ~Busy(op[o], {"interrupt"}) /\ ~Busy(op[o], Settles)
      /\ recovering /\ ready /\ worker = "none" /\ created /\ ~creating
      /\ op \in [Ops -> Operation]
  BY Alone, Typed DEF RecoverEnds, Sound, ScheduleInv, WorkInv
<1>2. /\ recoverer' = [recoverer EXCEPT ![c] = "idle"] /\ recovering' = FALSE
      /\ UNCHANGED <<created, creating, op, ready, disposed>>
  BY DEF RecoverEnds
<1>3. /\ recoverer' \in [Recoverers -> {"idle", "callback", "resumed", "declined", "interrupting"}]
      /\ \A d \in Recoverers : recoverer'[d] = "idle"
  BY <1>1, <1>2 DEF Sound, ScheduleInv, RecoveryInv
<1>4. Unborn'
  BY <1>1, <1>2 DEF Unborn
<1>5. hidden => \A o \in Ops : op[o].phase = "idle"
  BY <1>1 DEF Sound, ScheduleInv, RecoveryInv, Busy
<1>6. CASE UNCHANGED <<rec, expiring, hidden, worker, attempts, ctl>>
  <2>1. StoreInv' /\ Refines
    BY <1>2, <1>6, Aside
  <2>2. WorkInv'
    BY <1>1, <1>2, <1>6 DEF Sound, ScheduleInv, WorkInv, IsActive
  <2>3. RecoveryInv'
    BY <1>1, <1>2, <1>3, <1>6 DEF Sound, ScheduleInv, RecoveryInv
  <2> QED BY <1>4, <1>6, <2>1, <2>2, <2>3 DEF Kept, Sound, ScheduleInv, Exclusive
<1>7. CASE rec # NoRecord /\ rec' = NoRecord /\ UNCHANGED <<hidden, worker, attempts, ctl>>
  <2>1. StoreInv' /\ Refines /\ ~IsActive(rec)'
    BY <1>2, <1>7, Deleted DEF Sound
  <2>2. WorkInv'
    BY <1>1, <1>2, <1>7, <2>1 DEF Sound, ScheduleInv, WorkInv
  <2>3. RecoveryInv'
    BY <1>1, <1>2, <1>3, <1>7 DEF Sound, ScheduleInv, RecoveryInv
  <2> QED BY <1>4, <1>7, <2>1, <2>2, <2>3 DEF Kept, Sound, ScheduleInv, Exclusive
<1>8. CASE IsTerminal(rec) /\ hidden' = FALSE /\ UNCHANGED <<rec, expiring, worker, attempts, ctl>>
  <2>1. StoreInv' /\ Refines
    BY <1>2, <1>8, Aside
  <2>2. ~IsActive(rec) /\ ~IsActive(rec)'
    BY <1>8 DEF IsActive, IsTerminal
  <2>3. WorkInv'
    BY <1>1, <1>2, <1>8, <2>2 DEF Sound, ScheduleInv, WorkInv
  <2>4. RecoveryInv'
    BY <1>1, <1>2, <1>3, <1>8 DEF Sound, ScheduleInv, RecoveryInv
  <2> QED BY <1>4, <1>8, <2>1, <2>3, <2>4 DEF Kept, Sound, ScheduleInv, Exclusive
<1>9. CASE hidden' = FALSE /\ Attach /\ UNCHANGED <<rec, expiring>>
  <2>1. StoreInv' /\ Refines
    BY <1>2, <1>9, Aside
  <2>2. WorkInv'
    BY <1>1, <1>2, <1>9, ManagerAssumption
       DEF Sound, ScheduleInv, WorkInv, Attach, ManagerAssumption
  <2>3. RecoveryInv'
    BY <1>1, <1>2, <1>3, <1>9 DEF Sound, ScheduleInv, RecoveryInv
  <2> QED BY <1>1, <1>4, <1>9, <2>1, <2>2, <2>3 DEF Kept, Sound, ScheduleInv, Exclusive
<1> QED BY <1>6, <1>7, <1>8, <1>9 DEF RecoverEnds

-----------------------------------------------------------------------------
(* The theorems. *)

LEMMA StepKeeps ==
  ASSUME Sound, Next
  PROVE  Kept
<1>1. ASSUME NEW o \in Ops, Start(o) PROVE Kept
  BY <1>1, StartKeeps, WorkEndsKeeps, AbortAskKeeps DEF Start
<1>2. ASSUME NEW o \in Ops, Progress(o) \/ Trouble(o) PROVE Kept
  BY <1>2, ReadKeeps, WriteKeeps, NotifyKeeps, WaiterKeeps, StoreFailsKeeps, AckLostKeeps
     DEF Progress, Trouble
<1>3. CASE ManagerStep
  BY <1>3, CreateKeeps, AttachKeeps, ElapseKeeps, DeleteKeeps, TellKeeps, DisposeKeeps, CrashKeeps
     DEF ManagerStep
<1>4. CASE Recovery
  BY <1>4, FailInterruptedKeeps, RecoverKeeps, CallbackReturnsKeeps, RecoverEndsKeeps,
     InterruptingKeeps DEF Recovery
<1> QED BY <1>1, <1>2, <1>3, <1>4 DEF Next

LEMMA StutterKeeps ==
  ASSUME Sound, UNCHANGED vars
  PROVE  Kept
<1>1. UNCHANGED <<rec, created, creating, op, worker, attempts, ctl, bootVars, disposed, expiring>>
  BY DEF vars, bootVars
<1>2. op' \in [Ops -> Operation] /\ \A o \in Ops : Follows(o)
  BY <1>1, Typed DEF Follows
<1> QED BY <1>1, <1>2, Still

\* The stored record and every operation under way stay sound, the work and recovery
\* exclude each other: what a crash, a refused write or a lost acknowledgement may
\* interrupt at any step (task-manager.ts #mutate, #attach, recover).
THEOREM ManagerInvariant == Spec => []Sound
<1>1. Init => Sound
  BY StoreInit DEF Sound, ScheduleInv
<1>2. Sound /\ [Next]_vars => Sound'
  BY StepKeeps, StutterKeeps DEF Kept
<1> QED BY <1>1, <1>2, PTL DEF Spec

LEMMA LifecycleStarts == Init => Lifecycle!LifecycleInit
<1> SUFFICES ASSUME Init PROVE Lifecycle!LifecycleInit
  OBVIOUS
<1>1. LifeOf = "absent" /\ \A p : FateOf(p) = "never" /\ \A k : ReplyTo(k) = NoValue
  BY DEF Init, LifeOf, FateOf, ReplyTo
<1> QED BY <1>1 DEF Lifecycle!LifecycleInit

\* For any number of operations, requests, store errors, crashes and recoveries, the stored
\* record moves as if every operation were one indivisible step (task-manager.ts #mutate).
THEOREM ManagerImplementsLifecycle == Spec => ImplementsLifecycle
<1>1. Sound /\ [Next]_vars => Refines
  BY StepKeeps, StutterKeeps DEF Kept
<1>2. Init /\ []Sound /\ [][Next]_vars => Lifecycle!LifecycleSpec
  BY <1>1, LifecycleStarts, PTL DEF Refines, Lifecycle!LifecycleSpec
<1> QED BY <1>2, ManagerInvariant, PTL DEF Spec, ImplementsLifecycle

\* No visible active task is without the work that will end it, unless the store refused its
\* outcome every time (task-manager.ts create, recover, #settle).
THEOREM WorkInvariant == Spec => []ActiveTaskHasWork
<1>1. Sound => ActiveTaskHasWork
  BY DEF Sound, ScheduleInv, WorkInv, ActiveTaskHasWork
<1> QED BY <1>1, ManagerInvariant, PTL

\* A task that waits for recovery is only failed as interrupted or deleted, and is given work
\* once (task-manager.ts recover, #initialise).
THEOREM RecoveryGuarantee == Spec => RecoveryIsExclusive
<1>1. Sound /\ [Next]_vars => Exclusive
  BY StepKeeps, StutterKeeps DEF Kept
<1>2. Exclusive => [/\ hidden /\ rec' # rec =>
                         rec' = NoRecord \/ (rec'.status = "failed" /\ rec'.inputs = rec.inputs)
                    /\ worker' = "running" /\ worker # "running" => worker = "none"]_vars
  BY DEF Exclusive
<1> QED BY <1>1, <1>2, ManagerInvariant, PTL DEF Spec, RecoveryIsExclusive

=============================================================================
