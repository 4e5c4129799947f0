--------------------------- MODULE HttpSessionProofs ---------------------------
(***************************************************************************)
(* What a session of the HTTP transport keeps, for every set of requests   *)
(* and every bound on notes, on frames and on remembered events: the body  *)
(* of a GET carries what it owes, in order; a POST body stays registered   *)
(* exactly as long as its answer is owed; and no note that found a stream  *)
(* is missing from the log.                                                *)
(***************************************************************************)
EXTENDS HttpSession, TLAPS, SequenceTheorems, WellFoundedInduction

Frames  == [id : Streams \X Nat, of : Requests \cup Notes \cup {Nobody}]
Carried == [id : Streams \X Nat, of : Requests \cup Notes]
Pipes   == [held : {"none", "open", "cut", "cancelled", "ended"}, frames : Seq(Frames),
            count : Nat, room : Nat]
Sinks   == {NoMessage} \cup [kind : {"request", "cancelled"}, of : Requests]
                       \cup [kind : {"initialize", "initialized"}, of : {Initialize}]

SessionTypes ==
    /\ sink \in Sinks /\ session \in {"none", "opening", "open", "closing", "closed"}
    /\ exchange \in [Posts -> {"idle", "posting", "reading", "done"}]
    /\ serving \in [Posts -> {"none", "running", "answered", "cancelled", "aborted"}]
    /\ emitted \in 0..NoteCount /\ outbox \in Seq(Posts \cup Notes)
    /\ writing \in {NoWrite} \cup [to : Streams, event : Carried]
    /\ streams \in Seq(Requests) /\ pipe \in [Streams -> Pipes]
    /\ gated \in BOOLEAN
    /\ replay \in Seq(Carried) /\ log \in Seq(Carried)
    /\ owed \in Seq(Carried) /\ sent \in Seq(Carried)

\* A request that was not posted, or whose POST has not arrived, is unknown
\* to the server.
Unarrived ==
    /\ \A r \in Requests : exchange[r] = "idle" => serving[r] = "none"
    /\ sink.kind = "request" =>
          /\ exchange[sink.of] # "idle"
          /\ headers = "none" => serving[sink.of] = "none"

\* What the session server says is on its way once: queued or being written.
Queued == Range(outbox)
SaidOnce ==
    /\ IsInjective(outbox) /\ writing.event.of \notin Queued
    /\ \A r \in Posts : AnswerPending(r) => serving[r] = "answered"
    /\ \A n \in Notes : AnswerPending(n) => n <= emitted

\* The handshake comes first and is answered once; before it, and once the
\* session is closed, nothing is said.
HandshakeFirst ==
    /\ Initialize \in Queued \/ serving[Initialize] = "running" => session = "opening"
    /\ session \in {"none", "closed"} => outbox = <<>>

\* An answer is written to the body of its own request.
AnswersAtHome == writing.event.of \in Requests => writing.to = writing.event.of

\* The two properties, from the start of the session on.
BodiesOwed ==
    /\ IsInjective(streams)
    /\ session # "closed" =>
        \A r \in Requests :
            r \in Range(streams) <=> serving[r] \in {"running", "cancelled"} \/ AnswerPending(r)
NotesKept == session # "closed" => \A n \in 1..emitted : n \in Queued \cup recorded \cup unrouted

ServingInv ==
    Unarrived /\ SaidOnce /\ HandshakeFirst /\ AnswersAtHome /\ BodiesOwed /\ NotesKept

\* What a GET body owes is what was written, what is left of the snapshot and
\* what waits behind it; what is unread is the end of what was written.
InFlight == IF writing.to = Get THEN <<writing.event>> ELSE <<>>
Opening  == <<Event(Get, 1, Nobody)>>
Unread   == \E read \in Seq(Frames) : Opening \o sent = read \o pipe[Get].frames
GetInv ==
    /\ owed = sent \o replay \o InFlight
    /\ ~gated => replay = <<>>
    /\ pipe[Get].held = "open" => Unread

HttpInv == SessionTypes /\ ServingInv /\ GetInv

-----------------------------------------------------------------------------
(* Sequences. *)

LEMMA RangeOfAppend ==
  ASSUME NEW S, NEW s \in Seq(S), NEW e \in S
  PROVE  /\ Range(Append(s, e)) = Range(s) \cup {e}
         /\ IsInjective(s) /\ e \notin Range(s) => IsInjective(Append(s, e))
<1>1. PICK t : t = Append(s, e)
  OBVIOUS
<1>2. /\ t \in Seq(S) /\ Len(t) = Len(s) + 1 /\ Len(s) \in Nat
      /\ \A j \in 1..Len(s) : t[j] = s[j]
      /\ t[Len(s) + 1] = e
  BY <1>1, AppendProperties, LenProperties
<1>3. DOMAIN t = 1..(Len(s) + 1) /\ DOMAIN s = 1..Len(s)
  BY <1>2, LenProperties
<1>4. \A j \in 1..(Len(s) + 1) : j \in 1..Len(s) \/ j = Len(s) + 1
  BY <1>2
<1>5. \A j \in 1..Len(s) : j \in 1..(Len(s) + 1) /\ j # Len(s) + 1
  BY <1>2
<1>6. Len(s) + 1 \in 1..(Len(s) + 1)
  BY <1>2
<1>7. Range(t) = Range(s) \cup {e}
  BY <1>2, <1>3, <1>4, <1>5, <1>6 DEF Range
<1>8. ASSUME IsInjective(s), e \notin Range(s) PROVE IsInjective(t)
  BY <1>2, <1>3, <1>4, <1>8 DEF IsInjective, Range
<1> QED BY <1>1, <1>7, <1>8

LEMMA RangeOfTail ==
  ASSUME NEW S, NEW s \in Seq(S), s # <<>>
  PROVE  /\ Head(s) \in S /\ Tail(s) \in Seq(S)
         /\ Range(s) = Range(Tail(s)) \cup {Head(s)}
         /\ IsInjective(s) => IsInjective(Tail(s)) /\ Head(s) \notin Range(Tail(s))
<1>1. PICK t : t = Tail(s)
  OBVIOUS
<1>2. /\ Head(s) \in S /\ t \in Seq(S) /\ Len(t) = Len(s) - 1
      /\ \A j \in 1..Len(t) : t[j] = s[j + 1]
  BY <1>1, HeadTailProperties
<1>3. Len(s) \in Nat /\ Len(s) # 0 /\ DOMAIN s = 1..Len(s)
  BY LenProperties, EmptySeq
<1>4. DOMAIN t = 1..(Len(s) - 1) /\ s[1] = Head(s)
  BY <1>2, LenProperties
<1>5. \A j \in 1..(Len(s) - 1) : t[j] = s[j + 1] /\ j + 1 \in 1..Len(s) /\ j + 1 # 1
  BY <1>2, <1>3
<1>6. \A j \in 1..Len(s) : j = 1 \/ (j - 1 \in 1..(Len(s) - 1) /\ t[j - 1] = s[j])
  <2>1. SUFFICES ASSUME NEW j \in 1..Len(s), j # 1
                 PROVE  j - 1 \in 1..(Len(s) - 1) /\ t[j - 1] = s[j]
    OBVIOUS
  <2>2. j - 1 \in 1..(Len(s) - 1) /\ (j - 1) + 1 = j
    BY <1>3, <2>1
  <2> QED BY <1>5, <2>2
<1>7. 1 \in 1..Len(s)
  BY <1>3
<1>8. Range(s) = Range(t) \cup {Head(s)}
  <2>1. Range(s) = {s[j] : j \in 1..Len(s)} /\ Range(t) = {t[j] : j \in 1..(Len(s) - 1)}
    BY <1>3, <1>4 DEF Range
  <2>2. \A x \in Range(s) : x \in Range(t) \cup {Head(s)}
    BY <1>4, <1>6, <2>1
  <2>3. \A x \in Range(t) : x \in Range(s)
    BY <1>5, <2>1
  <2>4. Head(s) \in Range(s)
    BY <1>4, <1>7, <2>1
  <2> QED BY <2>2, <2>3, <2>4
<1>9. ASSUME IsInjective(s) PROVE IsInjective(t) /\ Head(s) \notin Range(t)
  <2>1. \A i, j \in 1..(Len(s) - 1) : t[i] = t[j] => i + 1 = j + 1
    BY <1>3, <1>5, <1>9 DEF IsInjective
  <2>2. IsInjective(t)
    BY <1>3, <1>4, <2>1 DEF IsInjective
  <2>3. \A j \in 1..(Len(s) - 1) : t[j] # s[1]
    BY <1>3, <1>5, <1>7, <1>9 DEF IsInjective
  <2> QED BY <1>4, <2>2, <2>3 DEF Range
<1> QED BY <1>1, <1>2, <1>8, <1>9

LEMMA DeletedType ==
  ASSUME NEW S, NEW s \in Seq(S), NEW key
  PROVE  Delete(s, key) \in Seq(S)
<1>1. CASE key \notin Range(s)
  BY <1>1 DEF Delete
<1>2. CASE key \in Range(s)
  <2>1. PICK i : i = CHOOSE j \in DOMAIN s : s[j] = key
    OBVIOUS
  <2>2. i \in DOMAIN s
    <3>1. \E j \in DOMAIN s : s[j] = key
      BY <1>2 DEF Range
    <3> QED BY <2>1, <3>1
  <2>3. Len(s) \in Nat /\ i \in 1..Len(s)
    BY <2>2, LenProperties
  <2>4. SubSeq(s, 1, i - 1) \in Seq(S) /\ SubSeq(s, i + 1, Len(s)) \in Seq(S)
    BY <2>3, SubSeqProperties
  <2>5. RemoveAt(s, i) \in Seq(S)
    BY <2>4, ConcatProperties DEF RemoveAt
  <2> QED BY <1>2, <2>1, <2>5 DEF Delete
<1> QED BY <1>1, <1>2

\* A map forgets a key.
LEMMA Deleted ==
  ASSUME NEW S, NEW s \in Seq(S), IsInjective(s), NEW key
  PROVE  /\ Delete(s, key) \in Seq(S) /\ IsInjective(Delete(s, key))
         /\ Range(Delete(s, key)) = Range(s) \ {key}
<1>1. CASE key \notin Range(s)
  BY <1>1 DEF Delete
<1>2. CASE key \in Range(s)
  <2>1. PICK i : i = CHOOSE j \in DOMAIN s : s[j] = key
    OBVIOUS
  <2>2. i \in DOMAIN s /\ s[i] = key
    <3>1. \E j \in DOMAIN s : s[j] = key
      BY <1>2 DEF Range
    <3> QED BY <2>1, <3>1
  <2>3. Len(s) \in Nat /\ i \in 1..Len(s) /\ DOMAIN s = 1..Len(s)
    BY <2>2, LenProperties
  <2>4. PICK t : t = RemoveAt(s, i)
    OBVIOUS
  <2>5. Delete(s, key) = t
    BY <1>2, <2>1, <2>4 DEF Delete
  <2>6. PICK a : a = SubSeq(s, 1, i - 1)
    OBVIOUS
  <2>7. a \in Seq(S) /\ Len(a) = i - 1 /\ \A j \in 1..(i - 1) : a[j] = s[j]
    BY <2>3, <2>6, SubSeqProperties
  <2>8. PICK b : b = SubSeq(s, i + 1, Len(s))
    OBVIOUS
  <2>9. b \in Seq(S) /\ Len(b) = Len(s) - i /\ \A j \in 1..(Len(s) - i) : b[j] = s[i + j]
    BY <2>3, <2>8, SubSeqProperties
  <2>10. t = a \o b
    BY <2>4, <2>6, <2>8 DEF RemoveAt
  <2>11. /\ t \in Seq(S) /\ Len(t) = Len(a) + Len(b)
         /\ \A j \in 1..(Len(a) + Len(b)) : t[j] = IF j <= Len(a) THEN a[j] ELSE b[j - Len(a)]
    BY <2>7, <2>9, <2>10, ConcatProperties
  <2>12. DOMAIN t = 1..(Len(s) - 1)
    BY <2>3, <2>7, <2>9, <2>11, LenProperties
  <2>13. ASSUME NEW j \in 1..(Len(s) - 1) PROVE t[j] = IF j < i THEN s[j] ELSE s[j + 1]
    <3>1. CASE j < i
      <4>1. j \in 1..(Len(a) + Len(b)) /\ j <= Len(a) /\ j \in 1..(i - 1)
        BY <2>3, <2>7, <2>9, <3>1
      <4>2. t[j] = a[j] /\ a[j] = s[j]
        BY <2>7, <2>11, <4>1
      <4> QED BY <3>1, <4>2
    <3>2. CASE ~(j < i)
      <4>1. j - (i - 1) \in 1..(Len(s) - i) /\ i + (j - (i - 1)) = j + 1
        BY <2>3, <3>2
      <4>2. b[j - (i - 1)] = s[j + 1]
        BY <2>9, <4>1
      <4>3. j \in 1..(Len(a) + Len(b)) /\ ~(j <= Len(a)) /\ j - Len(a) = j - (i - 1)
        BY <2>3, <2>7, <2>9, <3>2
      <4>4. t[j] = b[j - Len(a)]
        BY <2>11, <4>3
      <4> QED BY <3>2, <4>2, <4>3, <4>4
    <3> QED BY <3>1, <3>2
  <2> DEFINE at(j) == IF j < i THEN j ELSE j + 1
  <2>14. \A j \in 1..(Len(s) - 1) : at(j) \in 1..Len(s) /\ at(j) # i /\ t[j] = s[at(j)]
    BY <2>3, <2>13
  <2>15. \A j, k \in 1..(Len(s) - 1) : at(j) = at(k) => j = k
    BY <2>3
  <2>16. \A k \in 1..Len(s) : k # i => \E j \in 1..(Len(s) - 1) : at(j) = k
    <3>1. SUFFICES ASSUME NEW k \in 1..Len(s), k # i
                   PROVE  \E j \in 1..(Len(s) - 1) : at(j) = k
      OBVIOUS
    <3>2. CASE k < i
      <4>1. k \in 1..(Len(s) - 1) /\ at(k) = k
        BY <2>3, <3>1, <3>2
      <4> QED BY <4>1
    <3>3. CASE ~(k < i)
      <4>1. k - 1 \in 1..(Len(s) - 1) /\ at(k - 1) = k
        BY <2>3, <3>1, <3>3
      <4> QED BY <4>1
    <3> QED BY <3>2, <3>3
  <2> HIDE DEF at
  <2>17. IsInjective(t)
    <3>1. SUFFICES ASSUME NEW j \in 1..(Len(s) - 1), NEW k \in 1..(Len(s) - 1), t[j] = t[k]
                   PROVE  j = k
      BY <2>12 DEF IsInjective
    <3>2. at(j) = at(k)
      BY <2>3, <2>14, <3>1 DEF IsInjective
    <3> QED BY <2>15, <3>2
  <2>18. Range(t) = {t[j] : j \in 1..(Len(s) - 1)} /\ Range(s) = {s[j] : j \in 1..Len(s)}
    BY <2>3, <2>12 DEF Range
  <2>19. \A x \in Range(t) : x \in Range(s) /\ x # key
    <3>1. SUFFICES ASSUME NEW j \in 1..(Len(s) - 1) PROVE t[j] \in Range(s) /\ t[j] # key
      BY <2>18
    <3>2. t[j] = s[at(j)] /\ at(j) \in 1..Len(s) /\ at(j) # i
      BY <2>14
    <3> QED BY <2>2, <2>3, <2>18, <3>2 DEF IsInjective
  <2>20. \A x \in Range(s) : x # key => x \in Range(t)
    <3>1. SUFFICES ASSUME NEW k \in 1..Len(s), s[k] # key PROVE s[k] \in Range(t)
      BY <2>18
    <3>2. PICK j \in 1..(Len(s) - 1) : at(j) = k
      BY <2>2, <2>16, <3>1
    <3> QED BY <2>14, <2>18, <3>2
  <2> QED BY <2>5, <2>11, <2>17, <2>19, <2>20
<1> QED BY <1>1, <1>2

\* The oldest unread frame is read.
LEMMA HeadMoves ==
  ASSUME NEW S, NEW a \in Seq(S), NEW b \in Seq(S), b # <<>>
  PROVE  /\ Append(a, Head(b)) \in Seq(S) /\ Tail(b) \in Seq(S)
         /\ Append(a, Head(b)) \o Tail(b) = a \o b
<1>1. PICK h : h = Head(b)
  OBVIOUS
<1>2. PICK t : t = Tail(b)
  OBVIOUS
<1>3. h \in S /\ t \in Seq(S) /\ Len(t) = Len(b) - 1 /\ \A j \in 1..Len(t) : t[j] = b[j + 1]
  BY <1>1, <1>2, HeadTailProperties
<1>4. PICK c : c = Append(a, h)
  OBVIOUS
<1>5. /\ c \in Seq(S) /\ Len(c) = Len(a) + 1 /\ Len(a) \in Nat
      /\ \A j \in 1..Len(a) : c[j] = a[j]
      /\ c[Len(a) + 1] = h
  BY <1>3, <1>4, AppendProperties, LenProperties
<1>6. Len(b) \in Nat /\ Len(b) # 0 /\ b[1] = h
  BY <1>1, LenProperties, EmptySeq
<1>7. /\ a \o b \in Seq(S) /\ Len(a \o b) = Len(a) + Len(b)
      /\ \A j \in 1..(Len(a) + Len(b)) : (a \o b)[j] = IF j <= Len(a) THEN a[j] ELSE b[j - Len(a)]
  BY ConcatProperties
<1>8. /\ c \o t \in Seq(S) /\ Len(c \o t) = Len(c) + Len(t)
      /\ \A j \in 1..(Len(c) + Len(t)) : (c \o t)[j] = IF j <= Len(c) THEN c[j] ELSE t[j - Len(c)]
  BY <1>3, <1>5, ConcatProperties
<1>9. Len(c \o t) = Len(a \o b) /\ Len(c \o t) = Len(a) + Len(b)
  BY <1>3, <1>5, <1>6, <1>7, <1>8
<1>10. ASSUME NEW j \in 1..Len(c \o t) PROVE (c \o t)[j] = (a \o b)[j]
  <2>0. j \in 1..(Len(a) + Len(b)) /\ j \in 1..(Len(c) + Len(t))
    BY <1>8, <1>9
  <2>1. CASE j <= Len(a)
    <3>1. j \in 1..Len(a) /\ j <= Len(c)
      BY <1>5, <2>0, <2>1
    <3> QED BY <1>5, <1>7, <1>8, <2>0, <2>1, <3>1
  <2>2. CASE j = Len(a) + 1
    <3>1. ~(j <= Len(a)) /\ j <= Len(c) /\ j - Len(a) = 1
      BY <1>5, <2>2
    <3> QED BY <1>5, <1>6, <1>7, <1>8, <2>0, <2>2, <3>1
  <2>3. CASE j > Len(a) + 1
    <3>1. /\ ~(j <= Len(a)) /\ ~(j <= Len(c)) /\ j - Len(c) \in 1..Len(t)
          /\ (j - Len(c)) + 1 = j - Len(a)
      BY <1>3, <1>5, <1>6, <2>0, <2>3
    <3>2. t[j - Len(c)] = b[j - Len(a)]
      BY <1>3, <3>1
    <3> QED BY <1>7, <1>8, <2>0, <3>1, <3>2
  <2> QED BY <1>5, <2>0, <2>1, <2>2, <2>3
<1>11. c \o t = a \o b
  BY <1>7, <1>8, <1>9, <1>10, SeqEqual
<1> QED BY <1>1, <1>2, <1>3, <1>4, <1>5, <1>11

LEMMA Regroup ==
  ASSUME NEW S, NEW a \in Seq(S), NEW b \in Seq(S), NEW c \in Seq(S)
  PROVE  /\ (a \o b) \o c = a \o (b \o c)
         /\ a \o b \in Seq(S) /\ b \o c \in Seq(S)
<1>1. (a \o b) \o c = a \o (b \o c)
  BY ConcatAssociative
<1> QED BY <1>1, ConcatProperties

\* The snapshot is an end of the log.
LEMMA Smallest ==
  ASSUME NEW T, T \subseteq Nat, T # {}
  PROVE  \E x \in T : \A y \in T : x <= y
<1>1. \E x \in T : \A y \in T : ~(<<y, x>> \in OpToRel(<, Nat))
  BY NatLessThanWellFounded, WFMin, Zenon
<1>2. PICK x \in T : \A y \in T : ~(<<y, x>> \in OpToRel(<, Nat))
  BY <1>1
<1>3. ASSUME NEW y \in T PROVE x <= y
  <2>1. x \in Nat /\ y \in Nat /\ <<y, x>> \in Nat \X Nat
    OBVIOUS
  <2>2. ~(y < x)
    BY <1>2, <2>1 DEF OpToRel
  <2> QED BY <2>1, <2>2
<1> QED BY <1>3

LEMMA SnapshotType ==
  ASSUME NEW S, NEW s \in Seq(S), NEW id
  PROVE  EventsAfter(s, id) \in Seq(S)
<1> DEFINE at == {i \in DOMAIN s : s[i].id = id}
           first == CHOOSE i \in at : \A j \in at : i <= j
<1>1. CASE at = {}
  BY <1>1 DEF EventsAfter
<1>2. CASE at # {}
  <2>1. Len(s) \in Nat /\ DOMAIN s = 1..Len(s) /\ at \subseteq 1..Len(s)
    BY LenProperties
  <2>2. at \subseteq Nat
    BY <2>1
  <2> HIDE DEF at
  <2>3. \E i \in at : \A j \in at : i <= j
    BY <1>2, <2>2, Smallest
  <2>4. first \in at
    BY <2>3
  <2>5. EventsAfter(s, id) = SubSeq(s, first + 1, Len(s))
    BY <1>2 DEF EventsAfter, at
  <2> HIDE DEF first
  <2>6. \A i \in (first + 1)..Len(s) : s[i] \in S
    <3>1. SUFFICES ASSUME NEW i \in (first + 1)..Len(s) PROVE s[i] \in S
      OBVIOUS
    <3>2. first \in 1..Len(s)
      BY <2>1, <2>4
    <3>3. i \in 1..Len(s)
      BY <2>1, <3>2
    <3> QED BY <3>3, ElementOfSeq
  <2>7. first + 1 \in Int /\ Len(s) \in Int
    BY <2>1, <2>2, <2>4
  <2>8. SubSeq(s, first + 1, Len(s)) \in Seq(S)
    BY <2>6, <2>7, SubSeqProperties
  <2> QED BY <2>5, <2>8
<1> QED BY <1>1, <1>2

-----------------------------------------------------------------------------
(* Bodies. *)

LEMMA NamesApart ==
  /\ Get \notin Requests /\ Get \notin Notes /\ Get # Nobody /\ Get # Initialize
  /\ Initialize \notin Requests /\ Initialize \notin Notes /\ Initialize # Nobody
  /\ Nobody \notin Requests /\ Nobody \notin Notes
  /\ Requests \cap Notes = {}
<1>1. Notes \subseteq Nat
  BY HttpAssumption DEF Notes
<1> QED BY <1>1, HttpAssumption

LEMMA NoMessageKind == NoMessage.kind = "none" /\ NoMessage.of = Nobody
  BY DEF NoMessage, Message

LEMMA NoWriteFields ==
  /\ NoWrite.to = Nobody /\ NoWrite.event.of = Nobody
  /\ NoWrite \notin [to : Streams, event : Carried]
<1>1. NoWrite.to = Nobody /\ NoWrite.event.of = Nobody
  BY DEF NoWrite, Write, NoEvent, Event
<1>2. Nobody \notin Streams
  BY NamesApart DEF Streams
<1> QED BY <1>1, <1>2

\* A write under way is the one of a request or of a note.
LEMMA WritingFields ==
  ASSUME SessionTypes
  PROVE  \/ writing = NoWrite /\ writing.to = Nobody /\ writing.event.of = Nobody
         \/ /\ writing # NoWrite /\ writing.to \in Streams /\ writing.event \in Carried
            /\ writing.event.of \in Requests \cup Notes
<1>1. CASE writing = NoWrite
  BY <1>1, NoWriteFields
<1>2. CASE writing # NoWrite
  <2>1. writing \in [to : Streams, event : Carried]
    BY <1>2 DEF SessionTypes
  <2> QED BY <1>2, <2>1 DEF Carried
<1> QED BY <1>1, <1>2

LEMMA ClosedPipe == Closed \in Pipes /\ Closed.held # "open"
  BY DEF Closed, Pipes

LEMMA OpenedPipe ==
  ASSUME NEW s \in Streams, NEW room \in Nat
  PROVE  /\ Opened(s, room) \in Pipes
         /\ Opened(s, room).held = "open"
         /\ Opened(s, room).frames = <<Event(s, 1, Nobody)>>
<1>1. Event(s, 1, Nobody) \in Frames
  BY DEF Event, Frames
<1>2. PICK f : f = <<Event(s, 1, Nobody)>>
  OBVIOUS
<1>3. f \in Seq(Frames)
  BY <1>1, <1>2
<1>4. Opened(s, room) = [held |-> "open", frames |-> f, count |-> 1, room |-> room]
  BY <1>2 DEF Opened
<1> QED BY <1>2, <1>3, <1>4 DEF Pipes

LEMMA LeftPipe ==
  ASSUME NEW p \in Pipes
  PROVE  ClientLeaves(p) \in Pipes /\ ClientLeaves(p).held # "open"
  BY ClosedPipe DEF ClientLeaves, Pipes

LEMMA EndedPipe ==
  ASSUME NEW p \in Pipes
  PROVE  ServerCloses(p) \in Pipes /\ ServerCloses(p).held # "open"
  BY ClosedPipe DEF ServerCloses, Pipes

LEMMA CarriedAreFrames == Carried \subseteq Frames
  BY DEF Carried, Frames

LEMMA FilledPipe ==
  ASSUME NEW p \in Pipes, NEW es \in Seq(Carried)
  PROVE  /\ Put(p, es) \in Pipes /\ Put(p, es).held = p.held
         /\ p.held = "open" => Put(p, es).frames = p.frames \o es
<1>1. es \in Seq(Frames) /\ p.frames \in Seq(Frames)
  BY CarriedAreFrames, SeqMonotonic DEF Pipes
<1>2. PICK f : f = p.frames \o es
  OBVIOUS
<1>3. f \in Seq(Frames)
  BY <1>1, <1>2, ConcatProperties
<1>4. CASE p.held \in {"open", "cut"}
  <2>1. Put(p, es) = [p EXCEPT !.frames = f]
    BY <1>2, <1>4 DEF Put
  <2> QED BY <1>2, <1>3, <2>1 DEF Pipes
<1>5. CASE p.held \notin {"open", "cut"}
  BY <1>5 DEF Put
<1> QED BY <1>4, <1>5

-----------------------------------------------------------------------------
(* The types. *)

LEMMA TypesInitially == HttpInit => SessionTypes
<1> SUFFICES ASSUME HttpInit PROVE SessionTypes
  OBVIOUS
<1>1. pipe \in [Streams -> Pipes]
  BY ClosedPipe DEF HttpInit
<1>2. <<>> \in Seq(Carried) /\ <<>> \in Seq(Requests) /\ <<>> \in Seq(Posts \cup Notes)
  OBVIOUS
<1>3. sink \in Sinks /\ writing \in {NoWrite} \cup [to : Streams, event : Carried]
  BY DEF HttpInit, Sinks
<1>4. emitted \in 0..NoteCount
  BY HttpAssumption DEF HttpInit
<1>5. /\ exchange \in [Posts -> {"idle", "posting", "reading", "done"}]
      /\ serving \in [Posts -> {"none", "running", "answered", "cancelled", "aborted"}]
  BY DEF HttpInit
<1>6. /\ outbox \in Seq(Posts \cup Notes) /\ streams \in Seq(Requests)
      /\ replay \in Seq(Carried) /\ log \in Seq(Carried)
      /\ owed \in Seq(Carried) /\ sent \in Seq(Carried)
  BY <1>2 DEF HttpInit
<1>7. gated \in BOOLEAN /\ session \in {"none", "opening", "open", "closing", "closed"}
  BY DEF HttpInit
<1> QED BY <1>1, <1>3, <1>4, <1>5, <1>6, <1>7 DEF SessionTypes

\* The parts of a body that change.
LEMMA PipeWith ==
  ASSUME SessionTypes, NEW s \in Streams, NEW p \in Pipes
  PROVE  [pipe EXCEPT ![s] = p] \in [Streams -> Pipes]
  BY DEF SessionTypes

LEMMA PipeParts ==
  ASSUME SessionTypes, NEW s \in Streams, NEW f \in Seq(Frames), NEW n \in Nat,
         NEW h \in {"none", "open", "cut", "cancelled", "ended"}
  PROVE  /\ [pipe EXCEPT ![s].frames = f] \in [Streams -> Pipes]
         /\ [pipe EXCEPT ![s].count = n] \in [Streams -> Pipes]
         /\ [pipe EXCEPT ![s].held = h, ![s].frames = f] \in [Streams -> Pipes]
<1>1. pipe \in [Streams -> Pipes] /\ pipe[s] \in Pipes
  BY DEF SessionTypes
<1>2. [pipe[s] EXCEPT !.frames = f] \in Pipes
  BY <1>1 DEF Pipes
<1>3. [pipe[s] EXCEPT !.count = n] \in Pipes
  BY <1>1 DEF Pipes
<1>4. [pipe[s] EXCEPT !.held = h, !.frames = f] \in Pipes
  BY <1>1 DEF Pipes
<1> QED BY <1>1, <1>2, <1>3, <1>4

\* Where a message goes.
LEMMA Routed ==
  ASSUME SessionTypes, NEW m \in (Posts \cup Notes) \ {Initialize}
  PROVE  /\ Route(m) \in Streams \cup {Nobody} /\ m \in Requests \cup Notes
         /\ m \in Requests => Route(m) = IF m \in Range(streams) THEN m ELSE Nobody
<1>1. m \in Requests \cup Notes
  BY DEF Posts
<1>2. CASE m \in Notes
  <2>1. m \notin Requests
    BY <1>2, NamesApart
  <2>2. streams # <<>> => Head(streams) \in Requests
    BY HeadTailProperties DEF SessionTypes
  <2> QED BY <1>1, <1>2, <2>1, <2>2 DEF Route, Streams
<1>3. CASE m \in Requests
  <2>1. m \notin Notes
    BY <1>3, NamesApart
  <2> QED BY <1>1, <1>3, <2>1 DEF Route, Streams
<1> QED BY <1>1, <1>2, <1>3

LEMMA SentEvent ==
  ASSUME SessionTypes, NEW s \in Streams, NEW m \in Requests \cup Notes
  PROVE  Event(s, pipe[s].count + 1, m) \in Carried
<1>1. pipe[s] \in Pipes
  BY DEF SessionTypes
<1>2. pipe[s].count \in Nat
  BY <1>1 DEF Pipes
<1> QED BY <1>2 DEF Event, Carried

LEMMA RememberedType ==
  ASSUME NEW s \in Seq(Carried), NEW e \in Carried
  PROVE  Remember(s, e) \in Seq(Carried)
<1>1. PICK t : t = Append(s, e)
  OBVIOUS
<1>2. t \in Seq(Carried) /\ t # <<>>
  BY <1>1, AppendProperties
<1>3. Tail(t) \in Seq(Carried)
  BY <1>2, HeadTailProperties
<1> QED BY <1>1, <1>2, <1>3 DEF Remember

LEMMA ClientTypes == SessionTypes /\ ClientStep => SessionTypes'
<1> SUFFICES ASSUME SessionTypes, ClientStep PROVE SessionTypes'
  OBVIOUS
<1> USE DEF serverVars, writeVars, getVars, logVars
<1>0. NoMessage \in Sinks
  BY DEF Sinks
<1>1. ASSUME NEW kind \in {"initialize", "initialized", "request", "cancelled"},
             NEW r \in Posts, Post(kind, r)
      PROVE  SessionTypes'
  <2>1. sink' = [kind |-> kind, of |-> r] /\ MayPost(kind, r)
    BY <1>1 DEF Post, Message
  <2>2. /\ kind \in {"initialize", "initialized"} => r = Initialize
        /\ kind \in {"request", "cancelled"} => r \in Requests
    BY <1>1, <2>1 DEF MayPost
  <2>3. sink' \in Sinks
    BY <1>1, <2>1, <2>2 DEF Sinks
  <2>4. exchange' \in {exchange, [exchange EXCEPT ![r] = "posting"]}
    BY <1>1 DEF Post
  <2> QED BY <1>1, <2>3, <2>4 DEF SessionTypes, Post
<1>2. CASE HeadersBack
  <2>1. exchange' \in {exchange, [exchange EXCEPT ![sink.of] = "done"],
                       [exchange EXCEPT ![sink.of] = "reading"]}
    BY <1>2 DEF HeadersBack, Tell
  <2> QED BY <1>0, <1>2, <2>1 DEF SessionTypes, HeadersBack
<1>3. CASE PostFails
  <2>1. exchange' \in {exchange, [exchange EXCEPT ![sink.of] = "done"]}
    BY <1>3 DEF PostFails, Tell
  <2>2. pipe' = pipe \/ pipe' = [pipe EXCEPT ![sink.of] = ClientLeaves(@)]
    BY <1>3 DEF PostFails
  <2>3. pipe' \in [Streams -> Pipes]
    BY <2>2, LeftPipe DEF SessionTypes
  <2> QED BY <1>0, <1>3, <2>1, <2>3 DEF SessionTypes, PostFails
<1>4. CASE Reconnect \/ GetFails
  BY <1>4 DEF SessionTypes, Reconnect, GetFails
<1>5. CASE Dispose
  <2>1. pipe' \in [Streams -> Pipes]
    BY <1>5, LeftPipe DEF Dispose, SessionTypes
  <2> QED BY <1>0, <1>5, <2>1 DEF SessionTypes, Dispose
<1>6. ASSUME NEW s \in Streams, ReadEvent(s) PROVE SessionTypes'
  <2>1. pipe[s] \in Pipes /\ pipe[s].frames # <<>>
    BY <1>6 DEF ReadEvent, SessionTypes
  <2>2. PICK f : f = Tail(pipe[s].frames)
    OBVIOUS
  <2>3. f \in Seq(Frames)
    BY <2>1, <2>2, HeadTailProperties DEF Pipes
  <2>4. pipe' \in [Streams -> Pipes]
    <3>1. pipe' = [pipe EXCEPT ![s].frames = f]
      BY <1>6, <2>2 DEF ReadEvent
    <3> QED BY <2>3, <3>1, PipeParts
  <2>5. PICK e : e = Head(pipe[s].frames)
    OBVIOUS
  <2>6. exchange' \in {exchange, [exchange EXCEPT ![e.of] = "done"]}
    BY <1>6, <2>5 DEF ReadEvent, HandOn, Tell
  <2> QED BY <1>6, <2>4, <2>6 DEF SessionTypes, ReadEvent
<1>7. ASSUME NEW s \in Streams, ReadEnd(s) \/ Cut(s) PROVE SessionTypes'
  <2>1. exchange' \in {exchange, [exchange EXCEPT ![s] = "done"]}
    BY <1>7 DEF ReadEnd, Cut, BodyEnds, Tell
  <2>2. pipe' \in [Streams -> Pipes]
    <3>1. pipe[s] \in Pipes
      BY DEF SessionTypes
    <3>2. PICK p \in Pipes : pipe' = [pipe EXCEPT ![s] = p]
      BY <1>7, <3>1, ClosedPipe, LeftPipe DEF ReadEnd, Cut
    <3> QED BY <3>2, PipeWith
  <2> QED BY <1>7, <2>1, <2>2 DEF SessionTypes, ReadEnd, Cut
<1> QED BY <1>1, <1>2, <1>3, <1>4, <1>5, <1>6, <1>7 DEF ClientStep

LEMMA ServerTypes == SessionTypes /\ ServerStep => SessionTypes'
<1> SUFFICES ASSUME SessionTypes, ServerStep PROVE SessionTypes'
  OBVIOUS
<1> USE DEF clientVars, serverVars, writeVars, getVars, logVars
<1>1. CASE InitializeArrives
  BY <1>1 DEF SessionTypes, InitializeArrives
<1>2. CASE RequestArrives
  <2>1. sink.of \in Requests /\ sink.of \in Streams
    <3>1. sink \in [kind : {"request", "cancelled"}, of : Requests]
      BY <1>2, NoMessageKind DEF RequestArrives, SessionTypes, Sinks
    <3> QED BY <3>1 DEF Streams
  <2>2. streams' \in Seq(Requests)
    <3>1. Append(streams, sink.of) \in Seq(Requests)
      BY <2>1, AppendProperties DEF SessionTypes
    <3> QED BY <1>2, <3>1 DEF RequestArrives, SessionTypes
  <2>3. Opened(sink.of, HighWater) \in Pipes
    BY <2>1, OpenedPipe, HttpAssumption
  <2>4. pipe' \in [Streams -> Pipes]
    BY <1>2, <2>3 DEF RequestArrives, SessionTypes
  <2> QED BY <1>2, <2>2, <2>4 DEF SessionTypes, RequestArrives
<1>3. CASE NoticeArrives
  BY <1>3 DEF SessionTypes, NoticeArrives
<1>4. CASE GetArrives
  <2>1. CASE Known
    <3>1. PICK missed : missed = IF cursor = NoEvent.id THEN <<>> ELSE EventsAfter(log, cursor)
      OBVIOUS
    <3>2. missed \in Seq(Carried)
      BY <3>1, SnapshotType DEF SessionTypes
    <3>3. PICK room : room = IF Len(missed) + 1 > HighWater THEN Len(missed) + 1 ELSE HighWater
      OBVIOUS
    <3>4. room \in Nat
      BY <3>2, <3>3, HttpAssumption, LenProperties
    <3>5. /\ pipe' = [pipe EXCEPT ![Get] = Opened(Get, room)]
          /\ replay' = missed /\ owed' = missed /\ sent' = <<>> /\ gated' = TRUE
          /\ writing' = Superseded
      BY <1>4, <2>1, <3>1, <3>3 DEF GetArrives
    <3>6. Get \in Streams
      BY DEF Streams
    <3>7. pipe' \in [Streams -> Pipes]
      BY <3>4, <3>5, <3>6, OpenedPipe DEF SessionTypes
    <3>8. writing' \in {NoWrite, writing}
      BY <3>5 DEF Superseded
    <3> QED BY <1>4, <3>2, <3>5, <3>7, <3>8 DEF SessionTypes, GetArrives
  <2>2. CASE ~Known
    BY <1>4, <2>2 DEF SessionTypes, GetArrives
  <2> QED BY <2>1, <2>2
<1>5. CASE GetReplayed
  <2>1. /\ gated' = FALSE /\ replay' = <<>> /\ sent' = sent \o replay
        /\ pipe' = [pipe EXCEPT ![Get] = Put(@, replay)]
    BY <1>5 DEF GetReplayed, OpenGate
  <2>2. sent' \in Seq(Carried)
    BY <2>1, ConcatProperties DEF SessionTypes
  <2>3. pipe' \in [Streams -> Pipes]
    <3>1. Get \in Streams /\ pipe[Get] \in Pipes /\ replay \in Seq(Carried)
      BY DEF SessionTypes, Streams
    <3>2. PICK p : p = Put(pipe[Get], replay)
      OBVIOUS
    <3>3. p \in Pipes /\ pipe' = [pipe EXCEPT ![Get] = p]
      BY <2>1, <3>1, <3>2, FilledPipe
    <3> QED BY <3>1, <3>3, PipeWith
  <2>4. UNCHANGED <<sink, session, exchange, serving, emitted, outbox, writing, streams, owed, log>>
    BY <1>5 DEF GetReplayed, OpenGate
  <2>5. replay' \in Seq(Carried) /\ gated' \in BOOLEAN
    BY <2>1, EmptySeq
  <2> QED BY <2>2, <2>3, <2>4, <2>5 DEF SessionTypes
<1>6. ASSUME NEW r \in Posts, Answer(r) PROVE SessionTypes'
  <2>1. outbox' \in Seq(Posts \cup Notes)
    BY <1>6, AppendProperties DEF Answer, SessionTypes
  <2> QED BY <1>6, <2>1 DEF SessionTypes, Answer
<1>7. CASE Notify
  <2>1. emitted' = emitted + 1 /\ emitted' \in 0..NoteCount /\ emitted' \in Notes
    BY <1>7, HttpAssumption DEF Notify, SessionTypes, Notes
  <2>2. outbox' \in Seq(Posts \cup Notes)
    BY <1>7, <2>1, AppendProperties DEF Notify, SessionTypes
  <2> QED BY <1>7, <2>1, <2>2 DEF SessionTypes, Notify
<1>8. CASE TakeOut
  <2>1. PICK m : m = Head(outbox)
    OBVIOUS
  <2>2. outbox' = Tail(outbox) /\ outbox # <<>> /\ m # Initialize
    BY <1>8, <2>1 DEF TakeOut
  <2>3. m \in (Posts \cup Notes) \ {Initialize} /\ outbox' \in Seq(Posts \cup Notes)
    BY <2>1, <2>2, HeadTailProperties DEF SessionTypes
  <2>4. PICK to : to = Route(m)
    OBVIOUS
  <2>5. to \in Streams \cup {Nobody} /\ m \in Requests \cup Notes
    BY <2>3, <2>4, Routed
  <2>6. CASE to = Nobody
    BY <1>8, <2>1, <2>3, <2>4, <2>6 DEF SessionTypes, TakeOut
  <2>7. CASE to # Nobody
    <3>1. PICK event : event = Event(to, pipe[to].count + 1, m)
      OBVIOUS
    <3>2. to \in Streams /\ event \in Carried
      BY <2>5, <2>7, <3>1, SentEvent
    <3>3. /\ pipe' = [pipe EXCEPT ![to].count = @ + 1]
          /\ writing' = [to |-> to, event |-> event]
          /\ owed' = IF to = Get THEN Append(owed, event) ELSE owed
          /\ log' = Remember(log, event)
      BY <1>8, <2>1, <2>4, <2>7, <3>1 DEF TakeOut, Send, Write
    <3>4. pipe' \in [Streams -> Pipes]
      <4>1. PICK n : n = pipe[to].count + 1
        OBVIOUS
      <4>2. n \in Nat
        <5>1. pipe[to] \in Pipes
          BY <3>2 DEF SessionTypes
        <5> QED BY <4>1, <5>1 DEF Pipes
      <4>3. pipe' = [pipe EXCEPT ![to].count = n]
        BY <3>3, <4>1
      <4> QED BY <3>2, <4>2, <4>3, PipeParts, EmptySeq
    <3>5. owed' \in Seq(Carried) /\ log' \in Seq(Carried)
      BY <3>2, <3>3, AppendProperties, RememberedType DEF SessionTypes
    <3>6. writing' \in [to : Streams, event : Carried]
      BY <3>2, <3>3
    <3> QED BY <1>8, <2>3, <3>4, <3>5, <3>6 DEF SessionTypes, TakeOut
  <2> QED BY <2>6, <2>7
<1>9. CASE WriteOut
  <2>1. writing \in [to : Streams, event : Carried]
    BY <1>9 DEF WriteOut, WriteFrame, SessionTypes
  <2>2. PICK es : es = <<writing.event>>
    OBVIOUS
  <2>3. es \in Seq(Carried) /\ writing.to \in Streams /\ writing.event \in Carried
    BY <2>1, <2>2
  <2>4. PICK put : put = Put(pipe[writing.to], es)
    OBVIOUS
  <2>5. put \in Pipes
    BY <2>3, <2>4, FilledPipe DEF SessionTypes
  <2>6. pipe' \in {[pipe EXCEPT ![writing.to] = ServerCloses(put)],
                   [pipe EXCEPT ![writing.to] = put]}
    BY <1>9, <2>2, <2>4 DEF WriteOut, WriteFrame
  <2>7. ServerCloses(put) \in Pipes
    BY <2>5, EndedPipe
  <2>8. pipe' \in [Streams -> Pipes]
    BY <2>5, <2>6, <2>7 DEF SessionTypes
  <2>9. sent' \in Seq(Carried)
    BY <1>9, <2>3, AppendProperties DEF WriteOut, WriteFrame, SessionTypes
  <2>10. streams' \in Seq(Requests)
    <3>1. streams' = streams \/ streams' = Delete(streams, writing.to)
      BY <1>9 DEF WriteOut, WriteFrame
    <3> QED BY <3>1, DeletedType DEF SessionTypes
  <2> QED BY <1>9, <2>8, <2>9, <2>10 DEF SessionTypes, WriteOut, WriteFrame
<1>10. CASE InitializeAnswered
  <2>1. outbox' \in Seq(Posts \cup Notes)
    BY <1>10, HeadTailProperties DEF InitializeAnswered, SessionTypes
  <2> QED BY <1>10, <2>1 DEF SessionTypes, InitializeAnswered
<1>11. CASE InitializeTimesOut
  <2>1. outbox' \in Seq(Posts \cup Notes)
    BY <1>11, EmptySeq DEF InitializeTimesOut
  <2>2. /\ session' = "closed" /\ serving' = [serving EXCEPT ![Initialize] = "aborted"]
        /\ UNCHANGED <<sink, exchange, emitted, writing, streams, pipe, getVars, logVars>>
    BY <1>11 DEF InitializeTimesOut
  <2> QED BY <2>1, <2>2 DEF SessionTypes
<1>12. ASSUME NEW s \in Streams, NoticeCut(s) PROVE SessionTypes'
  <2>1. pipe' \in [Streams -> Pipes]
    <3>1. PICK e : e = <<>>
      OBVIOUS
    <3>2. e \in Seq(Frames)
      BY <3>1
    <3>3. pipe' = [pipe EXCEPT ![s].held = "cancelled", ![s].frames = e]
      BY <1>12, <3>1 DEF NoticeCut
    <3> QED BY <3>2, <3>3, PipeParts
  <2> QED BY <1>12, <2>1 DEF SessionTypes, NoticeCut
<1>13. CASE Expire
  BY <1>13 DEF SessionTypes, Expire
<1>14. CASE SessionClosed
  <2>1. pipe' \in [Streams -> Pipes]
    <3>1. pipe' = [s \in Streams |-> ServerCloses(pipe[s])]
      BY <1>14 DEF SessionClosed, CloseBodies
    <3>2. \A s \in Streams : ServerCloses(pipe[s]) \in Pipes
      BY EndedPipe DEF SessionTypes
    <3> QED BY <3>1, <3>2
  <2>2. /\ session' = "closed" /\ writing' = NoWrite /\ gated' = FALSE
        /\ UNCHANGED <<sink, exchange, emitted, log>>
        /\ serving' = [r \in Posts |-> IF serving[r] \in {"running", "cancelled"}
                                        THEN "aborted" ELSE serving[r]]
    BY <1>14 DEF SessionClosed, CloseBodies
  <2>3. /\ outbox' \in Seq(Posts \cup Notes) /\ streams' \in Seq(Requests)
        /\ replay' \in Seq(Carried) /\ owed' \in Seq(Carried) /\ sent' \in Seq(Carried)
    BY <1>14, EmptySeq DEF SessionClosed, CloseBodies
  <2>4. serving' \in [Posts -> {"none", "running", "answered", "cancelled", "aborted"}]
    BY <2>2 DEF SessionTypes
  <2> QED BY <2>1, <2>2, <2>3, <2>4 DEF SessionTypes
<1> QED
  BY <1>1, <1>2, <1>3, <1>4, <1>5, <1>6, <1>7, <1>8, <1>9, <1>10, <1>11, <1>12, <1>13, <1>14
  DEF ServerStep

-----------------------------------------------------------------------------
(* The body of the GET. *)

LEMMA GetInitially == HttpInit => GetInv
<1> SUFFICES ASSUME HttpInit PROVE GetInv
  OBVIOUS
<1>1. owed = <<>> /\ sent = <<>> /\ replay = <<>> /\ InFlight = <<>>
  BY NoWriteFields, NamesApart DEF HttpInit, InFlight
<1>2. <<>> \o <<>> \o <<>> = <<>>
  BY EmptySeq, ConcatEmptySeq
<1>3. Get \in Streams
  BY DEF Streams
<1>4. pipe[Get].held # "open"
  BY <1>3, ClosedPipe DEF HttpInit
<1> QED BY <1>1, <1>2, <1>4 DEF GetInv

LEMMA InFlightType == SessionTypes => InFlight \in Seq(Carried)
<1> SUFFICES ASSUME SessionTypes PROVE InFlight \in Seq(Carried)
  OBVIOUS
<1>1. CASE writing.to = Get
  <2>1. writing \in [to : Streams, event : Carried]
    BY <1>1, NoWriteFields, NamesApart DEF SessionTypes
  <2>2. PICK e : e = writing.event
    OBVIOUS
  <2>3. e \in Carried /\ InFlight = <<e>>
    BY <1>1, <2>1, <2>2 DEF InFlight
  <2> QED BY <2>3
<1>2. CASE writing.to # Get
  BY <1>2, EmptySeq DEF InFlight
<1> QED BY <1>1, <1>2

LEMMA OpeningType == Opening \in Seq(Frames)
<1>1. PICK e : e = Event(Get, 1, Nobody)
  OBVIOUS
<1>2. e \in Frames
  BY <1>1 DEF Event, Frames, Streams
<1> QED BY <1>1, <1>2 DEF Opening

\* A step that leaves the body alone, or takes it from the client.
LEMMA GetStays ==
  ASSUME GetInv, UNCHANGED <<owed, sent, replay, gated>>, InFlight' = InFlight,
         pipe'[Get].held = "open" =>
            pipe[Get].held = "open" /\ pipe'[Get].frames = pipe[Get].frames
  PROVE  GetInv'
<1>1. owed' = sent' \o replay' \o InFlight'
  BY DEF GetInv
<1>2. pipe'[Get].held = "open" => Unread'
  BY DEF GetInv, Unread, Opening
<1> QED BY <1>1, <1>2 DEF GetInv

\* Frames go out at the end of the body.
LEMMA GetWritten ==
  ASSUME SessionTypes, GetInv, NEW es \in Seq(Carried), sent' = sent \o es,
         pipe'[Get] = Put(pipe[Get], es)
  PROVE  pipe'[Get].held = "open" => Unread'
<1> SUFFICES ASSUME pipe'[Get].held = "open" PROVE Unread'
  OBVIOUS
<1>1. pipe[Get] \in Pipes /\ sent \in Seq(Frames) /\ es \in Seq(Frames)
  BY CarriedAreFrames, SeqMonotonic DEF SessionTypes, Streams
<1>2. pipe[Get].held = "open" /\ pipe'[Get].frames = pipe[Get].frames \o es
  BY <1>1, FilledPipe
<1>3. PICK read \in Seq(Frames) : Opening \o sent = read \o pipe[Get].frames
  BY <1>2 DEF GetInv, Unread
<1>4. PICK f : f = pipe[Get].frames
  OBVIOUS
<1>5. f \in Seq(Frames)
  BY <1>1, <1>4 DEF Pipes
<1>6. Opening \o (sent \o es) = read \o (f \o es)
  <2>1. PICK first : first = Opening
    OBVIOUS
  <2>2. first \in Seq(Frames) /\ sent \in Seq(Frames) /\ es \in Seq(Frames)
    BY <1>1, <2>1, OpeningType
  <2>3. first \o sent = read \o f
    BY <1>3, <1>4, <2>1
  <2>4. first \o (sent \o es) = read \o (f \o es)
    <3>1. (first \o sent) \o es = first \o (sent \o es)
      BY <2>2, Regroup
    <3>2. (read \o f) \o es = read \o (f \o es)
      BY <1>5, <2>2, Regroup
    <3> QED BY <2>3, <3>1, <3>2
  <2> QED BY <2>1, <2>4
<1>7. Opening \o sent' = read \o pipe'[Get].frames
  BY <1>2, <1>4, <1>6
<1> QED BY <1>7 DEF Unread, Opening

LEMMA ClientGet == SessionTypes /\ GetInv /\ ClientStep => GetInv'
<1> SUFFICES ASSUME SessionTypes, GetInv, ClientStep PROVE GetInv'
  OBVIOUS
<1> USE DEF serverVars, writeVars, getVars, logVars
<1>0. Get \in Streams /\ pipe \in [Streams -> Pipes] /\ pipe[Get] \in Pipes
  BY DEF SessionTypes, Streams
<1>1. UNCHANGED <<owed, sent, replay, gated, writing>>
  BY DEF ClientStep, Post, HeadersBack, PostFails, Reconnect, GetFails, Dispose, ReadEvent,
         ReadEnd, Cut
<1>2. InFlight' = InFlight
  BY <1>1 DEF InFlight
<1>3. CASE pipe'[Get].held = "open" =>
              pipe[Get].held = "open" /\ pipe'[Get].frames = pipe[Get].frames
  BY <1>1, <1>2, <1>3, GetStays
<1>4. CASE pipe' = pipe
  BY <1>3, <1>4
<1>5. CASE PostFails
  <2>1. pipe' = pipe \/ pipe' = [pipe EXCEPT ![sink.of] = ClientLeaves(@)]
    BY <1>5 DEF PostFails
  <2>2. pipe'[Get] = pipe[Get] \/ pipe'[Get] = ClientLeaves(pipe[Get])
    BY <1>0, <2>1
  <2> QED BY <1>0, <1>3, <2>2, LeftPipe
<1>6. CASE Dispose
  <2>1. pipe'[Get] = ClientLeaves(pipe[Get])
    BY <1>0, <1>6 DEF Dispose
  <2> QED BY <1>0, <1>3, <2>1, LeftPipe
<1>7. ASSUME NEW s \in Streams, ReadEnd(s) \/ Cut(s) PROVE GetInv'
  <2>1. pipe' = [pipe EXCEPT ![s] = Closed] \/ pipe' = [pipe EXCEPT ![s] = ClientLeaves(@)]
    BY <1>7 DEF ReadEnd, Cut
  <2>2. pipe'[Get] \in {pipe[Get], Closed, ClientLeaves(pipe[Get])}
    BY <1>0, <2>1
  <2> QED BY <1>0, <1>3, <2>2, LeftPipe, ClosedPipe
<1>8. ASSUME NEW s \in Streams, ReadEvent(s) PROVE GetInv'
  <2>1. CASE s # Get
    <3>1. pipe'[Get] = pipe[Get]
      BY <1>0, <1>8, <2>1 DEF ReadEvent
    <3> QED BY <1>3, <3>1
  <2>2. CASE s = Get
    <3>1. PICK f : f = pipe[Get].frames
      OBVIOUS
    <3>2. f \in Seq(Frames) /\ f # <<>>
      BY <1>0, <1>8, <2>2, <3>1 DEF ReadEvent, Pipes
    <3>3. pipe'[Get] = [pipe[Get] EXCEPT !.frames = Tail(f)]
      BY <1>0, <1>8, <2>2, <3>1 DEF ReadEvent
    <3>4. pipe'[Get].held = pipe[Get].held /\ pipe'[Get].frames = Tail(f)
      BY <1>0, <3>3 DEF Pipes
    <3>5. ASSUME pipe'[Get].held = "open" PROVE Unread'
      <4>1. PICK read \in Seq(Frames) : Opening \o sent = read \o f
        BY <3>1, <3>4, <3>5 DEF GetInv, Unread
      <4>2. /\ Append(read, Head(f)) \in Seq(Frames)
            /\ Append(read, Head(f)) \o Tail(f) = read \o f
        BY <3>2, <4>1, HeadMoves
      <4>3. Opening \o sent' = Append(read, Head(f)) \o pipe'[Get].frames
        BY <1>1, <3>4, <4>1, <4>2
      <4> QED BY <4>2, <4>3 DEF Unread, Opening
    <3> QED BY <1>1, <1>2, <3>5 DEF GetInv
  <2> QED BY <2>1, <2>2
<1>9. \/ pipe' = pipe \/ PostFails \/ Dispose
      \/ \E s \in Streams : ReadEvent(s) \/ ReadEnd(s) \/ Cut(s)
  BY DEF ClientStep, Post, HeadersBack, Reconnect, GetFails
<1> QED BY <1>4, <1>5, <1>6, <1>7, <1>8, <1>9

LEMMA ServerGet == SessionTypes /\ GetInv /\ ServerStep => GetInv'
<1> SUFFICES ASSUME SessionTypes, GetInv, ServerStep PROVE GetInv'
  OBVIOUS
<1> USE DEF clientVars, serverVars, writeVars, getVars, logVars
<1>0. Get \in Streams /\ pipe \in [Streams -> Pipes] /\ pipe[Get] \in Pipes
  BY DEF SessionTypes, Streams
<1>1. ASSUME UNCHANGED <<owed, sent, replay, gated, writing>>,
             pipe'[Get].held = "open" =>
                pipe[Get].held = "open" /\ pipe'[Get].frames = pipe[Get].frames
      PROVE  GetInv'
  <2>1. InFlight' = InFlight
    BY <1>1 DEF InFlight
  <2> QED BY <1>1, <2>1, GetStays
<1>2. ASSUME UNCHANGED <<owed, sent, replay, gated, writing, pipe>> PROVE GetInv'
  BY <1>1, <1>2
<1>3. CASE RequestArrives
  <2>1. sink.of \in Requests /\ sink.of # Get
    <3>1. sink \in [kind : {"request", "cancelled"}, of : Requests]
      BY <1>3, NoMessageKind DEF RequestArrives, SessionTypes, Sinks
    <3> QED BY <3>1, NamesApart
  <2>2. pipe'[Get] = pipe[Get]
    BY <1>0, <1>3, <2>1 DEF RequestArrives
  <2>3. UNCHANGED <<owed, sent, replay, gated, writing>>
    BY <1>3 DEF RequestArrives
  <2> QED BY <1>1, <2>2, <2>3
<1>4. CASE GetArrives
  <2>1. CASE Known
    <3>1. PICK missed : missed = IF cursor = NoEvent.id THEN <<>> ELSE EventsAfter(log, cursor)
      OBVIOUS
    <3>2. missed \in Seq(Carried)
      BY <3>1, SnapshotType DEF SessionTypes
    <3>3. PICK room : room = IF Len(missed) + 1 > HighWater THEN Len(missed) + 1 ELSE HighWater
      OBVIOUS
    <3>4. room \in Nat
      BY <3>2, <3>3, HttpAssumption, LenProperties
    <3>5. /\ pipe' = [pipe EXCEPT ![Get] = Opened(Get, room)]
          /\ replay' = missed /\ owed' = missed /\ sent' = <<>> /\ gated' = TRUE
          /\ writing' = Superseded
      BY <1>4, <2>1, <3>1, <3>3 DEF GetArrives
    <3>6. InFlight' = <<>>
      BY <3>5, NoWriteFields, NamesApart DEF InFlight, Superseded
    <3>7. owed' = sent' \o replay' \o InFlight'
      <4>1. <<>> \o missed = missed /\ missed \o <<>> = missed
        BY <3>2, ConcatEmptySeq
      <4> QED BY <3>5, <3>6, <4>1
    <3>8. pipe'[Get].frames = Opening
      BY <1>0, <3>4, <3>5, OpenedPipe DEF Opening
    <3>9. Unread'
      <4>1. Opening \o <<>> = Opening /\ <<>> \o Opening = Opening
        BY OpeningType, ConcatEmptySeq
      <4>2. Opening \o sent' = <<>> \o pipe'[Get].frames /\ <<>> \in Seq(Frames)
        BY <3>5, <3>8, <4>1, EmptySeq
      <4> QED BY <4>2 DEF Unread, Opening
    <3> QED BY <3>5, <3>7, <3>9 DEF GetInv
  <2>2. CASE ~Known
    BY <1>2, <1>4, <2>2 DEF GetArrives
  <2> QED BY <2>1, <2>2
<1>5. CASE GetReplayed
  <2>1. /\ gated' = FALSE /\ replay' = <<>> /\ sent' = sent \o replay
        /\ pipe' = [pipe EXCEPT ![Get] = Put(@, replay)]
        /\ owed' = owed /\ writing' = writing
    BY <1>5 DEF GetReplayed, OpenGate
  <2>2. sent \in Seq(Carried) /\ replay \in Seq(Carried) /\ InFlight \in Seq(Carried)
    BY InFlightType DEF SessionTypes
  <2>3. InFlight' = InFlight
    BY <2>1 DEF InFlight
  <2>4. (sent \o replay) \o <<>> = sent \o replay
    BY <2>2, Regroup, ConcatEmptySeq
  <2>5. owed' = sent' \o replay' \o InFlight'
    BY <2>1, <2>3, <2>4 DEF GetInv
  <2>6. pipe'[Get] = Put(pipe[Get], replay)
    BY <1>0, <2>1
  <2>7. pipe'[Get].held = "open" => Unread'
    BY <2>1, <2>2, <2>6, GetWritten
  <2> QED BY <2>1, <2>5, <2>7 DEF GetInv
<1>6. CASE TakeOut
  <2>1. PICK m : m = Head(outbox)
    OBVIOUS
  <2>2. outbox # <<>> /\ m # Initialize /\ writing = NoWrite
    BY <1>6, <2>1 DEF TakeOut
  <2>3. m \in (Posts \cup Notes) \ {Initialize}
    BY <2>1, <2>2, HeadTailProperties DEF SessionTypes
  <2>4. PICK to : to = Route(m)
    OBVIOUS
  <2>5. to \in Streams \cup {Nobody} /\ m \in Requests \cup Notes
    BY <2>3, <2>4, Routed
  <2>6. UNCHANGED <<sent, replay, gated>>
    BY <1>6 DEF TakeOut
  <2>7. CASE to = Nobody
    BY <1>2, <1>6, <2>1, <2>4, <2>6, <2>7 DEF TakeOut
  <2>8. CASE to # Nobody
    <3>1. PICK event : event = Event(to, pipe[to].count + 1, m)
      OBVIOUS
    <3>2. to \in Streams /\ event \in Carried
      BY <2>5, <2>8, <3>1, SentEvent
    <3>3. /\ pipe' = [pipe EXCEPT ![to].count = @ + 1]
          /\ writing' = [to |-> to, event |-> event]
          /\ owed' = IF to = Get THEN Append(owed, event) ELSE owed
      BY <1>6, <2>1, <2>4, <2>8, <3>1 DEF TakeOut, Send, Write
    <3>4. InFlight = <<>>
      BY <2>2, NoWriteFields, NamesApart DEF InFlight
    <3>5. pipe'[Get].held = pipe[Get].held /\ pipe'[Get].frames = pipe[Get].frames
      BY <1>0, <3>3 DEF Pipes
    <3>6. pipe'[Get].held = "open" => Unread'
      BY <2>6, <3>5 DEF GetInv, Unread, Opening
    <3>7. owed = sent \o replay /\ sent \o replay \in Seq(Carried) /\ owed \in Seq(Carried)
      <4>1. sent \in Seq(Carried) /\ replay \in Seq(Carried) /\ owed \in Seq(Carried)
        BY DEF SessionTypes
      <4>2. sent \o replay \in Seq(Carried)
        BY <4>1, Regroup
      <4>3. (sent \o replay) \o <<>> = sent \o replay
        BY <4>2, ConcatEmptySeq
      <4> QED BY <3>4, <4>1, <4>2, <4>3 DEF GetInv
    <3>8. owed' = sent' \o replay' \o InFlight'
      <4>1. CASE to = Get
        <5>1. InFlight' = <<event>>
          BY <3>3, <4>1 DEF InFlight
        <5>2. Append(owed, event) = owed \o <<event>>
          BY <3>2, <3>7, AppendIsConcat
        <5> QED BY <2>6, <3>3, <3>7, <4>1, <5>1, <5>2
      <4>2. CASE to # Get
        <5>1. InFlight' = <<>>
          BY <3>3, <4>2 DEF InFlight
        <5> QED BY <2>6, <3>3, <3>4, <4>2, <5>1 DEF GetInv
      <4> QED BY <4>1, <4>2
    <3> QED BY <2>6, <3>6, <3>8 DEF GetInv
  <2> QED BY <2>7, <2>8
<1>7. CASE WriteOut
  <2>1. writing \in [to : Streams, event : Carried]
    BY <1>7 DEF WriteOut, WriteFrame, SessionTypes
  <2>2. PICK es : es = <<writing.event>>
    OBVIOUS
  <2>3. es \in Seq(Carried) /\ writing.to \in Streams /\ writing.event.of \in Requests \cup Notes
    BY <2>1, <2>2 DEF Carried
  <2>4. /\ writing' = NoWrite /\ UNCHANGED <<replay, gated, owed>>
        /\ ~(writing.to = Get /\ gated)
        /\ sent' = IF writing.to = Get THEN Append(sent, writing.event) ELSE sent
        /\ pipe' = [pipe EXCEPT ![writing.to] =
                       IF writing.event.of = writing.to
                       THEN ServerCloses(Put(pipe[writing.to], es))
                       ELSE Put(pipe[writing.to], es)]
    BY <1>7, <2>2 DEF WriteOut, WriteFrame
  <2>5. InFlight' = <<>>
    BY <2>4, NoWriteFields, NamesApart DEF InFlight
  <2>6. CASE writing.to # Get
    <3>1. InFlight' = InFlight /\ sent' = sent
      BY <2>4, <2>5, <2>6 DEF InFlight
    <3>2. pipe'[Get] = pipe[Get]
      BY <1>0, <2>4, <2>6
    <3> QED BY <2>4, <3>1, <3>2, GetStays
  <2>7. CASE writing.to = Get
    <3>1. writing.event.of # Get /\ ~gated
      BY <2>3, <2>4, <2>7, NamesApart
    <3>2. pipe'[Get] = Put(pipe[Get], es)
      BY <1>0, <2>4, <2>7, <3>1
    <3>3. sent \in Seq(Carried) /\ writing.event \in Carried
      BY <2>1 DEF SessionTypes
    <3>4. sent' = sent \o es
      BY <2>2, <2>4, <2>7, <3>3, AppendIsConcat
    <3>5. pipe'[Get].held = "open" => Unread'
      BY <2>3, <3>2, <3>4, GetWritten
    <3>6. owed' = sent' \o replay' \o InFlight'
      <4>1. replay = <<>> /\ InFlight = es
        BY <2>2, <2>7, <3>1 DEF GetInv, InFlight
      <4>2. sent \o <<>> = sent /\ sent \o es \in Seq(Carried)
        BY <2>3, <3>3, ConcatEmptySeq, Regroup
      <4>3. (sent \o es) \o <<>> = sent \o es
        BY <4>2, ConcatEmptySeq
      <4>4. (sent' \o <<>>) \o <<>> = sent \o es
        BY <3>4, <4>3
      <4>5. owed = sent \o es
        BY <4>1, <4>2 DEF GetInv
      <4> QED BY <2>4, <2>5, <4>1, <4>4, <4>5
    <3> QED BY <2>4, <3>1, <3>5, <3>6 DEF GetInv
  <2> QED BY <2>6, <2>7
<1>8. ASSUME NEW s \in Streams, NoticeCut(s) PROVE GetInv'
  <2>1. s # Get => pipe'[Get] = pipe[Get]
    BY <1>0, <1>8 DEF NoticeCut
  <2>2. s = Get => pipe'[Get].held = "cancelled"
    <3>1. s = Get => pipe'[Get] = [pipe[Get] EXCEPT !.held = "cancelled", !.frames = <<>>]
      BY <1>0, <1>8 DEF NoticeCut
    <3> QED BY <1>0, <3>1 DEF Pipes
  <2>3. UNCHANGED <<owed, sent, replay, gated, writing>>
    BY <1>8 DEF NoticeCut
  <2> QED BY <1>1, <2>1, <2>2, <2>3
<1>9. CASE SessionClosed
  <2>1. pipe'[Get] = ServerCloses(pipe[Get])
    BY <1>0, <1>9 DEF SessionClosed, CloseBodies
  <2>2. pipe'[Get].held # "open"
    BY <1>0, <2>1, EndedPipe
  <2>3. owed' = <<>> /\ sent' = <<>> /\ replay' = <<>> /\ writing' = NoWrite
    BY <1>9 DEF SessionClosed, CloseBodies
  <2>4. InFlight' = <<>>
    BY <2>3, NoWriteFields, NamesApart DEF InFlight
  <2>5. <<>> \o <<>> \o <<>> = <<>>
    BY EmptySeq, ConcatEmptySeq
  <2> QED BY <2>2, <2>3, <2>4, <2>5 DEF GetInv
<1>10. \/ UNCHANGED <<owed, sent, replay, gated, writing, pipe>>
       \/ RequestArrives \/ GetArrives \/ GetReplayed \/ TakeOut \/ WriteOut \/ SessionClosed
       \/ \E s \in Streams : NoticeCut(s)
  BY DEF ServerStep, InitializeArrives, NoticeArrives, Answer, Notify, InitializeAnswered,
         InitializeTimesOut, Expire
<1> QED BY <1>2, <1>3, <1>4, <1>5, <1>6, <1>7, <1>8, <1>9, <1>10

-----------------------------------------------------------------------------
(* Requests, answers and notes. *)

LEMMA ServingInitially == HttpInit => ServingInv
<1> SUFFICES ASSUME HttpInit PROVE ServingInv
  OBVIOUS
<1>1. /\ sink = NoMessage /\ serving = [r \in Posts |-> "none"] /\ outbox = <<>> /\ streams = <<>>
      /\ writing = NoWrite /\ emitted = 0 /\ session = "none"
  BY DEF HttpInit
<1>2. Queued = {} /\ Range(streams) = {} /\ IsInjective(outbox) /\ IsInjective(streams)
  BY <1>1 DEF Queued, Range, IsInjective
<1>3. \A r \in Posts \cup Notes : ~AnswerPending(r)
  BY <1>1, <1>2, NoWriteFields, NamesApart DEF AnswerPending, Queued, Posts
<1>4. Unarrived
  BY <1>1, NoMessageKind DEF Unarrived, Posts
<1>5. SaidOnce
  BY <1>1, <1>2, <1>3 DEF SaidOnce
<1>6. HandshakeFirst
  BY <1>1, <1>2 DEF HandshakeFirst, Posts
<1>7. AnswersAtHome
  BY <1>1, NoWriteFields, NamesApart DEF AnswersAtHome
<1>8. BodiesOwed
  BY <1>1, <1>2, <1>3 DEF BodiesOwed, Posts
<1>9. NotesKept
  BY <1>1 DEF NotesKept
<1> QED BY <1>4, <1>5, <1>6, <1>7, <1>8, <1>9 DEF ServingInv

LEMMA PostedRequest ==
  ASSUME SessionTypes, sink.kind = "request"
  PROVE  sink.of \in Requests /\ sink.of \in Posts
<1>1. sink \in [kind : {"request", "cancelled"}, of : Requests]
  BY NoMessageKind DEF SessionTypes, Sinks
<1> QED BY <1>1 DEF Posts

\* A step that says nothing and serves nothing.
LEMMA ServingStays ==
  ASSUME ServingInv, Unarrived',
         UNCHANGED <<serving, outbox, writing, emitted, streams, recorded, unrouted>>,
         session' = session \/ (session = "open" /\ session' = "closing")
  PROVE  ServingInv'
<1>1. SaidOnce'
  BY DEF ServingInv, SaidOnce, Queued, AnswerPending
<1>2. HandshakeFirst'
  BY DEF ServingInv, HandshakeFirst, Queued
<1>3. AnswersAtHome'
  BY DEF ServingInv, AnswersAtHome
<1>4. BodiesOwed'
  BY DEF ServingInv, BodiesOwed, AnswerPending
<1>5. NotesKept'
  BY DEF ServingInv, NotesKept, Queued
<1> QED BY <1>1, <1>2, <1>3, <1>4, <1>5 DEF ServingInv

LEMMA ClientServing == SessionTypes /\ ServingInv /\ ClientStep => ServingInv'
<1> SUFFICES ASSUME SessionTypes, ServingInv, ClientStep PROVE ServingInv'
  OBVIOUS
<1> USE DEF serverVars, writeVars, getVars, logVars
<1>0. Unarrived /\ exchange \in [Posts -> {"idle", "posting", "reading", "done"}]
  BY DEF ServingInv, SessionTypes
<1>1. UNCHANGED <<serving, outbox, writing, emitted, streams, recorded, unrouted>>
  BY DEF ClientStep, Post, HeadersBack, PostFails, Reconnect, GetFails, Dispose, ReadEvent,
         ReadEnd, Cut
<1>2. session' = session \/ (session = "open" /\ session' = "closing")
  BY DEF ClientStep, Post, HeadersBack, PostFails, Reconnect, GetFails, Dispose, ReadEvent,
         ReadEnd, Cut
<1>3. SUFFICES Unarrived'
  BY <1>1, <1>2, ServingStays
<1>4. ASSUME \A r \in Posts : exchange'[r] \in {exchange[r], "reading", "done"},
             sink' = NoMessage \/ (sink' = sink /\ headers' = headers)
      PROVE  Unarrived'
  <2>1. \A r \in Requests : exchange'[r] = "idle" => serving'[r] = "none"
    BY <1>0, <1>1, <1>4 DEF Unarrived, Posts
  <2>2. ASSUME sink'.kind = "request"
        PROVE  exchange'[sink'.of] # "idle" /\ (headers' = "none" => serving'[sink'.of] = "none")
    <3>1. sink' = sink /\ headers' = headers
      BY <1>4, <2>2, NoMessageKind
    <3>2. sink.of \in Posts
      BY <2>2, <3>1, PostedRequest
    <3> QED BY <1>0, <1>1, <1>4, <2>2, <3>1, <3>2 DEF Unarrived
  <2> QED BY <2>1, <2>2 DEF Unarrived
<1>5. ASSUME NEW kind \in {"initialize", "initialized", "request", "cancelled"},
             NEW r \in Posts, Post(kind, r)
      PROVE  Unarrived'
  <2>1. /\ sink' = [kind |-> kind, of |-> r] /\ headers' = headers
        /\ exchange' = [exchange EXCEPT ![r] = "posting"] \/ exchange' = exchange
        /\ kind = "request" => exchange' = [exchange EXCEPT ![r] = "posting"]
        /\ MayPost(kind, r)
    BY <1>5 DEF Post, Message
  <2>2. kind = "request" => r \in Requests /\ exchange[r] = "idle"
    BY <2>1 DEF MayPost
  <2>3. \A q \in Requests : exchange'[q] = "idle" => serving'[q] = "none"
    BY <1>0, <1>1, <2>1 DEF Unarrived, Posts
  <2>4. kind = "request" => exchange'[r] = "posting" /\ serving'[r] = "none"
    BY <1>0, <1>1, <2>1, <2>2 DEF Unarrived
  <2> QED BY <2>1, <2>3, <2>4 DEF Unarrived
<1>6. CASE HeadersBack
  <2>1. exchange' \in {exchange, [exchange EXCEPT ![sink.of] = "done"],
                       [exchange EXCEPT ![sink.of] = "reading"]}
    BY <1>6 DEF HeadersBack, Tell
  <2>2. sink' = NoMessage
    BY <1>6 DEF HeadersBack
  <2> QED BY <1>0, <1>4, <2>1, <2>2
<1>7. CASE PostFails
  <2>1. exchange' \in {exchange, [exchange EXCEPT ![sink.of] = "done"]}
    BY <1>7 DEF PostFails, Tell
  <2>2. sink' = NoMessage
    BY <1>7 DEF PostFails
  <2> QED BY <1>0, <1>4, <2>1, <2>2
<1>8. CASE Reconnect \/ GetFails
  BY <1>0, <1>4, <1>8 DEF Reconnect, GetFails
<1>9. CASE Dispose
  BY <1>0, <1>4, <1>9 DEF Dispose
<1>10. ASSUME NEW s \in Streams, ReadEvent(s) PROVE Unarrived'
  <2>1. PICK e : e = Head(pipe[s].frames)
    OBVIOUS
  <2>2. exchange' \in {exchange, [exchange EXCEPT ![e.of] = "done"]}
    BY <1>10, <2>1 DEF ReadEvent, HandOn, Tell
  <2>3. sink' = sink /\ headers' = headers
    BY <1>10 DEF ReadEvent
  <2> QED BY <1>0, <1>4, <2>2, <2>3
<1>11. ASSUME NEW s \in Streams, ReadEnd(s) \/ Cut(s) PROVE Unarrived'
  <2>1. exchange' \in {exchange, [exchange EXCEPT ![s] = "done"]}
    BY <1>11 DEF ReadEnd, Cut, BodyEnds, Tell
  <2>2. sink' = sink /\ headers' = headers
    BY <1>11 DEF ReadEnd, Cut
  <2> QED BY <1>0, <1>4, <2>1, <2>2
<1> QED BY <1>5, <1>6, <1>7, <1>8, <1>9, <1>10, <1>11 DEF ClientStep

\* The handshake.
LEMMA InitializeServing ==
  SessionTypes /\ ServingInv /\ (InitializeArrives \/ InitializeAnswered \/ InitializeTimesOut)
    => ServingInv'
<1> SUFFICES ASSUME SessionTypes, ServingInv,
                    InitializeArrives \/ InitializeAnswered \/ InitializeTimesOut
             PROVE  ServingInv'
  OBVIOUS
<1> USE DEF writeVars, getVars, logVars
<1>0. /\ Unarrived /\ SaidOnce /\ HandshakeFirst /\ AnswersAtHome /\ BodiesOwed /\ NotesKept
      /\ serving \in [Posts -> {"none", "running", "answered", "cancelled", "aborted"}]
      /\ outbox \in Seq(Posts \cup Notes)
  BY DEF ServingInv, SessionTypes
<1>1. UNCHANGED <<exchange, sink, writing, emitted, streams, recorded, unrouted>>
  BY DEF InitializeArrives, InitializeAnswered, InitializeTimesOut
<1>2. AnswersAtHome'
  BY <1>0, <1>1 DEF AnswersAtHome
<1>3. \A r \in Requests : serving'[r] = serving[r]
  BY <1>0, NamesApart DEF InitializeArrives, InitializeAnswered, InitializeTimesOut, Posts
<1>4. Unarrived'
  <2>1. headers' = headers \/ sink.kind = "initialize"
    BY DEF InitializeArrives, InitializeAnswered, InitializeTimesOut
  <2>2. sink.kind = "request" => sink.of \in Requests
    BY PostedRequest
  <2> QED BY <1>0, <1>1, <1>3, <2>1, <2>2 DEF Unarrived
<1>5. writing.event.of # Initialize
  BY WritingFields, NamesApart
<1>6. CASE InitializeArrives
  <2>1. /\ session = "none" /\ outbox' = outbox
        /\ \/ session' = "opening" /\ serving' = [serving EXCEPT ![Initialize] = "running"]
           \/ session' = "closed" /\ serving' = serving
    BY <1>6 DEF InitializeArrives
  <2>2. outbox = <<>> /\ Queued = {} /\ Queued' = {} /\ serving[Initialize] # "running"
    BY <1>0, <2>1 DEF HandshakeFirst, Queued, Range
  <2>3. SaidOnce'
    BY <1>0, <1>1, <1>3, <1>5, <2>1, <2>2 DEF SaidOnce, AnswerPending, Queued, Posts
  <2>4. HandshakeFirst'
    BY <2>1, <2>2 DEF HandshakeFirst
  <2>5. BodiesOwed'
    BY <1>0, <1>1, <1>3, <2>1 DEF BodiesOwed, AnswerPending
  <2>6. NotesKept'
    BY <1>0, <1>1, <2>1, <2>2 DEF NotesKept
  <2> QED BY <1>2, <1>4, <2>3, <2>4, <2>5, <2>6 DEF ServingInv
<1>7. CASE InitializeAnswered
  <2>1. /\ outbox # <<>> /\ Head(outbox) = Initialize /\ outbox' = Tail(outbox)
        /\ session' = "open" /\ serving' = serving
    BY <1>7 DEF InitializeAnswered
  <2>2. /\ Queued = Queued' \cup {Initialize} /\ Initialize \notin Queued'
        /\ IsInjective(outbox')
    BY <1>0, <2>1, RangeOfTail DEF Queued, SaidOnce
  <2>3. serving[Initialize] = "answered"
    BY <1>0, <2>2 DEF SaidOnce, AnswerPending, Queued, Posts
  <2>4. session = "opening"
    BY <1>0, <2>2 DEF HandshakeFirst
  <2>5. SaidOnce'
    BY <1>0, <1>1, <2>1, <2>2 DEF SaidOnce, AnswerPending, Queued
  <2>6. HandshakeFirst'
    BY <2>1, <2>2, <2>3 DEF HandshakeFirst
  <2>7. BodiesOwed'
    BY <1>0, <1>1, <2>1, <2>2, <2>4, NamesApart DEF BodiesOwed, AnswerPending, Queued
  <2>8. NotesKept'
    <3>1. \A n \in 1..emitted : n # Initialize
      <4>1. emitted \in 0..NoteCount
        BY DEF SessionTypes
      <4>2. \A n \in 1..emitted : n \in Notes
        BY <4>1, HttpAssumption DEF Notes
      <4> QED BY <4>2, NamesApart
    <3> QED BY <1>0, <1>1, <2>1, <2>2, <2>4, <3>1 DEF NotesKept
  <2> QED BY <1>2, <1>4, <2>5, <2>6, <2>7, <2>8 DEF ServingInv
<1>8. CASE InitializeTimesOut
  <2>1. session' = "closed" /\ outbox' = <<>> /\ serving' = [serving EXCEPT ![Initialize] = "aborted"]
    BY <1>8 DEF InitializeTimesOut
  <2>2. Queued' = {} /\ IsInjective(outbox')
    BY <2>1 DEF Queued, Range, IsInjective
  <2>3. serving'[Initialize] # "running"
    BY <1>0, <2>1 DEF Posts
  <2>4. SaidOnce'
    BY <1>0, <1>1, <1>3, <1>5, <2>2 DEF SaidOnce, AnswerPending, Queued, Posts
  <2>5. HandshakeFirst'
    BY <2>1, <2>2, <2>3 DEF HandshakeFirst
  <2>6. BodiesOwed' /\ NotesKept'
    BY <1>0, <1>1, <2>1 DEF BodiesOwed, NotesKept
  <2> QED BY <1>2, <1>4, <2>4, <2>5, <2>6 DEF ServingInv
<1> QED BY <1>6, <1>7, <1>8

LEMMA RequestServing == SessionTypes /\ ServingInv /\ RequestArrives => ServingInv'
<1> SUFFICES ASSUME SessionTypes, ServingInv, RequestArrives PROVE ServingInv'
  OBVIOUS
<1> USE DEF writeVars, getVars, logVars
<1>0. /\ Unarrived /\ SaidOnce /\ HandshakeFirst /\ AnswersAtHome /\ BodiesOwed /\ NotesKept
      /\ serving \in [Posts -> {"none", "running", "answered", "cancelled", "aborted"}]
      /\ streams \in Seq(Requests)
  BY DEF ServingInv, SessionTypes
<1>1. UNCHANGED <<exchange, sink, outbox, writing, emitted, session, recorded, unrouted>>
  BY DEF RequestArrives
<1>2. PICK q : q = sink.of
  OBVIOUS
<1>3. q \in Requests /\ q \in Posts /\ exchange[q] # "idle" /\ serving[q] = "none"
  BY <1>0, <1>2, PostedRequest DEF RequestArrives, Unarrived
<1>4. CASE Known
  <2>1. /\ headers' = "stream" /\ serving' = [serving EXCEPT ![q] = "running"]
        /\ streams' = Append(streams, q) /\ session = "open"
    BY <1>2, <1>4 DEF RequestArrives, Known
  <2>2. ~AnswerPending(q)
    BY <1>0, <1>3 DEF SaidOnce
  <2>3. q \notin Range(streams)
    BY <1>0, <1>3, <2>1, <2>2 DEF BodiesOwed
  <2>4. Range(streams') = Range(streams) \cup {q} /\ IsInjective(streams')
    BY <1>0, <1>3, <2>1, <2>3, RangeOfAppend DEF BodiesOwed
  <2>5. /\ serving'[q] = "running"
        /\ \A r \in Posts : r # q => serving'[r] = serving[r]
    BY <1>0, <1>3, <2>1
  <2>6. Unarrived'
    BY <1>0, <1>1, <1>3, <2>1, <2>5 DEF Unarrived, Posts
  <2>7. SaidOnce'
    BY <1>0, <1>1, <2>2, <2>5 DEF SaidOnce, AnswerPending, Queued
  <2>8. HandshakeFirst'
    BY <1>0, <1>1, <1>3, <2>5, NamesApart DEF HandshakeFirst, Queued, Posts
  <2>9. BodiesOwed'
    BY <1>0, <1>1, <2>4, <2>5 DEF BodiesOwed, AnswerPending, Posts
  <2>10. AnswersAtHome' /\ NotesKept'
    BY <1>0, <1>1 DEF AnswersAtHome, NotesKept, Queued
  <2> QED BY <2>6, <2>7, <2>8, <2>9, <2>10 DEF ServingInv
<1>5. CASE ~Known
  <2>1. headers' # "none" /\ serving' = serving /\ streams' = streams
    BY <1>5 DEF RequestArrives, Missing
  <2>2. Unarrived'
    BY <1>0, <1>1, <2>1 DEF Unarrived
  <2> QED BY <1>1, <2>1, <2>2, ServingStays
<1> QED BY <1>4, <1>5

LEMMA NoticeServing == SessionTypes /\ ServingInv /\ NoticeArrives => ServingInv'
<1> SUFFICES ASSUME SessionTypes, ServingInv, NoticeArrives PROVE ServingInv'
  OBVIOUS
<1> USE DEF writeVars, getVars, logVars
<1>0. /\ Unarrived /\ SaidOnce /\ HandshakeFirst /\ AnswersAtHome /\ BodiesOwed /\ NotesKept
      /\ serving \in [Posts -> {"none", "running", "answered", "cancelled", "aborted"}]
  BY DEF ServingInv, SessionTypes
<1>1. UNCHANGED <<exchange, sink, outbox, writing, emitted, session, streams, recorded, unrouted>>
  BY DEF NoticeArrives
<1>2. \A r \in Posts : \/ serving'[r] = serving[r]
                       \/ serving[r] = "running" /\ serving'[r] = "cancelled"
  BY <1>0 DEF NoticeArrives
<1>3. sink'.kind # "request"
  BY <1>1 DEF NoticeArrives
<1>4. Unarrived'
  BY <1>0, <1>1, <1>2, <1>3 DEF Unarrived, Posts
<1>5. SaidOnce'
  BY <1>0, <1>1, <1>2 DEF SaidOnce, AnswerPending, Queued
<1>6. HandshakeFirst'
  BY <1>0, <1>1, <1>2 DEF HandshakeFirst, Queued, Posts
<1>7. BodiesOwed'
  BY <1>0, <1>1, <1>2 DEF BodiesOwed, AnswerPending, Posts
<1>8. AnswersAtHome' /\ NotesKept'
  BY <1>0, <1>1 DEF AnswersAtHome, NotesKept, Queued
<1> QED BY <1>4, <1>5, <1>6, <1>7, <1>8 DEF ServingInv

\* A GET that replaces another drops at most a note that is in the log.
LEMMA GetServing == SessionTypes /\ ServingInv /\ GetArrives => ServingInv'
<1> SUFFICES ASSUME SessionTypes, ServingInv, GetArrives PROVE ServingInv'
  OBVIOUS
<1> USE DEF writeVars, getVars, logVars
<1>0. /\ Unarrived /\ SaidOnce /\ HandshakeFirst /\ AnswersAtHome /\ BodiesOwed /\ NotesKept
      /\ outbox \in Seq(Posts \cup Notes)
  BY DEF ServingInv, SessionTypes
<1>1. UNCHANGED <<exchange, sink, headers, serving, outbox, emitted, session, streams, recorded,
                  unrouted>>
  BY DEF GetArrives
<1>2. Unarrived' /\ HandshakeFirst' /\ NotesKept'
  BY <1>0, <1>1 DEF Unarrived, HandshakeFirst, NotesKept, Queued
<1>3. CASE writing' = writing
  BY <1>0, <1>1, <1>2, <1>3
  DEF ServingInv, SaidOnce, AnswersAtHome, BodiesOwed, AnswerPending, Queued
<1>4. CASE writing.to = Get /\ writing' = NoWrite
  <2>1. writing'.event.of = Nobody /\ writing.event.of \notin Requests
    BY <1>0, <1>4, NoWriteFields, NamesApart DEF AnswersAtHome
  <2>2. Nobody \notin Queued
    <3>1. \A i \in DOMAIN outbox : outbox[i] \in Posts \cup Notes
      BY <1>0, ElementOfSeq, LenProperties
    <3> QED BY <3>1, NamesApart DEF Queued, Range, Posts
  <2>3. \A x \in Posts \cup Notes : AnswerPending(x)' => AnswerPending(x)
    BY <1>1, <2>1, NamesApart DEF AnswerPending, Posts
  <2>4. \A x \in Requests : AnswerPending(x) => AnswerPending(x)'
    BY <1>1, <2>1 DEF AnswerPending
  <2>5. SaidOnce'
    BY <1>0, <1>1, <2>1, <2>2, <2>3 DEF SaidOnce, Queued
  <2>6. AnswersAtHome'
    BY <2>1, NamesApart DEF AnswersAtHome
  <2>7. BodiesOwed'
    BY <1>0, <1>1, <2>3, <2>4 DEF BodiesOwed, Posts
  <2> QED BY <1>2, <2>5, <2>6, <2>7 DEF ServingInv
<1> QED BY <1>3, <1>4 DEF GetArrives, Superseded

LEMMA AnswerServing ==
  ASSUME SessionTypes, ServingInv, NEW q \in Posts, Answer(q)
  PROVE  ServingInv'
<1> USE DEF clientVars, getVars, logVars
<1>0. /\ Unarrived /\ SaidOnce /\ HandshakeFirst /\ AnswersAtHome /\ BodiesOwed /\ NotesKept
      /\ serving \in [Posts -> {"none", "running", "answered", "cancelled", "aborted"}]
      /\ outbox \in Seq(Posts \cup Notes)
  BY DEF ServingInv, SessionTypes
<1>1. /\ serving[q] = "running" /\ session \in {"opening", "open", "closing"}
      /\ serving' = [serving EXCEPT ![q] = "answered"] /\ outbox' = Append(outbox, q)
      /\ UNCHANGED <<exchange, sink, headers, writing, emitted, session, streams, recorded, unrouted>>
  BY DEF Answer
<1>2. ~AnswerPending(q) /\ q \notin Queued
  BY <1>0, <1>1 DEF SaidOnce, AnswerPending, Queued
<1>3. Queued' = Queued \cup {q} /\ IsInjective(outbox')
  BY <1>0, <1>1, <1>2, RangeOfAppend DEF Queued, SaidOnce
<1>4. serving'[q] = "answered" /\ \A r \in Posts : r # q => serving'[r] = serving[r]
  BY <1>0, <1>1
<1>5. \A x : AnswerPending(x)' <=> AnswerPending(x) \/ x = q
  BY <1>1, <1>3 DEF AnswerPending, Queued
<1>6. Unarrived'
  <2>1. sink.kind = "request" => sink.of \in Posts
    BY PostedRequest
  <2> QED BY <1>0, <1>1, <1>4, <2>1 DEF Unarrived, Posts
<1>7. SaidOnce'
  <2>1. \A r \in Posts : AnswerPending(r)' => serving'[r] = "answered"
    BY <1>0, <1>4, <1>5 DEF SaidOnce
  <2>2. \A n \in Notes : AnswerPending(n)' => n <= emitted'
    BY <1>0, <1>1, <1>5, NamesApart DEF SaidOnce, Posts
  <2>3. writing'.event.of \notin Queued'
    BY <1>0, <1>1, <1>2, <1>3 DEF SaidOnce, AnswerPending
  <2> QED BY <1>3, <2>1, <2>2, <2>3 DEF SaidOnce
<1>8. HandshakeFirst'
  BY <1>0, <1>1, <1>3, <1>4 DEF HandshakeFirst, Posts
<1>9. BodiesOwed'
  BY <1>0, <1>1, <1>4, <1>5 DEF BodiesOwed, Posts
<1>10. AnswersAtHome' /\ NotesKept'
  BY <1>0, <1>1, <1>3 DEF AnswersAtHome, NotesKept
<1> QED BY <1>6, <1>7, <1>8, <1>9, <1>10 DEF ServingInv

LEMMA NotifyServing == SessionTypes /\ ServingInv /\ Notify => ServingInv'
<1> SUFFICES ASSUME SessionTypes, ServingInv, Notify PROVE ServingInv'
  OBVIOUS
<1> USE DEF clientVars, getVars, logVars
<1>0. /\ Unarrived /\ SaidOnce /\ HandshakeFirst /\ AnswersAtHome /\ BodiesOwed /\ NotesKept
      /\ outbox \in Seq(Posts \cup Notes) /\ emitted \in 0..NoteCount
  BY DEF ServingInv, SessionTypes
<1>1. /\ session = "open" /\ emitted' = emitted + 1 /\ emitted < NoteCount
      /\ outbox' = Append(outbox, emitted')
      /\ UNCHANGED <<exchange, sink, headers, serving, writing, session, streams, recorded, unrouted>>
  BY DEF Notify
<1>2. PICK n : n = emitted + 1
  OBVIOUS
<1>3. n \in Notes /\ n \notin Posts /\ ~(n <= emitted) /\ emitted \in Nat
  <2>1. n \in Notes /\ ~(n <= emitted) /\ emitted \in Nat
    BY <1>0, <1>1, <1>2, HttpAssumption DEF Notes
  <2> QED BY <2>1, NamesApart DEF Posts
<1>4. ~AnswerPending(n) /\ n \notin Queued
  BY <1>0, <1>3 DEF SaidOnce, AnswerPending, Queued
<1>5. Queued' = Queued \cup {n} /\ IsInjective(outbox')
  BY <1>0, <1>1, <1>2, <1>3, <1>4, RangeOfAppend DEF Queued, SaidOnce
<1>6. \A x : AnswerPending(x)' <=> AnswerPending(x) \/ x = n
  BY <1>1, <1>5 DEF AnswerPending, Queued
<1>7. SaidOnce'
  <2>1. \A r \in Posts : AnswerPending(r)' => serving'[r] = "answered"
    BY <1>0, <1>1, <1>3, <1>6 DEF SaidOnce
  <2>2. \A k \in Notes : AnswerPending(k)' => k <= emitted'
    <3>1. SUFFICES ASSUME NEW k \in Notes, AnswerPending(k)' PROVE k <= emitted + 1
      BY <1>1
    <3>2. k \in Nat
      BY HttpAssumption DEF Notes
    <3>3. k <= emitted \/ k = n
      BY <1>0, <1>6, <3>1 DEF SaidOnce
    <3> QED BY <1>2, <1>3, <3>2, <3>3
  <2>3. writing'.event.of \notin Queued'
    BY <1>0, <1>1, <1>4, <1>5 DEF SaidOnce, AnswerPending
  <2> QED BY <1>5, <2>1, <2>2, <2>3 DEF SaidOnce
<1>8. HandshakeFirst'
  BY <1>0, <1>1, <1>3, <1>5, NamesApart DEF HandshakeFirst
<1>9. BodiesOwed'
  BY <1>0, <1>1, <1>3, <1>6 DEF BodiesOwed, Posts
<1>10. NotesKept'
  <2>1. \A k \in 1..emitted' : k \in 1..emitted \/ k = n
    BY <1>1, <1>2, <1>3
  <2> QED BY <1>0, <1>1, <1>5, <2>1 DEF NotesKept
<1>11. Unarrived' /\ AnswersAtHome'
  BY <1>0, <1>1 DEF Unarrived, AnswersAtHome
<1> QED BY <1>7, <1>8, <1>9, <1>10, <1>11 DEF ServingInv

\* The oldest message leaves the queue for the stream it belongs to.
LEMMA TakeOutServing == SessionTypes /\ ServingInv /\ TakeOut => ServingInv'
<1> SUFFICES ASSUME SessionTypes, ServingInv, TakeOut PROVE ServingInv'
  OBVIOUS
<1> USE DEF clientVars, getVars, logVars
<1>0. /\ Unarrived /\ SaidOnce /\ HandshakeFirst /\ AnswersAtHome /\ BodiesOwed /\ NotesKept
      /\ outbox \in Seq(Posts \cup Notes) /\ emitted \in 0..NoteCount
  BY DEF ServingInv, SessionTypes
<1>1. PICK m : m = Head(outbox)
  OBVIOUS
<1>2. /\ outbox # <<>> /\ m # Initialize /\ writing = NoWrite /\ outbox' = Tail(outbox)
      /\ UNCHANGED <<exchange, sink, headers, serving, emitted, session, streams>>
  BY <1>1 DEF TakeOut
<1>3. /\ m \in (Posts \cup Notes) \ {Initialize} /\ m \in Queued
      /\ Queued = Queued' \cup {m} /\ m \notin Queued' /\ IsInjective(outbox')
  <2>1. /\ Head(outbox) \in Posts \cup Notes /\ Range(outbox) = Range(Tail(outbox)) \cup {Head(outbox)}
        /\ IsInjective(outbox) => IsInjective(Tail(outbox)) /\ Head(outbox) \notin Range(Tail(outbox))
    BY <1>0, <1>2, RangeOfTail
  <2> QED BY <1>0, <1>1, <1>2, <2>1 DEF SaidOnce, Queued
<1>4. PICK to : to = Route(m)
  OBVIOUS
<1>5. /\ to \in Streams \cup {Nobody} /\ m \in Requests \cup Notes
      /\ m \in Requests => to = m
  <2>1. /\ to \in Streams \cup {Nobody} /\ m \in Requests \cup Notes
        /\ m \in Requests => to = IF m \in Range(streams) THEN m ELSE Nobody
    BY <1>3, <1>4, Routed
  <2>2. session # "closed" /\ AnswerPending(m)
    BY <1>0, <1>2, <1>3 DEF HandshakeFirst, AnswerPending, Queued
  <2>3. m \in Requests => m \in Range(streams)
    BY <1>0, <2>2 DEF BodiesOwed
  <2> QED BY <2>1, <2>3
<1>6. writing.event.of = Nobody
  BY <1>2, NoWriteFields
<1>7. Unarrived' /\ HandshakeFirst'
  <2>1. session \notin {"none", "closed"}
    BY <1>0, <1>2 DEF HandshakeFirst
  <2> QED BY <1>0, <1>2, <1>3, <2>1 DEF Unarrived, HandshakeFirst
<1>8. Nobody \notin Queued
  <2>1. \A i \in DOMAIN outbox : outbox[i] \in Posts \cup Notes
    BY <1>0, ElementOfSeq, LenProperties
  <2> QED BY <2>1, NamesApart DEF Queued, Range, Posts
<1>9. CASE to = Nobody
  <2>1. writing' = NoWrite /\ recorded' = recorded /\ unrouted' = unrouted \cup {m}
    BY <1>1, <1>2, <1>4, <1>9 DEF TakeOut
  <2>2. m \notin Requests
    BY <1>5, <1>9, NamesApart
  <2>3. \A x \in Posts \cup Notes : AnswerPending(x)' <=> AnswerPending(x) /\ x # m
    BY <1>2, <1>3, <1>6, <2>1, NamesApart DEF AnswerPending, Queued, Posts
  <2>4. SaidOnce'
    BY <1>0, <1>2, <1>3, <1>6, <1>8, <2>1, <2>3 DEF SaidOnce
  <2>5. AnswersAtHome'
    BY <1>6, <1>2, <2>1, NamesApart DEF AnswersAtHome
  <2>6. BodiesOwed'
    BY <1>0, <1>2, <2>2, <2>3 DEF BodiesOwed, Posts
  <2>7. NotesKept'
    BY <1>0, <1>2, <1>3, <2>1 DEF NotesKept
  <2> QED BY <1>7, <2>4, <2>5, <2>6, <2>7 DEF ServingInv
<1>10. CASE to # Nobody
  <2>1. PICK event : event = Event(to, pipe[to].count + 1, m)
    OBVIOUS
  <2>2. /\ writing' = [to |-> to, event |-> event] /\ event.of = m
        /\ recorded' = recorded \cup {m} /\ unrouted' = unrouted
    BY <1>1, <1>4, <1>10, <2>1 DEF TakeOut, Send, Write, Event
  <2>3. writing'.event.of = m /\ writing'.to = to
    BY <2>2
  <2>4. \A x \in Posts \cup Notes : AnswerPending(x)' <=> AnswerPending(x)
    BY <1>3, <1>6, <2>3, NamesApart DEF AnswerPending, Queued, Posts
  <2>5. SaidOnce'
    BY <1>0, <1>2, <1>3, <2>3, <2>4 DEF SaidOnce
  <2>6. AnswersAtHome'
    BY <1>5, <2>3 DEF AnswersAtHome
  <2>7. BodiesOwed'
    BY <1>0, <1>2, <2>4 DEF BodiesOwed, Posts
  <2>8. NotesKept'
    BY <1>0, <1>2, <1>3, <2>2 DEF NotesKept
  <2> QED BY <1>7, <2>5, <2>6, <2>7, <2>8 DEF ServingInv
<1> QED BY <1>9, <1>10

\* The frame of an answer takes its body out of the Map.
LEMMA WriteOutServing == SessionTypes /\ ServingInv /\ WriteOut => ServingInv'
<1> SUFFICES ASSUME SessionTypes, ServingInv, WriteOut PROVE ServingInv'
  OBVIOUS
<1> USE DEF clientVars, getVars, logVars
<1>0. /\ Unarrived /\ SaidOnce /\ HandshakeFirst /\ AnswersAtHome /\ BodiesOwed /\ NotesKept
      /\ outbox \in Seq(Posts \cup Notes) /\ streams \in Seq(Requests)
  BY DEF ServingInv, SessionTypes
<1>1. PICK m : m = writing.event.of
  OBVIOUS
<1>2. /\ writing # NoWrite /\ writing' = NoWrite
      /\ UNCHANGED <<exchange, sink, headers, serving, outbox, emitted, session, recorded, unrouted>>
      /\ streams' = IF m = writing.to THEN Delete(streams, writing.to) ELSE streams
  BY <1>1 DEF WriteOut, WriteFrame
<1>3. writing.to \in Streams /\ m \in Requests \cup Notes
  BY <1>1, <1>2, WritingFields
<1>4. writing'.event.of = Nobody /\ writing'.to = Nobody
  BY <1>2, NoWriteFields
<1>5. Nobody \notin Queued
  <2>1. \A i \in DOMAIN outbox : outbox[i] \in Posts \cup Notes
    BY <1>0, ElementOfSeq, LenProperties
  <2> QED BY <2>1, NamesApart DEF Queued, Range, Posts
<1>6. m \notin Queued /\ Queued' = Queued
  BY <1>0, <1>1, <1>2 DEF SaidOnce, Queued
<1>7. \A x \in Posts \cup Notes : AnswerPending(x)' <=> AnswerPending(x) /\ x # m
  BY <1>1, <1>4, <1>6, NamesApart DEF AnswerPending, Queued, Posts
<1>8. Unarrived' /\ HandshakeFirst' /\ NotesKept'
  BY <1>0, <1>2, <1>6 DEF Unarrived, HandshakeFirst, NotesKept
<1>9. AnswersAtHome'
  BY <1>4, NamesApart DEF AnswersAtHome
<1>10. SaidOnce'
  BY <1>0, <1>2, <1>4, <1>5, <1>6, <1>7 DEF SaidOnce
<1>11. BodiesOwed'
  <2>1. CASE m \in Notes
    <3>1. m \notin Requests /\ writing.to # m
      BY <1>3, <2>1, NamesApart DEF Streams
    <3> QED BY <1>0, <1>2, <1>7, <3>1 DEF BodiesOwed, Posts
  <2>2. CASE m \in Requests
    <3>1. writing.to = m /\ m \in Posts /\ AnswerPending(m)
      BY <1>0, <1>1, <2>2 DEF AnswersAtHome, AnswerPending, Posts
    <3>2. Range(streams') = Range(streams) \ {m} /\ IsInjective(streams')
      BY <1>0, <1>2, <3>1, Deleted DEF BodiesOwed
    <3>3. serving[m] = "answered"
      BY <1>0, <3>1 DEF SaidOnce
    <3> QED BY <1>0, <1>2, <1>7, <3>2, <3>3 DEF BodiesOwed, Posts
  <2> QED BY <1>3, <2>1, <2>2
<1> QED BY <1>8, <1>9, <1>10, <1>11 DEF ServingInv

LEMMA ClosedServing == SessionTypes /\ ServingInv /\ SessionClosed => ServingInv'
<1> SUFFICES ASSUME SessionTypes, ServingInv, SessionClosed PROVE ServingInv'
  OBVIOUS
<1> USE DEF logVars
<1>0. /\ Unarrived
      /\ serving \in [Posts -> {"none", "running", "answered", "cancelled", "aborted"}]
  BY DEF ServingInv, SessionTypes
<1>1. /\ session' = "closed" /\ outbox' = <<>> /\ writing' = NoWrite /\ streams' = <<>>
      /\ UNCHANGED <<exchange, sink, headers, emitted>>
      /\ serving' = [r \in Posts |-> IF serving[r] \in {"running", "cancelled"}
                                     THEN "aborted" ELSE serving[r]]
  BY DEF SessionClosed, CloseBodies
<1>2. /\ Queued' = {} /\ Range(streams') = {} /\ IsInjective(outbox') /\ IsInjective(streams')
      /\ writing'.event.of = Nobody
  BY <1>1, NoWriteFields DEF Queued, Range, IsInjective
<1>3. \A r \in Posts : /\ serving'[r] # "running"
                       /\ serving[r] = "none" => serving'[r] = "none"
  BY <1>0, <1>1
<1>4. Unarrived'
  <2>1. sink.kind = "request" => sink.of \in Posts
    BY PostedRequest
  <2> QED BY <1>0, <1>1, <1>3, <2>1 DEF Unarrived, Posts
<1>5. SaidOnce'
  <2>1. \A x \in Posts \cup Notes : ~AnswerPending(x)'
    BY <1>2, NamesApart DEF AnswerPending, Queued, Posts
  <2> QED BY <1>2, <2>1 DEF SaidOnce
<1>6. HandshakeFirst'
  BY <1>1, <1>2, <1>3 DEF HandshakeFirst, Posts
<1>7. AnswersAtHome'
  BY <1>2, NamesApart DEF AnswersAtHome
<1>8. BodiesOwed' /\ NotesKept'
  BY <1>1, <1>2 DEF BodiesOwed, NotesKept
<1> QED BY <1>4, <1>5, <1>6, <1>7, <1>8 DEF ServingInv

LEMMA ServerServing == SessionTypes /\ ServingInv /\ ServerStep => ServingInv'
<1> SUFFICES ASSUME SessionTypes, ServingInv, ServerStep PROVE ServingInv'
  OBVIOUS
<1>1. CASE InitializeArrives \/ InitializeAnswered \/ InitializeTimesOut
  BY <1>1, InitializeServing
<1>2. CASE RequestArrives \/ NoticeArrives \/ GetArrives
  BY <1>2, RequestServing, NoticeServing, GetServing
<1>3. ASSUME NEW q \in Posts, Answer(q) PROVE ServingInv'
  BY <1>3, AnswerServing
<1>4. CASE Notify \/ TakeOut \/ WriteOut \/ SessionClosed
  BY <1>4, NotifyServing, TakeOutServing, WriteOutServing, ClosedServing
<1>5. ASSUME GetReplayed \/ Expire \/ \E s \in Streams : NoticeCut(s) PROVE ServingInv'
  <2>1. /\ UNCHANGED <<exchange, sink, headers, serving, outbox, writing, emitted, streams,
                       recorded, unrouted>>
        /\ session' = session \/ (session = "open" /\ session' = "closing")
    BY <1>5 DEF GetReplayed, OpenGate, Expire, NoticeCut, clientVars, serverVars, writeVars,
                getVars, logVars
  <2>2. Unarrived'
    BY <2>1 DEF ServingInv, Unarrived
  <2> QED BY <2>1, <2>2, ServingStays
<1> QED BY <1>1, <1>2, <1>3, <1>4, <1>5 DEF ServerStep

-----------------------------------------------------------------------------
(* The properties. *)

LEMMA PrefixOfConcat ==
  ASSUME NEW S, NEW a \in Seq(S), NEW b \in Seq(S)
  PROVE  IsPrefix(a, a \o b)
<1>1. Len(a) \in Nat /\ Len(b) \in Nat /\ Len(a \o b) = Len(a) + Len(b)
  BY LenProperties, ConcatProperties
<1>2. CASE Len(a) = 0
  <2>1. SubSeq(a, 1, Len(a)) = <<>> /\ SubSeq(a \o b, 1, Len(a)) = <<>>
    BY <1>2, SubSeqEmpty
  <2> QED BY <1>1, <1>2, <2>1 DEF IsPrefix
<1>3. CASE Len(a) # 0
  <2>1. 1 \in 1..Len(a) /\ Len(a) \in 1..Len(a)
    BY <1>1, <1>3
  <2>2. SubSeq(a \o b, 1, Len(a)) = SubSeq(a, 1, Len(a))
    BY <2>1, SubSeqOfConcat1
  <2> QED BY <1>1, <2>2 DEF IsPrefix
<1> QED BY <1>2, <1>3

LEMMA SuffixOfConcat ==
  ASSUME NEW S, NEW a \in Seq(S), NEW b \in Seq(S)
  PROVE  /\ b = SubSeq(a \o b, Len(a) + 1, Len(a \o b))
         /\ Len(a) \in 0..Len(a \o b)
<1>1. Len(a) \in Nat /\ Len(b) \in Nat /\ Len(a \o b) = Len(a) + Len(b)
  BY LenProperties, ConcatProperties
<1>2. CASE Len(b) = 0
  <2>1. b = <<>>
    BY <1>2, EmptySeq
  <2>2. SubSeq(a \o b, Len(a) + 1, Len(a \o b)) = <<>>
    <3>1. Len(a) + 1 \in Int /\ Len(a \o b) \in Int /\ Len(a \o b) < Len(a) + 1
      BY <1>1, <1>2
    <3> QED BY <3>1, SubSeqEmpty
  <2> QED BY <1>1, <2>1, <2>2
<1>3. CASE Len(b) # 0
  <2>1. /\ Len(a) + 1 \in (Len(a) + 1)..(Len(a) + Len(b))
        /\ Len(a) + Len(b) \in (Len(a) + 1)..(Len(a) + Len(b))
    BY <1>1, <1>3
  <2>2. SubSeq(a \o b, Len(a) + 1, Len(a) + Len(b))
          = SubSeq(b, (Len(a) + 1) - Len(a), (Len(a) + Len(b)) - Len(a))
    BY <2>1, SubSeqOfConcat2
  <2>3. (Len(a) + 1) - Len(a) = 1 /\ (Len(a) + Len(b)) - Len(a) = Len(b)
    BY <1>1
  <2> QED BY <1>1, <2>2, <2>3, SubSeqFull
<1> QED BY <1>2, <1>3

\* What starts with one frame goes on the same behind it.
LEMMA SameRest ==
  ASSUME NEW S, NEW x \in S, NEW y \in S, NEW a \in Seq(S), NEW b \in Seq(S),
         <<x>> \o a = <<y>> \o b
  PROVE  x = y /\ a = b
<1>1. PICK u : u = <<x>>
  OBVIOUS
<1>2. PICK v : v = <<y>>
  OBVIOUS
<1>3. u \in Seq(S) /\ v \in Seq(S) /\ Len(u) = 1 /\ Len(v) = 1 /\ u[1] = x /\ v[1] = y
  BY <1>1, <1>2
<1>4. a = SubSeq(u \o a, 2, Len(u \o a)) /\ b = SubSeq(v \o b, 2, Len(v \o b))
  <2>1. /\ a = SubSeq(u \o a, Len(u) + 1, Len(u \o a))
        /\ b = SubSeq(v \o b, Len(v) + 1, Len(v \o b))
    BY <1>3, SuffixOfConcat
  <2> QED BY <1>3, <2>1
<1>5. u \o a = v \o b
  BY <1>1, <1>2
<1>6. (u \o a)[1] = u[1] /\ (v \o b)[1] = v[1]
  <2>1. 1 \in 1..(Len(u) + Len(a)) /\ 1 \in 1..(Len(v) + Len(b))
    BY <1>3, LenProperties
  <2> QED BY <1>3, <2>1, ConcatProperties
<1> QED BY <1>3, <1>4, <1>5, <1>6

LEMMA OrderKept == SessionTypes /\ GetInv => GetBodyInOrder
<1> SUFFICES ASSUME SessionTypes, GetInv, Registered(Get) PROVE GetBodyInOrder
  BY DEF GetBodyInOrder
<1>1. sent \in Seq(Carried) /\ replay \in Seq(Carried) /\ InFlight \in Seq(Carried)
  BY InFlightType DEF SessionTypes
<1>2. PICK g : g = InFlight
  OBVIOUS
<1>3. owed = sent \o (replay \o g) /\ replay \o g \in Seq(Carried)
  <2>1. g \in Seq(Carried)
    BY <1>1, <1>2
  <2>2. (sent \o replay) \o g = sent \o (replay \o g) /\ replay \o g \in Seq(Carried)
    BY <1>1, <2>1, Regroup
  <2> QED BY <1>2, <2>2 DEF GetInv
<1>4. IsPrefix(sent, owed)
  BY <1>1, <1>3, PrefixOfConcat
<1>5. ASSUME ~gated, writing.to # Get PROVE sent = owed
  <2>1. replay = <<>> /\ g = <<>>
    BY <1>2, <1>5 DEF GetInv, InFlight
  <2>2. <<>> \o <<>> = <<>> /\ sent \o <<>> = sent
    BY <1>1, EmptySeq, ConcatEmptySeq
  <2>3. replay \o g = <<>>
    BY <2>1, <2>2
  <2> QED BY <1>3, <2>2, <2>3
<1>6. ASSUME pipe[Get].held = "open"
      PROVE  \E k \in 0..Len(sent) : Real(pipe[Get].frames) = SubSeq(sent, k + 1, Len(sent))
  <2>1. PICK read \in Seq(Frames) : Opening \o sent = read \o pipe[Get].frames
    BY <1>6 DEF GetInv, Unread
  <2>2. PICK f : f = pipe[Get].frames
    OBVIOUS
  <2>3. f \in Seq(Frames) /\ sent \in Seq(Frames)
    <3>1. pipe[Get] \in Pipes
      BY DEF SessionTypes, Streams
    <3> QED BY <1>1, <2>2, <3>1, CarriedAreFrames, SeqMonotonic DEF Pipes
  <2>4. PICK e : e = Event(Get, 1, Nobody)
    OBVIOUS
  <2>5. e \in Frames /\ e.of = Nobody /\ Opening = <<e>>
    BY <2>4 DEF Event, Frames, Streams, Opening
  <2>6. CASE read = <<>>
    <3>1. f = <<e>> \o sent
      BY <2>1, <2>2, <2>3, <2>5, <2>6, ConcatEmptySeq
    <3>2. f # <<>> /\ Head(f) = e /\ Tail(f) = sent
      <4>1. PICK u : u = <<e>>
        OBVIOUS
      <4>2. u \in Seq(Frames) /\ u # <<>>
        BY <2>5, <4>1
      <4>3. f # <<>>
        BY <2>3, <3>1, <4>1, <4>2, ConcatEqualIffEmpty
      <4>4. /\ Head(f) \in Frames /\ Tail(f) \in Seq(Frames)
            /\ Append(<<>>, Head(f)) \o Tail(f) = <<>> \o f
        BY <2>3, <4>3, EmptySeq, HeadMoves, HeadTailProperties
      <4>5. <<>> \o f = f
        BY <2>3, ConcatEmptySeq
      <4>6. Append(<<>>, Head(f)) = <<Head(f)>>
        OBVIOUS
      <4>7. <<Head(f)>> \o Tail(f) = <<e>> \o sent
        BY <3>1, <4>4, <4>5, <4>6
      <4>8. PICK x : x = Head(f)
        OBVIOUS
      <4>9. PICK a : a = Tail(f)
        OBVIOUS
      <4>10. x \in Frames /\ a \in Seq(Frames) /\ <<e>> \o sent = <<x>> \o a
        BY <4>4, <4>7, <4>8, <4>9
      <4>11. e = x /\ sent = a
        <5>1. PICK b : b = sent
          OBVIOUS
        <5>2. /\ e \in Frames /\ x \in Frames /\ a \in Seq(Frames) /\ b \in Seq(Frames)
              /\ <<e>> \o b = <<x>> \o a
          BY <2>3, <2>5, <4>10, <5>1
        <5>3. e = x /\ b = a
          BY <5>2, SameRest
        <5> QED BY <5>1, <5>3
      <4> QED BY <4>3, <4>8, <4>9, <4>11
    <3>3. Real(f) = sent
      BY <2>5, <3>2 DEF Real
    <3>4. sent = SubSeq(sent, 0 + 1, Len(sent)) /\ 0 \in 0..Len(sent)
      BY <1>1, SubSeqFull, LenProperties
    <3> QED BY <2>2, <3>3, <3>4
  <2>7. CASE read # <<>>
    <3>1. PICK h : h = Head(read)
      OBVIOUS
    <3>2. PICK t : t = Tail(read)
      OBVIOUS
    <3>3. h \in Frames /\ t \in Seq(Frames) /\ read = <<h>> \o t
      <4>1. /\ Head(read) \in Frames /\ Tail(read) \in Seq(Frames)
            /\ Append(<<>>, Head(read)) \o Tail(read) = <<>> \o read
        BY <2>7, EmptySeq, HeadMoves, HeadTailProperties
      <4>2. <<>> \o read = read
        BY ConcatEmptySeq
      <4>3. Append(<<>>, Head(read)) = <<Head(read)>>
        OBVIOUS
      <4> QED BY <3>1, <3>2, <4>1, <4>2, <4>3
    <3>4. sent = t \o f
      <4>1. PICK u : u = <<h>>
        OBVIOUS
      <4>2. u \in Seq(Frames)
        BY <3>3, <4>1
      <4>3. (u \o t) \o f = u \o (t \o f) /\ t \o f \in Seq(Frames)
        BY <2>3, <3>3, <4>2, Regroup
      <4>4. <<e>> \o sent = <<h>> \o (t \o f)
        BY <2>1, <2>2, <2>5, <3>3, <4>1, <4>3
      <4>5. PICK b : b = t \o f
        OBVIOUS
      <4>6. h \in Frames /\ b \in Seq(Frames) /\ <<e>> \o sent = <<h>> \o b
        BY <3>3, <4>3, <4>4, <4>5
      <4>7. sent = b
        BY <2>3, <2>5, <4>6, SameRest
      <4> QED BY <4>5, <4>7
    <3>5. f = SubSeq(sent, Len(t) + 1, Len(sent)) /\ Len(t) \in 0..Len(sent)
      BY <2>3, <3>3, <3>4, SuffixOfConcat
    <3>6. f # <<>> => Head(f).of # Nobody
      <4>1. SUFFICES ASSUME f # <<>> PROVE Head(f).of # Nobody
        OBVIOUS
      <4>2. Len(sent) = Len(t) + Len(f) /\ Len(t) \in Nat /\ Len(f) \in Nat /\ Len(f) # 0
        BY <2>3, <3>3, <3>4, <4>1, ConcatProperties, LenProperties, EmptySeq
      <4>3. Len(t) + 1 \in 1..Len(sent) /\ Len(sent) \in (Len(t) + 1)..Len(sent)
        BY <4>2
      <4>4. Head(f) = sent[Len(t) + 1]
        BY <1>1, <3>5, <4>3, HeadTailOfSubSeq
      <4>5. sent[Len(t) + 1] \in Carried
        BY <1>1, <4>3, ElementOfSeq
      <4> QED BY <4>4, <4>5, NamesApart DEF Carried
    <3>7. Real(f) = f
      BY <3>6 DEF Real
    <3> QED BY <2>2, <3>5, <3>7
  <2> QED BY <2>6, <2>7
<1> QED BY <1>4, <1>5, <1>6 DEF GetBodyInOrder

LEMMA BodiesAreOwed == ServingInv => StreamsAreOwed
  BY DEF ServingInv, BodiesOwed, StreamsAreOwed

LEMMA NotesAreKept == ServingInv => NothingSlipsUnrecorded
  BY DEF ServingInv, NotesKept, NothingSlipsUnrecorded, Queued

-----------------------------------------------------------------------------

\* The inductive invariant of the session: where every message is between the
\* queue of its server and a body (ServingInv), and what a GET body still owes
\* (GetInv).  About writeEvent, handleGET and postStreams together.
THEOREM HttpInvariant == Spec => []HttpInv
<1>1. HttpInit => HttpInv
  BY TypesInitially, ServingInitially, GetInitially DEF HttpInv
<1>2. ASSUME HttpInv, [Next]_vars PROVE HttpInv'
  <2>1. CASE ClientStep
    BY <1>2, <2>1, ClientTypes, ClientServing, ClientGet DEF HttpInv
  <2>2. CASE ServerStep
    BY <1>2, <2>2, ServerTypes, ServerServing, ServerGet DEF HttpInv
  <2>3. CASE UNCHANGED vars
    <3>1. /\ UNCHANGED <<sink, headers, session, exchange, serving, emitted, outbox, writing>>
          /\ UNCHANGED <<streams, pipe, gated, replay, log, owed, sent, recorded, unrouted>>
      BY <2>3 DEF vars, clientVars, serverVars, writeVars, getVars, logVars
    <3>2. SessionTypes'
      BY <1>2, <3>1 DEF HttpInv, SessionTypes
    <3>3. ServingInv'
      <4>1. Unarrived'
        BY <1>2, <3>1 DEF HttpInv, ServingInv, Unarrived
      <4> QED BY <1>2, <3>1, <4>1, ServingStays DEF HttpInv
    <3>4. GetInv'
      <4>1. InFlight' = InFlight
        BY <3>1 DEF InFlight
      <4> QED BY <1>2, <3>1, <4>1, GetStays DEF HttpInv
    <3> QED BY <3>2, <3>3, <3>4 DEF HttpInv
  <2> QED BY <1>2, <2>1, <2>2, <2>3 DEF Next
<1> QED BY <1>1, <1>2, PTL DEF Spec

\* What a GET body carries is its snapshot and then the live events, in the
\* order they were recorded; a drained writer has left none out.
\* About deferLiveWritesUntil and the order of handleGET.
THEOREM GetBodiesInOrder == Spec => []GetBodyInOrder
<1>1. HttpInv => GetBodyInOrder
  BY OrderKept DEF HttpInv
<1> QED BY <1>1, HttpInvariant, PTL

\* A POST body is registered exactly as long as its answer is owed.
\* About postStreams against the requests of the session server.
THEOREM AnswersAreOwed == Spec => []StreamsAreOwed
<1>1. HttpInv => StreamsAreOwed
  BY BodiesAreOwed DEF HttpInv
<1> QED BY <1>1, HttpInvariant, PTL

\* A note that found a stream is in the log before anything can drop its frame.
\* About writeEvent recording the event before it waits for the gate.
THEOREM NotesAreRecorded == Spec => []NothingSlipsUnrecorded
<1>1. HttpInv => NothingSlipsUnrecorded
  BY NotesAreKept DEF HttpInv
<1> QED BY <1>1, HttpInvariant, PTL

=============================================================================
