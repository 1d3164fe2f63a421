---------------------------- MODULE CloudProofs ----------------------------
(***************************************************************************)
(* Proofs about Cloud: for any number of requests, crashes and timeouts,    *)
(* the answers the cloud gives agree with what its table holds.  And about  *)
(* Delivery, which extends Cloud: whatever happens on the way, it keeps the *)
(* promise of ReadingDelivery.                                              *)
(***************************************************************************)
EXTENDS Delivery, FiniteSetTheorems, SequenceTheorems, TLAPS

LEMMA StatusOfRejection ==
  \A verdict \in Rejections : StatusOf[verdict] \in Statuses \ {200, 503}
BY DEF StatusOf, Rejections, Statuses

LEMMA VerdictRange ==
  ASSUME NEW body \in Body, NEW now \in Nat
  PROVE  Verdict(body, now) \in Rejections \cup {"accepted"}
BY DEF Verdict, Rejections, Body, Stale

\* TypeOK alone is not inductive: a rejection has a status because the handler
\* that rejects has a body.
TypeInv == TypeOK /\ \A r \in Request : requests[r] # "new" => bodies[r] \in Body

LEMMA TypeInvariant == Spec => []TypeInv
<1> USE Timeouts, PolicyIsBoolean, Bounds, NoneIsNoRequest
<1>1. Init => TypeInv
  BY DEF Init, TypeInv, TypeOK, Serving, Writing
<1>2. TypeInv /\ [Next]_vars => TypeInv'
  <2> SUFFICES ASSUME TypeInv, [Next]_vars
               PROVE  TypeInv'
    OBVIOUS
  <2> USE DEF TypeInv, TypeOK, Serving, Writing, At, GoTo, Count, Answer
  <2>1. ASSUME NEW r \in Request, NEW body \in Body, Receive(r, body)
        PROVE  TypeInv'
    BY <2>1 DEF Receive
  <2>2. ASSUME NEW r \in Request, RejectLegacy(r)
        PROVE  TypeInv'
    BY <2>2 DEF RejectLegacy, CounterNames, Statuses
  <2>3. ASSUME NEW r \in Request, RejectSecure(r)
        PROVE  TypeInv'
    <3> DEFINE verdict == Verdict(bodies[r], clock)
    <3>1. /\ requests[r] = "check" /\ bodies[r] \in Body /\ clock \in Nat
          /\ verdict # "accepted"
          /\ counters' = [counters EXCEPT ![verdict] = @ + 1]
          /\ requests' = [requests EXCEPT ![r] = "answered"]
          /\ statuses' = [statuses EXCEPT ![r] = StatusOf[verdict]]
          /\ UNCHANGED <<clock, bodies, since, writer, readings, served, inherited, crashes>>
      BY <2>3 DEF RejectSecure
    <3>2. verdict \in Rejections
      BY <3>1, VerdictRange
    <3>3. StatusOf[verdict] \in Statuses
      BY <3>2, StatusOfRejection
    <3> HIDE DEF verdict
    <3>. QED
      BY <3>1, <3>2, <3>3 DEF CounterNames
  <2>4. ASSUME NEW r \in Request, Accept(r)
        PROVE  TypeInv'
    BY <2>4 DEF Accept
  <2>5. ASSUME NEW r \in Request, Connect(r)
        PROVE  TypeInv'
    BY <2>5 DEF Connect
  <2>6. ASSUME NEW r \in Request, Insert(r)
        PROVE  TypeInv'
    BY <2>6 DEF Insert
  <2>7. ASSUME NEW r \in Request, Commit(r)
        PROVE  TypeInv'
    BY <2>7 DEF Commit, Row
  <2>8. ASSUME NEW r \in Request, FailWrite(r)
        PROVE  TypeInv'
    BY <2>8 DEF FailWrite, Release
  <2>9. ASSUME NEW r \in Request, AnswerStored(r)
        PROVE  TypeInv'
    BY <2>9 DEF AnswerStored, CounterNames, Statuses
  <2>10. ASSUME NEW r \in Request, AnswerStorageFailed(r)
         PROVE  TypeInv'
    BY <2>10 DEF AnswerStorageFailed, CounterNames, Statuses
  <2>11. CASE ReadData
    BY <2>11 DEF ReadData
  <2>12. CASE Crash
    BY <2>12 DEF Crash
  <2>13. CASE Tick
    BY <2>13 DEF Tick
  <2>14. CASE UNCHANGED vars
    BY <2>14 DEF vars
  <2>15. ASSUME NEW r \in Request, RejectInvalidLegacy(r)
         PROVE  TypeInv'
    BY <2>15 DEF RejectInvalidLegacy, Statuses
  <2>. QED
    BY <2>1, <2>2, <2>3, <2>4, <2>5, <2>6, <2>7, <2>8, <2>9, <2>10, <2>11,
       <2>12, <2>13, <2>14, <2>15 DEF Next, Proceed, TimesOut
<1>. QED
  BY <1>1, <1>2, PTL DEF Spec

\* Every variable keeps its type; in particular every answer is one of the six
\* status codes of the two endpoints.
THEOREM CloudTypeCorrect == Spec => []TypeOK
<1>1. TypeInv => TypeOK
  BY DEF TypeInv
<1>. QED
  BY <1>1, TypeInvariant, PTL

-----------------------------------------------------------------------------
(* Storage and answers.                                                      *)

\* StorageMatchesAnswers speaks of answered requests only.  The invariant behind
\* it says at which steps of a handler its row exists: after Commit, not before,
\* and never together with the path that answers 503.
StorageInv ==
  \A r \in Request :
    /\ \A i, j \in Rows(r) : i = j
    /\ requests[r] \in {"new", "check", "storage_failed"} \cup Writing => Rows(r) = {}
    /\ requests[r] = "stored" => Rows(r) # {}
    /\ requests[r] # "answered" => statuses[r] = None
    /\ requests[r] = "answered" => statuses[r] # None
    /\ statuses[r] = 200 => Rows(r) # {}
    /\ statuses[r] \notin {200, None} => Rows(r) = {}

\* A step that neither commits nor answers keeps StorageInv if it leaves every
\* handler on the same side of its commit.
LEMMA StorageInvKept ==
  ASSUME StorageInv, UNCHANGED <<readings, statuses>>,
         \A r \in Request :
           \/ requests'[r] = requests[r]
           \/ /\ requests[r] \in {"new", "check"} \cup Writing
              /\ requests'[r] \in {"check", "storage_failed"} \cup Writing
           \/ requests[r] \in Serving /\ requests'[r] = "lost"
  PROVE  StorageInv'
BY DEF StorageInv, Rows, Writing, Serving

\* A step that answers r.
LEMMA StorageInvAnswered ==
  ASSUME TypeOK, StorageInv, NEW r \in Request, NEW status \in Statuses,
         UNCHANGED readings, Answer(r, status),
         \/ status = 200 /\ requests[r] = "stored"
         \/ status # 200 /\ requests[r] \in {"check", "storage_failed"}
  PROVE  StorageInv'
<1>1. status # None /\ None \notin Statuses
  BY NoneIsNoRequest DEF Statuses
<1>2. /\ requests'[r] = "answered" /\ statuses'[r] = status
      /\ \A q \in Request \ {r} :
           requests'[q] = requests[q] /\ statuses'[q] = statuses[q]
  BY DEF Answer, GoTo, TypeOK
<1>3. \A q \in Request : Rows(q)' = Rows(q)
  BY DEF Rows
<1>4. IF status = 200 THEN Rows(r) # {} ELSE Rows(r) = {}
  BY DEF StorageInv
<1>. QED
  BY <1>1, <1>2, <1>3, <1>4 DEF StorageInv, Writing

\* A commit gives r its first and only row.
LEMMA CommitAddsRow ==
  ASSUME TypeOK, StorageInv, NEW r \in Request, Commit(r)
  PROVE  /\ Rows(r) = {} /\ Rows(r)' = {Len(readings) + 1}
         /\ \A q \in Request \ {r} : Rows(q)' = Rows(q)
<1>1. requests[r] = "commit" /\ readings \in Seq(Row) /\ Len(readings) \in Nat
  BY DEF Commit, At, TypeOK
<1>2. Rows(r) = {}
  BY <1>1 DEF StorageInv, Writing
<1>3. /\ DOMAIN readings' = DOMAIN readings \cup {Len(readings) + 1}
      /\ Len(readings) + 1 \notin DOMAIN readings
      /\ \A i \in DOMAIN readings : readings'[i] = readings[i]
      /\ readings'[Len(readings) + 1].request = r
  BY <1>1 DEF Commit
<1>4. Rows(r)' = {Len(readings) + 1}
  BY <1>2, <1>3 DEF Rows
<1>5. \A q \in Request \ {r} : Rows(q)' = Rows(q)
  BY <1>3 DEF Rows
<1>. QED
  BY <1>2, <1>4, <1>5

LEMMA StorageInvCommitted ==
  ASSUME TypeOK, StorageInv, NEW r \in Request, Commit(r)
  PROVE  StorageInv'
<1>1. /\ requests[r] = "commit" /\ requests'[r] = "stored"
      /\ \A q \in Request \ {r} : requests'[q] = requests[q]
      /\ statuses' = statuses
  BY DEF Commit, At, GoTo, TypeOK
<1>2. statuses[r] = None
  BY <1>1 DEF StorageInv
<1>3. /\ Rows(r)' = {Len(readings) + 1}
      /\ \A q \in Request \ {r} : Rows(q)' = Rows(q)
  BY CommitAddsRow
<1>. QED
  BY <1>1, <1>2, <1>3 DEF StorageInv, Writing

LEMMA StorageInvariant == Spec => []StorageInv
<1>1. Init => StorageInv
  BY NoneIsNoRequest DEF Init, StorageInv, Rows, Writing
<1>2. TypeInv /\ StorageInv /\ [Next]_vars => StorageInv'
  <2> SUFFICES ASSUME TypeInv, StorageInv, [Next]_vars
               PROVE  StorageInv'
    OBVIOUS
  <2>0. TypeOK
    BY DEF TypeInv
  <2>1. ASSUME NEW r \in Request, RejectLegacy(r)
        PROVE  StorageInv'
    <3>1. requests[r] = "check" /\ Answer(r, 403) /\ UNCHANGED readings
      BY <2>1 DEF RejectLegacy, At
    <3>. QED
      BY <2>0, <3>1, StorageInvAnswered DEF Statuses
  <2>2. ASSUME NEW r \in Request, RejectSecure(r)
        PROVE  StorageInv'
    <3> DEFINE verdict == Verdict(bodies[r], clock)
    <3>1. /\ requests[r] = "check" /\ verdict # "accepted"
          /\ Answer(r, StatusOf[verdict]) /\ UNCHANGED readings
      BY <2>2 DEF RejectSecure, At
    <3>2. verdict \in Rejections
      BY <3>1, VerdictRange DEF TypeInv, TypeOK
    <3> HIDE DEF verdict
    <3>. QED
      BY <2>0, <3>1, <3>2, StatusOfRejection, StorageInvAnswered
  <2>3. ASSUME NEW r \in Request, Commit(r)
        PROVE  StorageInv'
    BY <2>0, <2>3, StorageInvCommitted
  <2>4. ASSUME NEW r \in Request, AnswerStored(r)
        PROVE  StorageInv'
    <3>1. requests[r] = "stored" /\ Answer(r, 200) /\ UNCHANGED readings
      BY <2>4 DEF AnswerStored, At
    <3>. QED
      BY <2>0, <3>1, StorageInvAnswered DEF Statuses
  <2>5. ASSUME NEW r \in Request, AnswerStorageFailed(r)
        PROVE  StorageInv'
    <3>1. requests[r] = "storage_failed" /\ Answer(r, 503) /\ UNCHANGED readings
      BY <2>5 DEF AnswerStorageFailed, At
    <3>. QED
      BY <2>0, <3>1, StorageInvAnswered DEF Statuses
  <2>6. ASSUME NEW r \in Request,
               \/ \E body \in Body : Receive(r, body)
               \/ Accept(r) \/ Connect(r) \/ Insert(r) \/ FailWrite(r)
        PROVE  StorageInv'
    <3>1. UNCHANGED <<readings, statuses>>
      BY <2>6 DEF Receive, Accept, Connect, Insert, FailWrite
    <3>2. \A q \in Request :
            \/ requests'[q] = requests[q]
            \/ /\ requests[q] \in {"new", "check"} \cup Writing
               /\ requests'[q] \in {"check", "storage_failed"} \cup Writing
      BY <2>0, <2>6 DEF Receive, Accept, Connect, Insert, FailWrite, At, GoTo,
                        Writing, TypeOK
    <3>. QED
      BY <3>1, <3>2, StorageInvKept
  <2>7. CASE Crash
    <3>1. UNCHANGED <<readings, statuses>>
      BY <2>7 DEF Crash
    <3>2. \A q \in Request :
            \/ requests'[q] = requests[q]
            \/ requests[q] \in Serving /\ requests'[q] = "lost"
      BY <2>7 DEF Crash
    <3>. QED
      BY <3>1, <3>2, StorageInvKept
  <2>8. CASE ReadData \/ Tick \/ UNCHANGED vars
    BY <2>8 DEF ReadData, Tick, vars, StorageInv, Rows
  <2>9. ASSUME NEW r \in Request, RejectInvalidLegacy(r)
        PROVE  StorageInv'
    <3>1. requests[r] = "check" /\ Answer(r, 422) /\ UNCHANGED readings
      BY <2>9 DEF RejectInvalidLegacy, At
    <3>. QED
      BY <2>0, <3>1, StorageInvAnswered DEF Statuses
  <2>. QED
    BY <2>1, <2>2, <2>3, <2>4, <2>5, <2>6, <2>7, <2>8, <2>9 DEF Next, Proceed, TimesOut
<1>. QED
  BY <1>1, <1>2, TypeInvariant, PTL DEF Spec

\* The cloud acknowledges durable rows only, refuses only what it did not store,
\* and stores no request twice, whatever contends, fails or crashes.
THEOREM StorageAgreesWithAnswers == Spec => []StorageMatchesAnswers
<1>1. StorageInv => StorageMatchesAnswers
  BY DEF StorageInv, StorageMatchesAnswers
<1>. QED
  BY <1>1, StorageInvariant, PTL

-----------------------------------------------------------------------------
(* Readers.                                                                  *)

LEMMA PrefixByElements ==
  ASSUME NEW S, NEW s \in Seq(S), NEW t \in Seq(S)
  PROVE  IsPrefix(s, t) <=> /\ Len(s) <= Len(t)
                            /\ \A i \in 1 .. Len(s) : s[i] = t[i]
<1>1. CASE Len(s) <= Len(t)
  <2>1. /\ 1 \in 1 .. Len(s) + 1 /\ Len(s) \in 0 .. Len(s) /\ Len(s) \in 0 .. Len(t)
        /\ 1 \in 1 .. Len(t) + 1
    BY <1>1
  <2>2. /\ SubSeq(s, 1, Len(s)) \in Seq(S) /\ Len(SubSeq(s, 1, Len(s))) = Len(s)
        /\ SubSeq(t, 1, Len(s)) \in Seq(S) /\ Len(SubSeq(t, 1, Len(s))) = Len(s)
        /\ \A i \in 1 .. Len(s) : /\ SubSeq(s, 1, Len(s))[i] = s[i]
                                  /\ SubSeq(t, 1, Len(s))[i] = t[i]
    BY <1>1, <2>1
  <2>3. SubSeq(s, 1, Len(s)) = SubSeq(t, 1, Len(s))
          <=> \A i \in 1 .. Len(s) : s[i] = t[i]
    BY <2>2, SeqEqual
  <2>. QED
    BY <1>1, <2>3 DEF IsPrefix
<1>2. CASE ~(Len(s) <= Len(t))
  BY <1>2 DEF IsPrefix
<1>. QED
  BY <1>1, <1>2

LEMMA ServedAreKept ==
  ASSUME TypeInv, ServedReadingsStay, [Next]_vars
  PROVE  ServedReadingsStay'
<1>1. served \in Seq(Row) /\ readings \in Seq(Row) /\ clock \in Nat
  BY DEF TypeInv, TypeOK
<1>2. CASE UNCHANGED <<served, readings>>
  BY <1>2 DEF ServedReadingsStay
<1>3. CASE served' = readings /\ UNCHANGED readings
  BY <1>1, <1>3, PrefixByElements DEF ServedReadingsStay
<1>4. ASSUME NEW r \in Request, Commit(r)
      PROVE  ServedReadingsStay'
  <2>1. /\ readings' = Append(readings, [request |-> r, at |-> clock]) /\ served' = served
        /\ [request |-> r, at |-> clock] \in Row
    BY <1>1, <1>4 DEF Commit, Row
  <2>2. readings' \in Seq(Row)
    BY <1>1, <2>1
  <2>3. Len(served) <= Len(readings) /\ \A i \in 1 .. Len(served) : served[i] = readings[i]
    BY <1>1, PrefixByElements DEF ServedReadingsStay
  <2>4. Len(served) <= Len(readings') /\ \A i \in 1 .. Len(served) : served[i] = readings'[i]
    BY <1>1, <2>1, <2>3
  <2>. QED
    BY <1>1, <2>1, <2>2, <2>4, PrefixByElements DEF ServedReadingsStay
<1>. QED
  BY <1>2, <1>3, <1>4
     DEF Next, Proceed, TimesOut, Receive, RejectLegacy, RejectInvalidLegacy, RejectSecure,
         Accept, Connect, Insert, FailWrite, AnswerStored, AnswerStorageFailed,
         ReadData, Crash, Tick, vars

\* What GET /data has returned stays in its place, through every crash and contention.
THEOREM ServedReadingsArePermanent == Spec => []ServedReadingsStay
<1>1. Init => ServedReadingsStay
  <2> SUFFICES ASSUME Init PROVE ServedReadingsStay
    OBVIOUS
  <2>1. /\ served \in Seq(Row) /\ readings \in Seq(Row)
        /\ Len(served) = 0 /\ Len(readings) = 0
    BY DEF Init
  <2>2. Len(served) <= Len(readings) /\ \A i \in 1 .. Len(served) : served[i] = readings[i]
    BY <2>1
  <2>3. IsPrefix(served, readings)
    BY <2>1, <2>2, PrefixByElements
  <2>. QED
    BY <2>3 DEF ServedReadingsStay
<1>. QED
  BY <1>1, TypeInvariant, ServedAreKept, PTL DEF Spec

-----------------------------------------------------------------------------
(* Counters.                                                                 *)

\* The handlers between their commit and their increment.
Uncounted == {r \in Request : requests[r] = "stored"}

CountInv == IsFiniteSet(Uncounted) /\ ReceivedCountsCommits

\* A step that leaves the rows, the "received" counters and the handlers at "stored".
LEMMA CountInvKept ==
  ASSUME CountInv, UNCHANGED <<readings, inherited>>,
         counters'["received"] = counters["received"],
         counters'["legacy_received"] = counters["legacy_received"],
         \A r \in Request : requests'[r] = "stored" <=> requests[r] = "stored"
  PROVE  CountInv'
<1>1. Uncounted' = Uncounted
  BY DEF Uncounted
<1>. QED
  BY <1>1 DEF CountInv, ReceivedCountsCommits, Uncounted, At

LEMMA CommitIsUncounted ==
  ASSUME TypeInv, CountInv, NEW r \in Request, Commit(r)
  PROVE  CountInv'
<1>1. /\ requests[r] = "commit" /\ requests' = [requests EXCEPT ![r] = "stored"]
      /\ Len(readings') = Len(readings) + 1 /\ Len(readings) \in Nat
      /\ UNCHANGED <<counters, inherited>>
      /\ inherited \in Nat
      /\ counters["received"] \in Nat /\ counters["legacy_received"] \in Nat
  BY DEF Commit, At, GoTo, TypeInv, TypeOK, CounterNames
<1>2. Uncounted' = Uncounted \cup {r} /\ r \notin Uncounted
  BY <1>1 DEF Uncounted, TypeInv, TypeOK
<1>3. /\ IsFiniteSet(Uncounted') /\ Cardinality(Uncounted') = Cardinality(Uncounted) + 1
      /\ Cardinality(Uncounted) \in Nat
  BY <1>2, FS_AddElement, FS_CardinalityType DEF CountInv
<1>. QED
  BY <1>1, <1>3 DEF CountInv, ReceivedCountsCommits, Uncounted, At

LEMMA AnswerCounts ==
  ASSUME TypeInv, CountInv, NEW r \in Request, AnswerStored(r)
  PROVE  CountInv'
<1> DEFINE counter == IF bodies[r].route = "secure" THEN "received" ELSE "legacy_received"
<1>1. /\ requests[r] = "stored" /\ requests' = [requests EXCEPT ![r] = "answered"]
      /\ counters' = [counters EXCEPT ![counter] = @ + 1]
      /\ UNCHANGED <<readings, inherited>>
      /\ Len(readings) \in Nat /\ inherited \in Nat
      /\ counters \in [CounterNames -> Nat]
      /\ counters["received"] \in Nat /\ counters["legacy_received"] \in Nat
  BY DEF AnswerStored, At, GoTo, Answer, Count, TypeInv, TypeOK, CounterNames
<1>2. counters'["received"] + counters'["legacy_received"]
        = counters["received"] + counters["legacy_received"] + 1
  BY <1>1 DEF CounterNames
<1>3. Uncounted' = Uncounted \ {r} /\ r \in Uncounted
  BY <1>1 DEF Uncounted, TypeInv, TypeOK
<1>4. /\ IsFiniteSet(Uncounted') /\ Cardinality(Uncounted') = Cardinality(Uncounted) - 1
      /\ Cardinality(Uncounted) \in Nat
  BY <1>3, FS_RemoveElement, FS_CardinalityType DEF CountInv
<1>5. counters'["received"] \in Nat /\ counters'["legacy_received"] \in Nat
  BY <1>1 DEF CounterNames
<1>6. counters["received"] + counters["legacy_received"] + Cardinality(Uncounted)
        = Len(readings) - inherited
  BY DEF CountInv, ReceivedCountsCommits, Uncounted, At
<1> HIDE DEF counter
<1>7. counters'["received"] + counters'["legacy_received"] + Cardinality(Uncounted')
        = Len(readings') - inherited'
  BY <1>1, <1>2, <1>4, <1>5, <1>6
<1>. QED
  BY <1>4, <1>7 DEF CountInv, ReceivedCountsCommits, Uncounted, At

LEMMA NewProcessCounts ==
  ASSUME TypeInv, Crash
  PROVE  CountInv'
<1>1. /\ \A r \in Request : requests'[r] # "stored"
      /\ counters'["received"] = 0 /\ counters'["legacy_received"] = 0
      /\ readings' = readings /\ inherited' = Len(readings) /\ Len(readings) \in Nat
  BY DEF Crash, Serving, CounterNames, TypeInv, TypeOK
<1>2. Uncounted' = {}
  BY <1>1 DEF Uncounted
<1>3. IsFiniteSet(Uncounted') /\ Cardinality(Uncounted') = 0
  BY <1>2, FS_EmptySet
<1>. QED
  BY <1>1, <1>3 DEF CountInv, ReceivedCountsCommits, Uncounted, At

LEMMA CountInductive ==
  ASSUME TypeInv, CountInv, [Next]_vars
  PROVE  CountInv'
<1> USE DEF TypeInv, TypeOK, CounterNames, At, GoTo, Count, Answer
<1>1. ASSUME NEW r \in Request, NEW body \in Body, Receive(r, body)
      PROVE  CountInv'
  BY <1>1, CountInvKept DEF Receive
<1>2. ASSUME NEW r \in Request, RejectLegacy(r) \/ RejectInvalidLegacy(r)
      PROVE  CountInv'
  BY <1>2, CountInvKept DEF RejectLegacy, RejectInvalidLegacy
<1>3. ASSUME NEW r \in Request, RejectSecure(r)
      PROVE  CountInv'
  <2> DEFINE verdict == Verdict(bodies[r], clock)
  <2>1. /\ requests[r] = "check" /\ requests' = [requests EXCEPT ![r] = "answered"]
        /\ counters' = [counters EXCEPT ![verdict] = @ + 1] /\ verdict # "accepted"
        /\ UNCHANGED <<readings, inherited>>
    BY <1>3 DEF RejectSecure
  <2>2. verdict \in Rejections
    BY <2>1, VerdictRange
  <2> HIDE DEF verdict
  <2>. QED
    BY <2>1, <2>2, CountInvKept DEF Rejections
<1>4. ASSUME NEW r \in Request, Accept(r) \/ Connect(r) \/ Insert(r) \/ FailWrite(r)
      PROVE  CountInv'
  BY <1>4, CountInvKept DEF Accept, Connect, Insert, FailWrite, Writing
<1>5. ASSUME NEW r \in Request, AnswerStorageFailed(r)
      PROVE  CountInv'
  BY <1>5, CountInvKept DEF AnswerStorageFailed
<1>6. CASE ReadData \/ Tick \/ UNCHANGED vars
  BY <1>6, CountInvKept DEF ReadData, Tick, vars
<1>. QED
  BY <1>1, <1>2, <1>3, <1>4, <1>5, <1>6, CommitIsUncounted, AnswerCounts, NewProcessCounts
     DEF Next, Proceed, TimesOut

\* The received counters of a process and the handlers about to increment them add up
\* to the rows it has committed, for any number of requests and crashes.
THEOREM ReceiptsAreCommits == Spec => []ReceivedCountsCommits
<1>1. Init => CountInv
  <2> SUFFICES ASSUME Init PROVE CountInv
    OBVIOUS
  <2>1. Uncounted = {}
    BY DEF Init, Uncounted
  <2>2. IsFiniteSet(Uncounted) /\ Cardinality(Uncounted) = 0
    BY <2>1, FS_EmptySet
  <2>. QED
    BY <2>2 DEF Init, CountInv, ReceivedCountsCommits, Uncounted, At, CounterNames
<1>2. CountInv => ReceivedCountsCommits
  BY DEF CountInv
<1>. QED
  BY <1>1, <1>2, TypeInvariant, CountInductive, PTL DEF Spec

-----------------------------------------------------------------------------
(* Replays.                                                                  *)

\* What the waits that are over may have added to the age of the envelope.
Waited(step) ==
  CASE step = "connect" -> 0
    [] step = "insert" -> BusyTimeout
    [] step = "commit" -> BusyTimeout + BusyTimeout

\* The property speaks of commits; until then the age is bounded at the beginning of
\* the current wait, and no wait is longer than the busy timeout.
WaitIsBounded(r) ==
  requests[r] \in Writing =>
    /\ since[r] <= clock /\ clock <= since[r] + BusyTimeout
    /\ bodies[r].route = "secure" =>
         /\ -Window <= since[r] - bodies[r].timestamp
         /\ since[r] - bodies[r].timestamp <= Window + Waited(requests[r])

ReplayInv == ReplaysAreBounded /\ \A r \in Request : WaitIsBounded(r)

\* A step at which the clock stands still and no row appears.
LEMMA ReplayInvKept ==
  ASSUME TypeOK, StorageInv, ReplayInv, UNCHANGED <<clock, readings>>,
         \A q \in Request : requests[q] # "new" => bodies'[q] = bodies[q],
         \A q \in Request : \/ requests'[q] \notin Writing
                            \/ requests'[q] = requests[q] /\ since'[q] = since[q]
                            \/ WaitIsBounded(q)'
  PROVE  ReplayInv'
<1>1. ASSUME NEW i \in DOMAIN readings
      PROVE  /\ readings[i].request \in Request
             /\ requests[readings[i].request] # "new"
  <2>1. readings[i] \in Row
    BY DEF TypeOK
  <2>2. readings[i].request \in Request /\ i \in Rows(readings[i].request)
    BY <2>1 DEF Row, Rows
  <2>. QED
    BY <2>2 DEF StorageInv
<1>2. ReplaysAreBounded'
  BY <1>1 DEF ReplayInv, ReplaysAreBounded
<1>3. ASSUME NEW q \in Request
      PROVE  WaitIsBounded(q)'
  <2>1. CASE requests'[q] \notin Writing
    BY <2>1 DEF WaitIsBounded
  <2>2. CASE /\ requests'[q] \in Writing
             /\ requests'[q] = requests[q] /\ since'[q] = since[q]
    <3>1. bodies'[q] = bodies[q] /\ clock' = clock /\ WaitIsBounded(q)
      BY <2>2 DEF Writing, ReplayInv
    <3>. QED
      BY <2>2, <3>1 DEF WaitIsBounded
  <2>. QED
    BY <2>1, <2>2
<1>. QED
  BY <1>2, <1>3 DEF ReplayInv

\* What is known of a secure body that waits for SQLite.
LEMMA TimestampsAreNatural ==
  ASSUME TypeInv, NEW r \in Request, requests[r] # "new"
  PROVE  bodies[r].timestamp \in Nat
<1>1. bodies[r] \in Body
  BY DEF TypeInv
<1>2. CASE bodies[r] \in
              [route : {"secure"}, content : {"reading", "invalid"}, timestamp : Timestamps]
  BY <1>2, Timeouts
<1>3. CASE bodies[r] \in
              [route : {"secure"}, content : {"undecryptable", "malformed"}, timestamp : {0}]
  BY <1>3
<1>4. CASE bodies[r] \in
              [route : {"legacy"}, content : {"reading", "invalid"}, timestamp : {0}]
  BY <1>4
<1>. QED
  BY <1>1, <1>2, <1>3, <1>4 DEF Body

LEMMA AcceptedInWindow ==
  ASSUME TypeInv, NEW r \in Request, Accept(r)
  PROVE  WaitIsBounded(r)'
<1>1. /\ requests[r] = "check" /\ requests'[r] = "connect" /\ since'[r] = clock
      /\ UNCHANGED <<clock, bodies>> /\ clock \in Nat /\ bodies[r] \in Body
      /\ bodies[r].route = "secure" => Verdict(bodies[r], clock) = "accepted"
  BY DEF Accept, At, GoTo, TypeInv, TypeOK
<1>2. bodies[r].timestamp \in Nat
  BY <1>1, TimestampsAreNatural
<1>3. bodies[r].route = "secure" => ~Stale(bodies[r].timestamp, clock)
  BY <1>1 DEF Verdict, Body
<1>. QED
  BY <1>1, <1>2, <1>3, Timeouts DEF WaitIsBounded, Waited, Stale, Writing

\* A wait that ends has added at most the busy timeout.
LEMMA NextWait ==
  ASSUME TypeInv, ReplayInv, NEW r \in Request, Connect(r) \/ Insert(r)
  PROVE  WaitIsBounded(r)'
<1>1. /\ \/ requests[r] = "connect" /\ requests'[r] = "insert"
         \/ requests[r] = "insert" /\ requests'[r] = "commit"
      /\ since'[r] = clock /\ UNCHANGED <<clock, bodies>>
      /\ clock \in Nat /\ since[r] \in Nat
  BY DEF Connect, Insert, At, GoTo, TypeInv, TypeOK
<1>2. bodies[r].timestamp \in Nat
  BY <1>1, TimestampsAreNatural
<1>3. WaitIsBounded(r)
  BY DEF ReplayInv
<1>. QED
  BY <1>1, <1>2, <1>3, Timeouts DEF WaitIsBounded, Waited, Writing

LEMMA CommitInBounds ==
  ASSUME TypeInv, StorageInv, ReplayInv, NEW r \in Request, Commit(r)
  PROVE  ReplayInv'
<1>1. /\ requests[r] = "commit" /\ requests' = [requests EXCEPT ![r] = "stored"]
      /\ readings' = Append(readings, [request |-> r, at |-> clock])
      /\ UNCHANGED <<clock, bodies, since>>
      /\ clock \in Nat /\ since[r] \in Nat /\ readings \in Seq(Row)
  BY DEF Commit, At, GoTo, TypeInv, TypeOK
<1>2. bodies[r].timestamp \in Nat
  BY <1>1, TimestampsAreNatural
<1>3. bodies[r].route = "secure" =>
        /\ -Window <= clock - bodies[r].timestamp
        /\ clock - bodies[r].timestamp <= Window + 3 * BusyTimeout
  <2>1. WaitIsBounded(r)
    BY DEF ReplayInv
  <2>. QED
    BY <1>1, <1>2, <2>1, Timeouts DEF WaitIsBounded, Waited, Writing
<1>4. ReplaysAreBounded'
  <2> SUFFICES ASSUME NEW i \in DOMAIN readings', bodies'[readings'[i].request].route = "secure"
               PROVE  LET age == readings'[i].at - bodies'[readings'[i].request].timestamp
                      IN -Window <= age /\ age <= Window + 3 * BusyTimeout
    BY DEF ReplaysAreBounded
  <2>1. CASE i \in DOMAIN readings
    <3>1. readings'[i] = readings[i]
      BY <1>1, <2>1
    <3>. QED
      BY <1>1, <2>1, <3>1 DEF ReplayInv, ReplaysAreBounded
  <2>2. CASE i \notin DOMAIN readings
    <3>1. readings'[i] = [request |-> r, at |-> clock]
      BY <1>1, <2>2
    <3>. QED
      BY <1>1, <1>3, <3>1
  <2>. QED
    BY <2>1, <2>2
<1>5. ASSUME NEW q \in Request
      PROVE  WaitIsBounded(q)'
  <2>1. \/ requests'[q] \notin Writing
        \/ requests'[q] = requests[q] /\ since'[q] = since[q] /\ bodies'[q] = bodies[q]
    BY <1>1 DEF Writing, TypeInv, TypeOK
  <2>2. WaitIsBounded(q) /\ clock' = clock
    BY <1>1 DEF ReplayInv
  <2>. QED
    BY <2>1, <2>2 DEF WaitIsBounded
<1>. QED
  BY <1>4, <1>5 DEF ReplayInv

LEMMA TimePasses ==
  ASSUME TypeInv, ReplayInv, Tick
  PROVE  ReplayInv'
<1>1. /\ clock' = clock + 1 /\ clock \in Nat
      /\ \A r \in Request : requests[r] \in Writing => clock - since[r] < BusyTimeout
      /\ UNCHANGED <<requests, bodies, since, readings>>
      /\ \A r \in Request : since[r] \in Nat
  BY DEF Tick, TypeInv, TypeOK
<1>2. ReplaysAreBounded'
  BY <1>1 DEF ReplayInv, ReplaysAreBounded
<1>3. ASSUME NEW q \in Request
      PROVE  WaitIsBounded(q)'
  <2>1. WaitIsBounded(q) /\ since[q] \in Nat
    BY <1>1 DEF ReplayInv
  <2>. QED
    BY <1>1, <2>1, Timeouts DEF WaitIsBounded
<1>. QED
  BY <1>2, <1>3 DEF ReplayInv

LEMMA ReplayInductive ==
  ASSUME TypeInv, StorageInv, ReplayInv, [Next]_vars
  PROVE  ReplayInv'
<1>0. TypeOK
  BY DEF TypeInv
<1> USE DEF TypeOK, At, GoTo, Answer
<1>1. ASSUME NEW r \in Request, NEW body \in Body, Receive(r, body)
      PROVE  ReplayInv'
  BY <1>0, <1>1, ReplayInvKept DEF Receive, Writing
<1>2. ASSUME NEW r \in Request,
             \/ RejectLegacy(r) \/ RejectInvalidLegacy(r) \/ RejectSecure(r)
             \/ AnswerStored(r) \/ AnswerStorageFailed(r) \/ FailWrite(r)
      PROVE  ReplayInv'
  <2>1. UNCHANGED <<clock, readings, bodies, since>>
    BY <1>2 DEF RejectLegacy, RejectInvalidLegacy, RejectSecure, AnswerStored,
                AnswerStorageFailed, FailWrite
  <2>2. PICK step \in {"answered", "storage_failed"} :
          requests' = [requests EXCEPT ![r] = step]
    BY <1>2 DEF RejectLegacy, RejectInvalidLegacy, RejectSecure, AnswerStored,
                AnswerStorageFailed, FailWrite
  <2>. QED
    BY <1>0, <2>1, <2>2, ReplayInvKept DEF Writing
<1>3. ASSUME NEW r \in Request, Accept(r) \/ Connect(r) \/ Insert(r)
      PROVE  ReplayInv'
  <2>1. WaitIsBounded(r)'
    BY <1>3, AcceptedInWindow, NextWait
  <2>2. /\ UNCHANGED <<clock, readings, bodies>>
        /\ \A q \in Request \ {r} : requests'[q] = requests[q] /\ since'[q] = since[q]
    BY <1>0, <1>3 DEF Accept, Connect, Insert
  <2>. QED
    BY <1>0, <2>1, <2>2, ReplayInvKept
<1>4. CASE Crash
  <2>1. /\ UNCHANGED <<clock, readings, bodies, since>>
        /\ \A q \in Request : requests'[q] = requests[q] \/ requests'[q] = "lost"
    BY <1>4 DEF Crash
  <2>. QED
    BY <1>0, <2>1, ReplayInvKept DEF Writing
<1>5. CASE ReadData \/ UNCHANGED vars
  <2>1. UNCHANGED <<clock, readings, bodies, since, requests>>
    BY <1>5 DEF ReadData, vars
  <2>. QED
    BY <1>0, <2>1, ReplayInvKept
<1>. QED
  BY <1>1, <1>2, <1>3, <1>4, <1>5, CommitInBounds, TimePasses
     DEF Next, Proceed, TimesOut

\* However often an envelope is sent, by however many requests, it is committed only
\* within the window and three busy timeouts of its timestamp.
THEOREM ReplaysStayInWindow == Spec => []ReplaysAreBounded
<1>1. Init => ReplayInv
  BY DEF Init, ReplayInv, ReplaysAreBounded, WaitIsBounded, Writing
<1>2. ReplayInv => ReplaysAreBounded
  BY DEF ReplayInv
<1>. QED
  BY <1>1, <1>2, TypeInvariant, StorageInvariant, ReplayInductive, PTL DEF Spec

-----------------------------------------------------------------------------
(* Delivery.                                                                 *)

LEMMA DeliveryStepsAreCloudSteps == [DeliveryNext]_all_vars => [Next]_vars
<1> SUFFICES ASSUME [DeliveryNext]_all_vars PROVE [Next]_vars
  OBVIOUS
<1>1. ASSUME NEW r \in Request, Post(r)
      PROVE  Next
  <2>1. PICK timestamp \in Timestamps :
          Receive(r, [route |-> "secure", content |-> "reading", timestamp |-> timestamp])
    BY <1>1 DEF Post
  <2>2. [route |-> "secure", content |-> "reading", timestamp |-> timestamp] \in Body
    BY DEF Body
  <2>. QED
    BY <2>1, <2>2 DEF Next
<1>2. ASSUME NEW r \in Request, DeviceStep(r)
      PROVE  UNCHANGED vars
  BY <1>2 DEF DeviceStep, Send, HearOk, HearFailure, GiveUp, Tell
<1>3. ASSUME NEW r \in Request, GatewayStep(r), ~Post(r)
      PROVE  UNCHANGED vars
  BY <1>3 DEF GatewayStep, Arrive, RefuseAtCapacity, Seal, Forwarded, ForwardFails
<1>4. CASE CloudStep
  BY <1>4 DEF CloudStep, Next
<1>5. CASE GatewayCrash \/ UNCHANGED all_vars
  BY <1>5 DEF GatewayCrash, all_vars
<1>. QED
  BY <1>1, <1>2, <1>3, <1>4, <1>5 DEF DeliveryNext

\* Delivery runs the cloud as Cloud describes it, so what holds there holds here.
LEMMA DeliveryRunsCloud == DeliverySpec => Spec
<1>1. DeliveryInit => Init
  BY DEF DeliveryInit
<1>. QED
  BY <1>1, DeliveryStepsAreCloudSteps, PTL DEF DeliverySpec, Spec

\* The callers keep up with the cloud: an envelope at the cloud was sent by the device,
\* and the gateway has passed on nothing but a 200.
HopsInv ==
  /\ told \in [Request -> {"unsent", "waiting", "ok", "failed"}]
  /\ gateway \in [Request -> Running \cup {"none", "sent", "forwarded", "failed", "lost"}]
  /\ \A r \in Request :
       /\ told[r] = "unsent" => gateway[r] = "none"
       /\ requests[r] # "new" => gateway[r] \notin {"none", "sent", "recording", "sealed"}
       /\ gateway[r] = "forwarded" => statuses[r] = 200

\* An answer of the cloud is final.
LEMMA AnswersAreFinal ==
  ASSUME TypeOK, StorageInv, [Next]_vars, NEW r \in Request
  PROVE  /\ statuses[r] = 200 => statuses'[r] = 200
         /\ requests[r] # "new" => requests'[r] # "new"
<1>0. 200 # None
  BY NoneIsNoRequest
<1> USE DEF TypeOK, StorageInv, At, GoTo, Answer
<1>1. ASSUME NEW q \in Request, NEW body \in Body, Receive(q, body)
      PROVE  statuses' = statuses /\ requests'[q] = "check" /\ requests[q] = "new"
             /\ \A p \in Request \ {q} : requests'[p] = requests[p]
  BY <1>1 DEF Receive
<1>2. ASSUME NEW q \in Request, Proceed(q) \/ FailWrite(q)
      PROVE  /\ \A p \in Request \ {q} : requests'[p] = requests[p] /\ statuses'[p] = statuses[p]
             /\ requests'[q] # "new"
             /\ statuses[q] # 200
  <2>1. /\ \A p \in Request \ {q} : requests'[p] = requests[p] /\ statuses'[p] = statuses[p]
        /\ requests'[q] # "new"
        /\ requests[q] # "answered"
    BY <1>2 DEF Proceed, TimesOut, RejectLegacy, RejectInvalidLegacy, RejectSecure, Accept,
                Connect, Insert, Commit, FailWrite, AnswerStored, AnswerStorageFailed, Writing
  <2>. QED
    BY <1>0, <2>1
<1>3. CASE Crash
  BY <1>3 DEF Crash
<1>4. CASE ReadData \/ Tick \/ UNCHANGED vars
  BY <1>4 DEF ReadData, Tick, vars
<1>. QED
  BY <1>0, <1>1, <1>2, <1>3, <1>4 DEF Next

LEMMA HopsInvariant == DeliverySpec => []HopsInv
<1>1. DeliveryInit => HopsInv
  BY DEF DeliveryInit, Init, HopsInv, Running
<1>2. TypeOK /\ StorageInv /\ HopsInv /\ [DeliveryNext]_all_vars => HopsInv'
  <2> SUFFICES ASSUME TypeOK, StorageInv, HopsInv, [DeliveryNext]_all_vars
               PROVE  HopsInv'
    OBVIOUS
  <2> USE DEF HopsInv, Running
  <2>0. [Next]_vars
    BY DeliveryStepsAreCloudSteps
  <2>1. ASSUME NEW r \in Request, DeviceStep(r)
        PROVE  HopsInv'
    BY <2>1 DEF DeviceStep, Send, HearOk, HearFailure, GiveUp, Tell, vars
  <2>2. ASSUME NEW r \in Request, Post(r)
        PROVE  HopsInv'
    <3>1. /\ gateway[r] = "sealed" /\ gateway' = [gateway EXCEPT ![r] = "posted"]
          /\ UNCHANGED <<told, statuses>>
          /\ requests' = [requests EXCEPT ![r] = "check"]
      BY <2>2 DEF Post, Advance, Receive, GoTo
    <3>. QED
      BY <3>1 DEF TypeOK
  <2>3. ASSUME NEW r \in Request,
               \/ Arrive(r) \/ RefuseAtCapacity(r) \/ Seal(r)
               \/ Forwarded(r) \/ ForwardFails(r)
        PROVE  HopsInv'
    <3>1. told[r] # "unsent" /\ UNCHANGED <<told, requests, statuses>>
      BY <2>3 DEF Arrive, RefuseAtCapacity, Seal, Forwarded, ForwardFails, Advance, vars
    <3>. QED
      BY <2>3, <3>1 DEF Arrive, RefuseAtCapacity, Seal, Forwarded, ForwardFails, Advance
  <2>4. CASE CloudStep
    <3>1. UNCHANGED <<told, gateway>>
      BY <2>4 DEF CloudStep, delivery_vars
    <3>2. \A r \in Request : requests'[r] # "new" => requests[r] # "new"
      <4>1. ASSUME NEW q \in Request, Proceed(q) \/ FailWrite(q)
            PROVE  /\ requests[q] # "new"
                   /\ \A p \in Request \ {q} : requests'[p] = requests[p]
        BY <4>1 DEF Proceed, TimesOut, RejectLegacy, RejectInvalidLegacy, RejectSecure,
                    Accept, Connect, Insert, Commit, FailWrite, AnswerStored,
                    AnswerStorageFailed, At, GoTo, Answer, Writing, TypeOK
      <4>2. Crash => \A p \in Request : requests[p] = "new" => requests'[p] = requests[p]
        BY DEF Crash, Serving, Writing
      <4>. QED
        BY <2>4, <4>1, <4>2 DEF CloudStep
    <3>. QED
      BY <2>0, <3>1, <3>2, AnswersAreFinal
  <2>5. CASE GatewayCrash
    BY <2>5 DEF GatewayCrash, vars
  <2>6. CASE UNCHANGED all_vars
    BY <2>6 DEF all_vars, delivery_vars, vars
  <2>. QED
    BY <2>1, <2>2, <2>3, <2>4, <2>5, <2>6 DEF DeliveryNext, GatewayStep
<1>3. TypeInv => TypeOK
  BY DEF TypeInv
<1>. QED
  BY <1>1, <1>2, <1>3, DeliveryRunsCloud, TypeInvariant, StorageInvariant, PTL DEF DeliverySpec

\* A commit gives one reading its first row; no other step touches the table.
LEMMA CommitStores ==
  ASSUME TypeOK, StorageInv, NEW r \in Request, Commit(r)
  PROVE  RowCounts[r] = 0 /\ RowCounts' = [RowCounts EXCEPT ![r] = 1]
<1>1. /\ Rows(r) = {} /\ Rows(r)' = {Len(readings) + 1}
      /\ \A q \in Request \ {r} : Rows(q)' = Rows(q)
  BY CommitAddsRow
<1>2. Cardinality(Rows(r)) = 0 /\ Cardinality(Rows(r)') = 1
  BY <1>1, FS_EmptySet, FS_Singleton
<1>. QED
  BY <1>1, <1>2 DEF RowCounts

\* A reading that has a row has one.
LEMMA StoredOnce ==
  ASSUME StorageInv, NEW r \in Request, Rows(r) # {}
  PROVE  RowCounts[r] = 1
<1>1. PICK i \in Rows(r) : Rows(r) = {i}
  BY DEF StorageInv
<1>2. Cardinality(Rows(r)) = 1
  BY <1>1, FS_Singleton
<1>. QED
  BY <1>2 DEF RowCounts

LEMMA StoredStays ==
  ASSUME UNCHANGED readings
  PROVE  RowCounts' = RowCounts
BY DEF RowCounts, Rows

\* Every step on the way from device to table is a step of the promise or none.
LEMMA PromiseSteps ==
  ASSUME TypeOK, StorageInv, HopsInv, [DeliveryNext]_all_vars
  PROVE  [Promise!Next]_(Promise!vars)
<1> USE DEF Promise!Next, Promise!vars
<1>1. ASSUME NEW r \in Request, Send(r)
      PROVE  Promise!Send(r)
  BY <1>1, StoredStays DEF Send, Promise!Send, vars
<1>2. ASSUME NEW r \in Request, HearOk(r)
      PROVE  Promise!TellOk(r)
  <2>1. statuses[r] = 200
    BY <1>2 DEF HearOk, HopsInv
  <2>2. RowCounts[r] = 1
    BY <2>1, StoredOnce DEF StorageInv
  <2>. QED
    BY <1>2, <2>2, StoredStays DEF HearOk, Tell, Promise!TellOk, vars
<1>3. ASSUME NEW r \in Request, HearFailure(r) \/ GiveUp(r)
      PROVE  Promise!TellFailed(r)
  BY <1>3, StoredStays DEF HearFailure, GiveUp, Tell, Promise!TellFailed, vars
<1>4. ASSUME NEW r \in Request, GatewayStep(r)
      PROVE  UNCHANGED Promise!vars
  BY <1>4, StoredStays
     DEF GatewayStep, Arrive, RefuseAtCapacity, Seal, Post, Forwarded, ForwardFails, Advance,
         Receive, vars
<1>5. ASSUME NEW r \in Request, Commit(r), UNCHANGED told
      PROVE  Promise!Store(r)
  <2>1. told[r] # "unsent"
    BY <1>5 DEF Commit, At, HopsInv
  <2>. QED
    BY <1>5, <2>1, CommitStores DEF Promise!Store
<1>6. CASE CloudStep /\ ~\E r \in Request : Commit(r)
  <2>1. UNCHANGED <<readings, told>>
    BY <1>6 DEF CloudStep, delivery_vars, Crash, Proceed, TimesOut, RejectLegacy,
                RejectInvalidLegacy, RejectSecure, Accept, Connect, Insert, FailWrite,
                AnswerStored, AnswerStorageFailed
  <2>. QED
    BY <2>1, StoredStays
<1>7. CASE GatewayCrash \/ UNCHANGED all_vars
  BY <1>7, StoredStays DEF GatewayCrash, all_vars, delivery_vars, vars
<1>. QED
  BY <1>1, <1>2, <1>3, <1>4, <1>5, <1>6, <1>7
     DEF DeliveryNext, DeviceStep, CloudStep, delivery_vars

\* Through timeouts, lost answers and crashes of both servers the number of rows of a
\* reading goes from none to one, only if it was sent, and never changes again; "ok" is
\* heard only of a reading that has its one row.
THEOREM DeliveryImplementsPromise == DeliverySpec => DeliveryKeepsPromise
<1>1. DeliveryInit => Promise!Init
  <2> SUFFICES ASSUME DeliveryInit
               PROVE  Promise!Init
    OBVIOUS
  <2>1. \A r \in Request : Rows(r) = {}
    BY DEF DeliveryInit, Init, Rows
  <2>2. \A r \in Request : Cardinality(Rows(r)) = 0
    BY <2>1, FS_EmptySet
  <2>. QED
    BY <2>2 DEF DeliveryInit, Promise!Init, RowCounts
<1>2. TypeInv => TypeOK
  BY DEF TypeInv
<1>. QED
  BY <1>1, <1>2, PromiseSteps, DeliveryRunsCloud, TypeInvariant, StorageInvariant,
     HopsInvariant, PTL
     DEF DeliverySpec, DeliveryKeepsPromise, Promise!Spec

=============================================================================
