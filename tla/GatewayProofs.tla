--------------------------- MODULE GatewayProofs ---------------------------
(***************************************************************************)
(* Proofs about Gateway, for any number of threads, devices and requests:   *)
(* the counters account for every reading, whatever interleaves with what.  *)
(***************************************************************************)
EXTENDS Gateway, SensorRegistryProofs, FiniteSetTheorems, TLAPS

Metrics == {ScrapeOrder[i] : i \in 1 .. Len(ScrapeOrder)}
Call == [step : Steps, device : Device, report : Report]

\* The threads that serve a request.
Serving == {h \in Handler : handlers[h] # Idle}

\* Cardinality says nothing of infinite sets, so the invariant carries finiteness:
\* requests arrive one by one, and so do devices.
TypeInv ==
  /\ devices \in [Device -> DeviceState \cup {None}]
  /\ handlers \in [Handler -> {Idle} \cup Call]
  /\ counters \in [CounterNames -> Nat]
  /\ scrape \in [collected : 0 .. 8, sample : [Metrics -> Nat]]
  /\ answers \in [AnswerNames -> Nat]
  /\ arrived \in 0 .. MaxRequests
  /\ IsFiniteSet(Serving)
  /\ IsFiniteSet(Tracked(devices))

-----------------------------------------------------------------------------
(* Sets that differ in one element, and the number of threads at a step.     *)

LEMMA OneElement ==
  ASSUME NEW A, NEW B, NEW x, IsFiniteSet(A), A \ {x} = B \ {x}
  PROVE  /\ IsFiniteSet(B)
         /\ Cardinality(A) \in Nat /\ Cardinality(B) \in Nat
         /\ Cardinality(B) = Cardinality(A) - (IF x \in A THEN 1 ELSE 0)
                                            + (IF x \in B THEN 1 ELSE 0)
<1> DEFINE C == A \ {x}
<1>1. /\ IsFiniteSet(C)
      /\ Cardinality(C) = IF x \in A THEN Cardinality(A) - 1 ELSE Cardinality(A)
  BY FS_RemoveElement
<1>2. x \notin C
  OBVIOUS
<1>3. IsFiniteSet(C \cup {x}) /\ Cardinality(C \cup {x}) = Cardinality(C) + 1
  BY <1>1, <1>2, FS_AddElement
<1>4. (x \in B => B = C \cup {x}) /\ (x \notin B => B = C)
  <2>1. C = B \ {x}
    OBVIOUS
  <2>2. x \in B => B = (B \ {x}) \cup {x}
    OBVIOUS
  <2>3. x \notin B => B = B \ {x}
    OBVIOUS
  <2> HIDE DEF C
  <2>. QED
    BY <2>1, <2>2, <2>3
<1>5. Cardinality(A) \in Nat /\ Cardinality(C) \in Nat
  BY <1>1, FS_CardinalityType
<1> HIDE DEF C
<1>6. CASE x \in B
  <2>1. B = C \cup {x}
    BY <1>4, <1>6
  <2>2. IsFiniteSet(B) /\ Cardinality(B) = Cardinality(C) + 1
    BY <1>3, <2>1
  <2>. QED
    BY <1>1, <1>5, <1>6, <2>2
<1>7. CASE x \notin B
  <2>1. B = C
    BY <1>4, <1>7
  <2>2. IsFiniteSet(B) /\ Cardinality(B) = Cardinality(C)
    BY <1>1, <2>1
  <2>. QED
    BY <1>1, <1>5, <1>7, <2>2
<1>. QED
  BY <1>6, <1>7

\* The threads at some steps, and those of them that serve a reading.
AtSteps(steps) == {h \in Handler : handlers[h].step \in steps}
ReadingAtSteps(steps) == {h \in Handler : /\ handlers[h].step \in steps
                                          /\ handlers[h].report # Disconnect}

LEMMA StepsOfCalls ==
  ASSUME TypeInv
  PROVE  \A h \in Handler :
           /\ handlers[h] = Idle <=> handlers[h].step = "idle"
           /\ handlers[h] # Idle => /\ handlers[h].step \in Steps
                                    /\ handlers[h].device \in Device
                                    /\ handlers[h].report \in Report
BY DEF TypeInv, Call, Idle, Steps

LEMMA FiniteSteps ==
  ASSUME TypeInv, NEW steps, "idle" \notin steps
  PROVE  /\ IsFiniteSet(AtSteps(steps)) /\ IsFiniteSet(ReadingAtSteps(steps))
         /\ Busy(steps) \in Nat /\ ServingReading(steps) \in Nat
<1>1. AtSteps(steps) \subseteq Serving /\ ReadingAtSteps(steps) \subseteq Serving
  BY DEF AtSteps, ReadingAtSteps, Serving, Idle
<1>2. IsFiniteSet(AtSteps(steps)) /\ IsFiniteSet(ReadingAtSteps(steps))
  BY <1>1, FS_Subset DEF TypeInv
<1>. QED
  BY <1>2, FS_CardinalityType DEF Busy, ServingReading, AtSteps, ReadingAtSteps

\* When one thread moves, it is counted at its new step and no more at its old one.
LEMMA OneThreadMoves ==
  ASSUME TypeInv, NEW h \in Handler, NEW call \in {Idle} \cup Call,
         handlers' = [handlers EXCEPT ![h] = call],
         NEW steps, "idle" \notin steps
  PROVE  /\ Busy(steps)' = Busy(steps) - (IF handlers[h].step \in steps THEN 1 ELSE 0)
                                       + (IF call.step \in steps THEN 1 ELSE 0)
         /\ ServingReading(steps)' = ServingReading(steps)
              - (IF handlers[h].step \in steps /\ handlers[h].report # Disconnect
                   THEN 1 ELSE 0)
              + (IF call.step \in steps /\ call.report # Disconnect THEN 1 ELSE 0)
<1>1. /\ handlers'[h] = call
      /\ \A g \in Handler \ {h} : handlers'[g] = handlers[g]
  BY DEF TypeInv
<1>2. /\ AtSteps(steps) \ {h} = AtSteps(steps)' \ {h}
      /\ ReadingAtSteps(steps) \ {h} = ReadingAtSteps(steps)' \ {h}
  BY <1>1 DEF AtSteps, ReadingAtSteps
<1>3. /\ h \in AtSteps(steps) <=> handlers[h].step \in steps
      /\ h \in AtSteps(steps)' <=> call.step \in steps
      /\ h \in ReadingAtSteps(steps)
           <=> handlers[h].step \in steps /\ handlers[h].report # Disconnect
      /\ h \in ReadingAtSteps(steps)' <=> call.step \in steps /\ call.report # Disconnect
  BY <1>1 DEF AtSteps, ReadingAtSteps
<1>4. IsFiniteSet(AtSteps(steps)) /\ IsFiniteSet(ReadingAtSteps(steps))
  BY FiniteSteps
<1> DEFINE A == AtSteps(steps)
           B == AtSteps(steps)'
           C == ReadingAtSteps(steps)
           D == ReadingAtSteps(steps)'
<1>5. Cardinality(B) = Cardinality(A) - (IF h \in A THEN 1 ELSE 0)
                                      + (IF h \in B THEN 1 ELSE 0)
  BY <1>2, <1>4, OneElement
<1>6. Cardinality(D) = Cardinality(C) - (IF h \in C THEN 1 ELSE 0)
                                      + (IF h \in D THEN 1 ELSE 0)
  BY <1>2, <1>4, OneElement
<1>7. /\ Busy(steps) = Cardinality(A) /\ Busy(steps)' = Cardinality(B)
      /\ ServingReading(steps) = Cardinality(C)
      /\ ServingReading(steps)' = Cardinality(D)
  BY DEF Busy, ServingReading, AtSteps, ReadingAtSteps
<1>8. /\ h \in A <=> handlers[h].step \in steps
      /\ h \in B <=> call.step \in steps
      /\ h \in C <=> handlers[h].step \in steps /\ handlers[h].report # Disconnect
      /\ h \in D <=> call.step \in steps /\ call.report # Disconnect
  BY <1>3
<1> HIDE DEF A, B, C, D
<1>. QED
  BY <1>5, <1>6, <1>7, <1>8

\* The four numbers the properties of Gateway count with.
Forwarding == Busy({"forward", "count_failure"})
Starting == Busy({"count_episode"})
Failing == Busy({"count_read_failure"})
Reading == ServingReading({"count_fault", "record", "count_episode", "count_attempt"})

LEMMA CountsAreNatural ==
  ASSUME TypeInv
  PROVE  Forwarding \in Nat /\ Starting \in Nat /\ Failing \in Nat /\ Reading \in Nat
BY FiniteSteps DEF Forwarding, Starting, Failing, Reading

\* What one request contributes to them.
IsForwarding(call) == IF call.step \in {"forward", "count_failure"} THEN 1 ELSE 0
IsStarting(call) == IF call.step \in {"count_episode"} THEN 1 ELSE 0
IsFailing(call) == IF call.step \in {"count_read_failure"} THEN 1 ELSE 0
IsReading(call) ==
  IF /\ call.step \in {"count_fault", "record", "count_episode", "count_attempt"}
     /\ call.report # Disconnect THEN 1 ELSE 0

Exchanged(old, new) ==
  /\ Forwarding' = Forwarding - IsForwarding(old) + IsForwarding(new)
  /\ Starting' = Starting - IsStarting(old) + IsStarting(new)
  /\ Failing' = Failing - IsFailing(old) + IsFailing(new)
  /\ Reading' = Reading - IsReading(old) + IsReading(new)

LEMMA CountsMove ==
  ASSUME TypeInv, NEW h \in Handler, NEW call \in {Idle} \cup Call,
         handlers' = [handlers EXCEPT ![h] = call]
  PROVE  Exchanged(handlers[h], call)
<1>1. Forwarding' = Forwarding
        - (IF handlers[h].step \in {"forward", "count_failure"} THEN 1 ELSE 0)
        + (IF call.step \in {"forward", "count_failure"} THEN 1 ELSE 0)
  <2>1. "idle" \notin {"forward", "count_failure"}
    OBVIOUS
  <2>. QED
    BY <2>1, OneThreadMoves DEF Forwarding
<1>2. Starting' = Starting
        - (IF handlers[h].step \in {"count_episode"} THEN 1 ELSE 0)
        + (IF call.step \in {"count_episode"} THEN 1 ELSE 0)
  <2>1. "idle" \notin {"count_episode"}
    OBVIOUS
  <2>. QED
    BY <2>1, OneThreadMoves DEF Starting
<1>3. Failing' = Failing
        - (IF handlers[h].step \in {"count_read_failure"} THEN 1 ELSE 0)
        + (IF call.step \in {"count_read_failure"} THEN 1 ELSE 0)
  <2>1. "idle" \notin {"count_read_failure"}
    OBVIOUS
  <2>. QED
    BY <2>1, OneThreadMoves DEF Failing
<1>4. Reading' = Reading
        - (IF /\ handlers[h].step \in {"count_fault", "record", "count_episode",
                                       "count_attempt"}
              /\ handlers[h].report # Disconnect THEN 1 ELSE 0)
        + (IF /\ call.step \in {"count_fault", "record", "count_episode", "count_attempt"}
              /\ call.report # Disconnect THEN 1 ELSE 0)
  <2>1. "idle" \notin {"count_fault", "record", "count_episode", "count_attempt"}
    OBVIOUS
  <2>. QED
    BY <2>1, OneThreadMoves DEF Reading
<1>. QED
  BY <1>1, <1>2, <1>3, <1>4
     DEF Exchanged, IsForwarding, IsStarting, IsFailing, IsReading

-----------------------------------------------------------------------------
(* One step of a thread: it takes a request, goes on with it, or answers.    *)

\* The thread keeps its type, and no other one begins.
LEMMA Moved ==
  ASSUME TypeInv, NEW h \in Handler, NEW call \in {Idle} \cup Call,
         handlers' = [handlers EXCEPT ![h] = call]
  PROVE  handlers' \in [Handler -> {Idle} \cup Call] /\ IsFiniteSet(Serving')
<1>1. handlers' \in [Handler -> {Idle} \cup Call]
  BY DEF TypeInv
<1>2. \A g \in Handler \ {h} : handlers'[g] = handlers[g]
  BY DEF TypeInv
<1>3. Serving' \subseteq Serving \cup {h}
  BY <1>2 DEF Serving
<1>4. IsFiniteSet(Serving \cup {h})
  BY FS_AddElement DEF TypeInv
<1>. QED
  BY <1>1, <1>3, <1>4, FS_Subset

LEMMA WentOn ==
  ASSUME TypeInv, NEW h \in Handler, handlers[h] # Idle, NEW step \in Steps, GoTo(h, step)
  PROVE  \E call \in Call :
           /\ handlers' = [handlers EXCEPT ![h] = call]
           /\ call.step = step
           /\ call.device = handlers[h].device /\ call.report = handlers[h].report
<1> DEFINE call == [handlers[h] EXCEPT !.step = step]
<1>1. handlers[h] \in Call
  BY DEF TypeInv
<1>2. /\ call \in Call /\ call.step = step
      /\ call.device = handlers[h].device /\ call.report = handlers[h].report
  BY <1>1 DEF Call
<1>3. handlers' = [handlers EXCEPT ![h] = call]
  BY DEF GoTo
<1>. QED
  BY <1>2, <1>3

\* What a report does to the gauges.
LEMMA RecordMovesGauges ==
  ASSUME TypeInv, NEW d \in Device, NEW report \in Report
  PROVE  LET after == AfterRecord(devices, d, report, 0)
         IN /\ after \in [Device -> DeviceState \cup {None}]
            /\ IsFiniteSet(Tracked(after))
            /\ Cardinality(SuspectedDevices(devices)) \in Nat
            /\ Cardinality(SuspectedDevices(after)) \in Nat
            /\ Cardinality(DisconnectedDevices(devices)) \in Nat
            /\ Cardinality(DisconnectedDevices(after)) \in Nat
            /\ Cardinality(SuspectedDevices(after))
                 <= Cardinality(SuspectedDevices(devices))
                      + (IF StartsEpisode(Known(devices, d, 0), report) THEN 1 ELSE 0)
            /\ Cardinality(DisconnectedDevices(after))
                 <= Cardinality(DisconnectedDevices(devices))
                      + (IF report = Disconnect THEN 1 ELSE 0)
<1> DEFINE after == AfterRecord(devices, d, report, 0)
           state == Known(devices, d, 0)
           next == AfterReport(state, report, 0)
<1>0. 0 \in Nat /\ devices \in [Device -> DeviceState \cup {None}]
  BY DEF TypeInv
<1>1. /\ after \in [Device -> DeviceState \cup {None}]
      /\ after[d] = next
      /\ \A e \in Device \ {d} : after[e] = devices[e]
      /\ Tracked(after) = Tracked(devices) \cup {d}
  BY <1>0, AfterRecordType
<1>2. IsFiniteSet(Tracked(after))
  BY <1>1, FS_AddElement DEF TypeInv
<1>3. state \in DeviceState
  BY <1>0, KnownType
<1>4. next.disconnected = (report = Disconnect)
  BY <1>0, <1>3, AfterReportContact
<1>5. next.suspected_stuck => StartsEpisode(state, report) \/ state.suspected_stuck
  <2>1. CASE report \in Normal
    BY <1>0, <1>3, <2>1, AfterReportFields DEF StartsEpisode, StillSuspected
  <2>2. CASE report \notin Normal
    BY <1>0, <1>3, <2>2, AfterReportFields
  <2>. QED
    BY <2>1, <2>2
<1>6. state.suspected_stuck => devices[d] # None /\ devices[d].suspected_stuck
  BY DEF Known, NewDevice
<1> HIDE DEF after, state, next
<1>7. /\ SuspectedDevices(devices) \ {d} = SuspectedDevices(after) \ {d}
      /\ DisconnectedDevices(devices) \ {d} = DisconnectedDevices(after) \ {d}
  BY <1>1 DEF SuspectedDevices, DisconnectedDevices, Tracked
<1>8. /\ d \in SuspectedDevices(after) =>
           StartsEpisode(state, report) \/ d \in SuspectedDevices(devices)
      /\ d \in DisconnectedDevices(after) => report = Disconnect
  BY <1>1, <1>4, <1>5, <1>6 DEF SuspectedDevices, DisconnectedDevices, Tracked
<1>9. IsFiniteSet(SuspectedDevices(devices)) /\ IsFiniteSet(DisconnectedDevices(devices))
  BY FS_Subset DEF SuspectedDevices, DisconnectedDevices, TypeInv
<1>10. /\ Cardinality(SuspectedDevices(devices)) \in Nat
       /\ Cardinality(SuspectedDevices(after)) \in Nat
       /\ Cardinality(SuspectedDevices(after)) = Cardinality(SuspectedDevices(devices))
            - (IF d \in SuspectedDevices(devices) THEN 1 ELSE 0)
            + (IF d \in SuspectedDevices(after) THEN 1 ELSE 0)
  BY <1>7, <1>9, OneElement
<1>11. /\ Cardinality(DisconnectedDevices(devices)) \in Nat
       /\ Cardinality(DisconnectedDevices(after)) \in Nat
       /\ Cardinality(DisconnectedDevices(after)) = Cardinality(DisconnectedDevices(devices))
            - (IF d \in DisconnectedDevices(devices) THEN 1 ELSE 0)
            + (IF d \in DisconnectedDevices(after) THEN 1 ELSE 0)
  BY <1>7, <1>9, OneElement
<1>12. Cardinality(SuspectedDevices(after)) <= Cardinality(SuspectedDevices(devices))
         + (IF StartsEpisode(state, report) THEN 1 ELSE 0)
  BY <1>8, <1>10
<1>13. Cardinality(DisconnectedDevices(after)) <= Cardinality(DisconnectedDevices(devices))
         + (IF report = Disconnect THEN 1 ELSE 0)
  BY <1>8, <1>11
<1>. QED
  BY <1>1, <1>2, <1>10, <1>11, <1>12, <1>13 DEF after, state

\* What is collected, and that every value is a number.
LEMMA MetricsInOrder ==
  /\ Len(ScrapeOrder) = 8
  /\ ScrapeOrder[1] = "messages" /\ ScrapeOrder[2] = "failures"
  /\ ScrapeOrder[3] = "attempts" /\ ScrapeOrder[4] = "faults"
  /\ ScrapeOrder[5] = "read_failures" /\ ScrapeOrder[6] = "episodes"
  /\ ScrapeOrder[7] = "disconnected" /\ ScrapeOrder[8] = "stuck"
  /\ Metrics = CounterNames \cup {"disconnected", "stuck"}
<1>1. /\ Len(ScrapeOrder) = 8
      /\ ScrapeOrder[1] = "messages" /\ ScrapeOrder[2] = "failures"
      /\ ScrapeOrder[3] = "attempts" /\ ScrapeOrder[4] = "faults"
      /\ ScrapeOrder[5] = "read_failures" /\ ScrapeOrder[6] = "episodes"
      /\ ScrapeOrder[7] = "disconnected" /\ ScrapeOrder[8] = "stuck"
  BY DEF ScrapeOrder
<1>2. Metrics = {ScrapeOrder[i] : i \in {1, 2, 3, 4, 5, 6, 7, 8}}
  <2>1. 1 .. 8 = {1, 2, 3, 4, 5, 6, 7, 8}
    OBVIOUS
  <2>. QED
    BY <1>1, <2>1 DEF Metrics
<1>. QED
  BY <1>1, <1>2 DEF CounterNames

LEMMA ValuesAreNatural ==
  ASSUME TypeInv, NEW metric \in Metrics
  PROVE  Value(metric) \in Nat
<1>1. CASE metric \in CounterNames
  <2>1. Value(metric) = counters[metric]
    BY <1>1 DEF Value, CounterNames
  <2>. QED
    BY <1>1, <2>1 DEF TypeInv
<1>2. CASE metric = "disconnected"
  <2>1. IsFiniteSet(DisconnectedDevices(devices))
    BY FS_Subset DEF DisconnectedDevices, TypeInv
  <2>2. Value(metric) = Cardinality(DisconnectedDevices(devices))
    BY <1>2 DEF Value, CounterNames
  <2>. QED
    BY <2>1, <2>2, FS_CardinalityType
<1>3. CASE metric = "stuck"
  <2>1. IsFiniteSet(SuspectedDevices(devices))
    BY FS_Subset DEF SuspectedDevices, TypeInv
  <2>2. Value(metric) = Cardinality(SuspectedDevices(devices))
    BY <1>3 DEF Value, CounterNames
  <2>. QED
    BY <2>1, <2>2, FS_CardinalityType
<1>. QED
  BY <1>1, <1>2, <1>3, MetricsInOrder

\* One metric is read, into the running sample or into a new one.
LEMMA Collected ==
  ASSUME TypeInv, Collect
  PROVE  /\ scrape' \in [collected : 0 .. 8, sample : [Metrics -> Nat]]
         /\ scrape'.collected =
              (IF scrape.collected = 8 THEN 1 ELSE scrape.collected + 1)
         /\ scrape'.sample[ScrapeOrder[scrape'.collected]]
              = Value(ScrapeOrder[scrape'.collected])
         /\ scrape.collected # 8 =>
              \A m \in Metrics \ {ScrapeOrder[scrape'.collected]} :
                scrape'.sample[m] = scrape.sample[m]
         /\ UNCHANGED <<devices, handlers, counters, answers, arrived>>
<1> DEFINE i == IF scrape.collected = 8 THEN 1 ELSE scrape.collected + 1
           sample == IF scrape.collected = 8 THEN NoScrape.sample ELSE scrape.sample
           metric == ScrapeOrder[i]
<1>1. /\ scrape' = [collected |-> i, sample |-> [sample EXCEPT ![metric] = Value(metric)]]
      /\ UNCHANGED <<devices, handlers, counters, answers, arrived>>
  BY MetricsInOrder DEF Collect
<1>2. i \in 1 .. 8 /\ i = IF scrape.collected = 8 THEN 1 ELSE scrape.collected + 1
  BY DEF TypeInv
<1>3. sample \in [Metrics -> Nat]
  <2>1. NoScrape.sample = [m \in Metrics |-> 0]
    BY DEF NoScrape, Metrics
  <2>2. scrape.sample \in [Metrics -> Nat]
    BY DEF TypeInv
  <2>. QED
    BY <2>1, <2>2
<1>4. scrape.collected # 8 => sample = scrape.sample
  OBVIOUS
<1> HIDE DEF i, sample
<1>5. metric \in Metrics
  <2>1. i \in 1 .. Len(ScrapeOrder)
    BY <1>2, MetricsInOrder
  <2>. QED
    BY <2>1 DEF Metrics
<1>6. Value(metric) \in Nat
  BY <1>5, ValuesAreNatural
<1> HIDE DEF metric
<1>7. /\ scrape'.collected = i
      /\ scrape'.sample = [sample EXCEPT ![metric] = Value(metric)]
      /\ scrape' \in [collected : 0 .. 8, sample : [Metrics -> Nat]]
  BY <1>1, <1>2, <1>3, <1>5, <1>6
<1>8. /\ scrape'.sample[metric] = Value(metric)
      /\ \A m \in Metrics \ {metric} : scrape'.sample[m] = sample[m]
  BY <1>3, <1>5, <1>7
<1>. QED
  BY <1>1, <1>2, <1>4, <1>7, <1>8 DEF metric

-----------------------------------------------------------------------------
(* The invariant.                                                            *)

\* Each branch serves the requests it is for.
BranchInv ==
  \A h \in Handler :
    /\ handlers[h].step \in {"count_message", "count_fault", "count_episode",
                             "count_attempt", "forward", "count_failure"} =>
         handlers[h].report # Disconnect
    /\ handlers[h].step = "count_read_failure" => handlers[h].report = Disconnect

Suspected == Cardinality(SuspectedDevices(devices))
Disconnected == Cardinality(DisconnectedDevices(devices))

\* The properties at any moment, and what a sample that is not complete must
\* already satisfy: once the failures are read, no attempt gets lost.
CountInv ==
  /\ counters["attempts"] = answers["forwarded"] + answers["bad_gateway"] + Forwarding
  /\ counters["failures"] = answers["bad_gateway"]
  /\ counters["messages"] = counters["attempts"] + answers["reading_refused"] + Reading
  /\ Suspected <= counters["episodes"] + Starting
  /\ Disconnected <= counters["read_failures"] + Failing
  /\ scrape.collected >= 2 => scrape.sample["failures"] <= counters["attempts"]
  /\ scrape.collected >= 3 => scrape.sample["failures"] <= scrape.sample["attempts"]
  /\ scrape.collected >= 7 =>
       scrape.sample["disconnected"] <= counters["read_failures"] + Failing

GatewayInv == TypeInv /\ BranchInv /\ CountInv

\* A thread goes to a step of its branch; the rest keeps its type.
LEMMA ThreadKeepsTypes ==
  ASSUME TypeInv, BranchInv, NEW h \in Handler, NEW call \in {Idle} \cup Call,
         handlers' = [handlers EXCEPT ![h] = call],
         call.step \in {"count_message", "count_fault", "count_episode",
                        "count_attempt", "forward", "count_failure"} =>
           call.report # Disconnect,
         call.step = "count_read_failure" => call.report = Disconnect,
         devices' \in [Device -> DeviceState \cup {None}], IsFiniteSet(Tracked(devices')),
         counters' \in [CounterNames -> Nat], answers' \in [AnswerNames -> Nat],
         arrived' \in 0 .. MaxRequests, scrape' = scrape
  PROVE  TypeInv' /\ BranchInv'
<1>1. handlers' \in [Handler -> {Idle} \cup Call] /\ IsFiniteSet(Serving')
  BY Moved
<1>2. TypeInv'
  BY <1>1 DEF TypeInv
<1>3. /\ handlers'[h] = call
      /\ \A g \in Handler \ {h} : handlers'[g] = handlers[g]
  BY DEF TypeInv
<1>4. BranchInv'
  BY <1>3 DEF BranchInv
<1>. QED
  BY <1>2, <1>4

\* Counters and answers only ever grow by one.
LEMMA OneMore ==
  ASSUME TypeInv
  PROVE  /\ \A c \in CounterNames : Count(c) =>
              /\ counters' \in [CounterNames -> Nat]
              /\ counters'[c] = counters[c] + 1
              /\ \A e \in CounterNames \ {c} : counters'[e] = counters[e]
         /\ \A h \in Handler, a \in AnswerNames : Answer(h, a) =>
              /\ handlers' = [handlers EXCEPT ![h] = Idle]
              /\ answers' \in [AnswerNames -> Nat]
              /\ answers'[a] = answers[a] + 1
              /\ \A e \in AnswerNames \ {a} : answers'[e] = answers[e]
BY DEF TypeInv, Count, Answer

LEMMA GaugesStay ==
  ASSUME UNCHANGED devices
  PROVE  UNCHANGED <<Suspected, Disconnected>>
BY DEF Suspected, Disconnected

LEMMA NumbersAreNatural ==
  ASSUME TypeInv
  PROVE  /\ Forwarding \in Nat /\ Starting \in Nat /\ Failing \in Nat /\ Reading \in Nat
         /\ Suspected \in Nat /\ Disconnected \in Nat
         /\ \A c \in CounterNames : counters[c] \in Nat
         /\ \A a \in AnswerNames : answers[a] \in Nat
         /\ scrape.collected \in 0 .. 8
         /\ \A m \in Metrics : scrape.sample[m] \in Nat
<1>1. IsFiniteSet(SuspectedDevices(devices)) /\ IsFiniteSet(DisconnectedDevices(devices))
  BY FS_Subset DEF SuspectedDevices, DisconnectedDevices, TypeInv
<1>2. Suspected \in Nat /\ Disconnected \in Nat
  BY <1>1, FS_CardinalityType DEF Suspected, Disconnected
<1>3. /\ \A c \in CounterNames : counters[c] \in Nat
      /\ \A a \in AnswerNames : answers[a] \in Nat
  BY DEF TypeInv
<1>4. scrape.collected \in 0 .. 8 /\ \A m \in Metrics : scrape.sample[m] \in Nat
  BY DEF TypeInv
<1>. QED
  BY <1>2, <1>3, <1>4, CountsAreNatural

LEMMA FaultCounted ==
  ASSUME GatewayInv, NEW h \in Handler, CountFault(h)
  PROVE  GatewayInv'
<1>1. /\ handlers[h].step = "count_fault" /\ handlers[h] # Idle
      /\ handlers[h].report # Disconnect
  BY DEF CountFault, At, Idle, GatewayInv, BranchInv
<1>2. PICK call \in Call : /\ handlers' = [handlers EXCEPT ![h] = call]
                           /\ call.step = "record"
                           /\ call.report = handlers[h].report
  BY <1>1, WentOn DEF CountFault, GatewayInv, Steps
<1>3. /\ counters' \in [CounterNames -> Nat]
      /\ counters'["faults"] = counters["faults"] + 1
      /\ \A e \in CounterNames \ {"faults"} : counters'[e] = counters[e]
  BY OneMore DEF CountFault, GatewayInv, CounterNames
<1>4. UNCHANGED <<devices, scrape, answers, arrived>>
  BY DEF CountFault
<1>5. TypeInv' /\ BranchInv'
  BY <1>1, <1>2, <1>3, <1>4, ThreadKeepsTypes DEF GatewayInv, TypeInv
<1>6. /\ Forwarding' = Forwarding /\ Starting' = Starting
      /\ Failing' = Failing /\ Reading' = Reading
  <2>1. Exchanged(handlers[h], call)
    BY <1>2, CountsMove DEF GatewayInv
  <2>2. TypeInv
    BY DEF GatewayInv
  <2>. QED
    BY <1>1, <1>2, <2>1, <2>2, NumbersAreNatural
       DEF Exchanged, IsForwarding, IsStarting, IsFailing, IsReading
<1>7. CountInv'
  BY <1>4, <1>3, <1>6, GaugesStay, NumbersAreNatural, MetricsInOrder
     DEF GatewayInv, CountInv, CounterNames, AnswerNames
<1>. QED
  BY <1>5, <1>7 DEF GatewayInv

LEMMA EpisodeCounted ==
  ASSUME GatewayInv, NEW h \in Handler, CountEpisode(h)
  PROVE  GatewayInv'
<1>1. /\ handlers[h].step = "count_episode" /\ handlers[h] # Idle
      /\ handlers[h].report # Disconnect
  BY DEF CountEpisode, At, Idle, GatewayInv, BranchInv
<1>2. PICK call \in Call : /\ handlers' = [handlers EXCEPT ![h] = call]
                           /\ call.step = "count_attempt"
                           /\ call.report = handlers[h].report
  BY <1>1, WentOn DEF CountEpisode, GatewayInv, Steps
<1>3. /\ counters' \in [CounterNames -> Nat]
      /\ counters'["episodes"] = counters["episodes"] + 1
      /\ \A e \in CounterNames \ {"episodes"} : counters'[e] = counters[e]
  BY OneMore DEF CountEpisode, GatewayInv, CounterNames
<1>4. UNCHANGED <<devices, scrape, answers, arrived>>
  BY DEF CountEpisode
<1>5. TypeInv' /\ BranchInv'
  BY <1>1, <1>2, <1>3, <1>4, ThreadKeepsTypes DEF GatewayInv, TypeInv
<1>6. /\ Forwarding' = Forwarding /\ Starting' = Starting - 1
      /\ Failing' = Failing /\ Reading' = Reading
  <2>1. Exchanged(handlers[h], call)
    BY <1>2, CountsMove DEF GatewayInv
  <2>2. TypeInv
    BY DEF GatewayInv
  <2>. QED
    BY <1>1, <1>2, <2>1, <2>2, NumbersAreNatural
       DEF Exchanged, IsForwarding, IsStarting, IsFailing, IsReading
<1>7. CountInv'
  BY <1>4, <1>3, <1>6, GaugesStay, NumbersAreNatural, MetricsInOrder
     DEF GatewayInv, CountInv, CounterNames, AnswerNames
<1>. QED
  BY <1>5, <1>7 DEF GatewayInv

LEMMA AttemptCounted ==
  ASSUME GatewayInv, NEW h \in Handler, CountAttempt(h)
  PROVE  GatewayInv'
<1>1. /\ handlers[h].step = "count_attempt" /\ handlers[h] # Idle
      /\ handlers[h].report # Disconnect
  BY DEF CountAttempt, At, Idle, GatewayInv, BranchInv
<1>2. PICK call \in Call : /\ handlers' = [handlers EXCEPT ![h] = call]
                           /\ call.step = "forward"
                           /\ call.report = handlers[h].report
  BY <1>1, WentOn DEF CountAttempt, GatewayInv, Steps
<1>3. /\ counters' \in [CounterNames -> Nat]
      /\ counters'["attempts"] = counters["attempts"] + 1
      /\ \A e \in CounterNames \ {"attempts"} : counters'[e] = counters[e]
  BY OneMore DEF CountAttempt, GatewayInv, CounterNames
<1>4. UNCHANGED <<devices, scrape, answers, arrived>>
  BY DEF CountAttempt
<1>5. TypeInv' /\ BranchInv'
  BY <1>1, <1>2, <1>3, <1>4, ThreadKeepsTypes DEF GatewayInv, TypeInv
<1>6. /\ Forwarding' = Forwarding + 1 /\ Starting' = Starting
      /\ Failing' = Failing /\ Reading' = Reading - 1
  <2>1. Exchanged(handlers[h], call)
    BY <1>2, CountsMove DEF GatewayInv
  <2>2. TypeInv
    BY DEF GatewayInv
  <2>. QED
    BY <1>1, <1>2, <2>1, <2>2, NumbersAreNatural
       DEF Exchanged, IsForwarding, IsStarting, IsFailing, IsReading
<1>7. CountInv'
  BY <1>4, <1>3, <1>6, GaugesStay, NumbersAreNatural, MetricsInOrder
     DEF GatewayInv, CountInv, CounterNames, AnswerNames
<1>. QED
  BY <1>5, <1>7 DEF GatewayInv

LEMMA ForwardRefused ==
  ASSUME GatewayInv, NEW h \in Handler, ForwardRejected(h)
  PROVE  GatewayInv'
<1>1. /\ handlers[h].step = "forward" /\ handlers[h] # Idle
      /\ handlers[h].report # Disconnect
  BY DEF ForwardRejected, At, Idle, GatewayInv, BranchInv
<1>2. PICK call \in Call : /\ handlers' = [handlers EXCEPT ![h] = call]
                           /\ call.step = "count_failure"
                           /\ call.report = handlers[h].report
  BY <1>1, WentOn DEF ForwardRejected, GatewayInv, Steps
<1>4. UNCHANGED <<devices, counters, scrape, answers, arrived>>
  BY DEF ForwardRejected
<1>5. TypeInv' /\ BranchInv'
  BY <1>1, <1>2, <1>4, ThreadKeepsTypes DEF GatewayInv, TypeInv
<1>6. /\ Forwarding' = Forwarding /\ Starting' = Starting
      /\ Failing' = Failing /\ Reading' = Reading
  <2>1. Exchanged(handlers[h], call)
    BY <1>2, CountsMove DEF GatewayInv
  <2>2. TypeInv
    BY DEF GatewayInv
  <2>. QED
    BY <1>1, <1>2, <2>1, <2>2, NumbersAreNatural
       DEF Exchanged, IsForwarding, IsStarting, IsFailing, IsReading
<1>7. CountInv'
  BY <1>4, <1>6, GaugesStay, NumbersAreNatural, MetricsInOrder
     DEF GatewayInv, CountInv, CounterNames, AnswerNames
<1>. QED
  BY <1>5, <1>7 DEF GatewayInv

LEMMA ForwardGivenUp ==
  ASSUME GatewayInv, NEW h \in Handler, ForwardTimesOut(h)
  PROVE  GatewayInv'
<1>1. /\ handlers[h].step = "forward" /\ handlers[h] # Idle
      /\ handlers[h].report # Disconnect
  BY DEF ForwardTimesOut, At, Idle, GatewayInv, BranchInv
<1>2. PICK call \in Call : /\ handlers' = [handlers EXCEPT ![h] = call]
                           /\ call.step = "count_failure"
                           /\ call.report = handlers[h].report
  BY <1>1, WentOn DEF ForwardTimesOut, GatewayInv, Steps
<1>4. UNCHANGED <<devices, counters, scrape, answers, arrived>>
  BY DEF ForwardTimesOut
<1>5. TypeInv' /\ BranchInv'
  BY <1>1, <1>2, <1>4, ThreadKeepsTypes DEF GatewayInv, TypeInv
<1>6. /\ Forwarding' = Forwarding /\ Starting' = Starting
      /\ Failing' = Failing /\ Reading' = Reading
  <2>1. Exchanged(handlers[h], call)
    BY <1>2, CountsMove DEF GatewayInv
  <2>2. TypeInv
    BY DEF GatewayInv
  <2>. QED
    BY <1>1, <1>2, <2>1, <2>2, NumbersAreNatural
       DEF Exchanged, IsForwarding, IsStarting, IsFailing, IsReading
<1>7. CountInv'
  BY <1>4, <1>6, GaugesStay, NumbersAreNatural, MetricsInOrder
     DEF GatewayInv, CountInv, CounterNames, AnswerNames
<1>. QED
  BY <1>5, <1>7 DEF GatewayInv

LEMMA ForwardAnswered ==
  ASSUME GatewayInv, NEW h \in Handler, ForwardSucceeds(h)
  PROVE  GatewayInv'
<1>1. /\ handlers[h].step = "forward" /\ handlers[h] # Idle
      /\ handlers[h].report # Disconnect
  BY DEF ForwardSucceeds, At, Idle, GatewayInv, BranchInv
<1>2. /\ handlers' = [handlers EXCEPT ![h] = Idle]
      /\ answers' \in [AnswerNames -> Nat]
      /\ answers'["forwarded"] = answers["forwarded"] + 1
      /\ \A e \in AnswerNames \ {"forwarded"} : answers'[e] = answers[e]
  BY OneMore DEF ForwardSucceeds, GatewayInv, AnswerNames
<1>4. UNCHANGED <<devices, counters, scrape, arrived>>
  BY DEF ForwardSucceeds
<1>5. TypeInv' /\ BranchInv'
  BY <1>2, <1>4, ThreadKeepsTypes DEF GatewayInv, TypeInv, Idle
<1>6. /\ Forwarding' = Forwarding - 1 /\ Starting' = Starting
      /\ Failing' = Failing /\ Reading' = Reading
  <2>1. Exchanged(handlers[h], Idle)
    BY <1>2, CountsMove DEF GatewayInv
  <2>2. TypeInv
    BY DEF GatewayInv
  <2>. QED
    BY <1>1, <1>2, <2>1, <2>2, NumbersAreNatural
       DEF Exchanged, IsForwarding, IsStarting, IsFailing, IsReading, Idle
<1>7. CountInv'
  BY <1>4, <1>2, <1>6, GaugesStay, NumbersAreNatural, MetricsInOrder
     DEF GatewayInv, CountInv, CounterNames, AnswerNames
<1>. QED
  BY <1>5, <1>7 DEF GatewayInv

LEMMA FailureCounted ==
  ASSUME GatewayInv, NEW h \in Handler, CountFailure(h)
  PROVE  GatewayInv'
<1>1. /\ handlers[h].step = "count_failure" /\ handlers[h] # Idle
      /\ handlers[h].report # Disconnect
  BY DEF CountFailure, At, Idle, GatewayInv, BranchInv
<1>2. /\ handlers' = [handlers EXCEPT ![h] = Idle]
      /\ answers' \in [AnswerNames -> Nat]
      /\ answers'["bad_gateway"] = answers["bad_gateway"] + 1
      /\ \A e \in AnswerNames \ {"bad_gateway"} : answers'[e] = answers[e]
  BY OneMore DEF CountFailure, GatewayInv, AnswerNames
<1>3. /\ counters' \in [CounterNames -> Nat]
      /\ counters'["failures"] = counters["failures"] + 1
      /\ \A e \in CounterNames \ {"failures"} : counters'[e] = counters[e]
  BY OneMore DEF CountFailure, GatewayInv, CounterNames
<1>4. UNCHANGED <<devices, scrape, arrived>>
  BY DEF CountFailure
<1>5. TypeInv' /\ BranchInv'
  BY <1>2, <1>3, <1>4, ThreadKeepsTypes DEF GatewayInv, TypeInv, Idle
<1>6. /\ Forwarding' = Forwarding - 1 /\ Starting' = Starting
      /\ Failing' = Failing /\ Reading' = Reading
  <2>1. Exchanged(handlers[h], Idle)
    BY <1>2, CountsMove DEF GatewayInv
  <2>2. TypeInv
    BY DEF GatewayInv
  <2>. QED
    BY <1>1, <1>2, <2>1, <2>2, NumbersAreNatural
       DEF Exchanged, IsForwarding, IsStarting, IsFailing, IsReading, Idle
<1>7. CountInv'
  BY <1>4, <1>3, <1>2, <1>6, GaugesStay, NumbersAreNatural, MetricsInOrder
     DEF GatewayInv, CountInv, CounterNames, AnswerNames
<1>. QED
  BY <1>5, <1>7 DEF GatewayInv

LEMMA ReadFailureCounted ==
  ASSUME GatewayInv, NEW h \in Handler, CountReadFailure(h)
  PROVE  GatewayInv'
<1>1. /\ handlers[h].step = "count_read_failure" /\ handlers[h] # Idle
      /\ handlers[h].report = Disconnect
  BY DEF CountReadFailure, At, Idle, GatewayInv, BranchInv
<1>2. /\ handlers' = [handlers EXCEPT ![h] = Idle]
      /\ answers' \in [AnswerNames -> Nat]
      /\ answers'["recorded"] = answers["recorded"] + 1
      /\ \A e \in AnswerNames \ {"recorded"} : answers'[e] = answers[e]
  BY OneMore DEF CountReadFailure, GatewayInv, AnswerNames
<1>3. /\ counters' \in [CounterNames -> Nat]
      /\ counters'["read_failures"] = counters["read_failures"] + 1
      /\ \A e \in CounterNames \ {"read_failures"} : counters'[e] = counters[e]
  BY OneMore DEF CountReadFailure, GatewayInv, CounterNames
<1>4. UNCHANGED <<devices, scrape, arrived>>
  BY DEF CountReadFailure
<1>5. TypeInv' /\ BranchInv'
  BY <1>2, <1>3, <1>4, ThreadKeepsTypes DEF GatewayInv, TypeInv, Idle
<1>6. /\ Forwarding' = Forwarding /\ Starting' = Starting
      /\ Failing' = Failing - 1 /\ Reading' = Reading
  <2>1. Exchanged(handlers[h], Idle)
    BY <1>2, CountsMove DEF GatewayInv
  <2>2. TypeInv
    BY DEF GatewayInv
  <2>. QED
    BY <1>1, <1>2, <2>1, <2>2, NumbersAreNatural
       DEF Exchanged, IsForwarding, IsStarting, IsFailing, IsReading, Idle
<1>7. CountInv'
  BY <1>4, <1>3, <1>2, <1>6, GaugesStay, NumbersAreNatural, MetricsInOrder
     DEF GatewayInv, CountInv, CounterNames, AnswerNames
<1>. QED
  BY <1>5, <1>7 DEF GatewayInv

LEMMA MessageCounted ==
  ASSUME GatewayInv, NEW h \in Handler, CountMessage(h)
  PROVE  GatewayInv'
<1> DEFINE to == IF handlers[h].report \in Sentinel THEN "count_fault" ELSE "record"
<1>1. /\ handlers[h].step = "count_message" /\ handlers[h] # Idle
      /\ handlers[h].report # Disconnect
      /\ to \in {"count_fault", "record"} /\ to \in Steps
  BY DEF CountMessage, At, Idle, GatewayInv, BranchInv, Steps
<1>2. PICK call \in Call : /\ handlers' = [handlers EXCEPT ![h] = call]
                           /\ call.step = to
                           /\ call.report = handlers[h].report
  BY <1>1, WentOn DEF CountMessage, GatewayInv
<1> HIDE DEF to
<1>3. /\ counters' \in [CounterNames -> Nat]
      /\ counters'["messages"] = counters["messages"] + 1
      /\ \A e \in CounterNames \ {"messages"} : counters'[e] = counters[e]
  BY OneMore DEF CountMessage, GatewayInv, CounterNames
<1>4. UNCHANGED <<devices, scrape, answers, arrived>>
  BY DEF CountMessage
<1>5. TypeInv' /\ BranchInv'
  BY <1>1, <1>2, <1>3, <1>4, ThreadKeepsTypes DEF GatewayInv, TypeInv
<1>6. /\ Forwarding' = Forwarding /\ Starting' = Starting
      /\ Failing' = Failing /\ Reading' = Reading + 1
  <2>1. Exchanged(handlers[h], call)
    BY <1>2, CountsMove DEF GatewayInv
  <2>2. TypeInv
    BY DEF GatewayInv
  <2>. QED
    BY <1>1, <1>2, <2>1, <2>2, NumbersAreNatural
       DEF Exchanged, IsForwarding, IsStarting, IsFailing, IsReading
<1>7. CountInv'
  BY <1>4, <1>3, <1>6, GaugesStay, NumbersAreNatural, MetricsInOrder
     DEF GatewayInv, CountInv, CounterNames, AnswerNames
<1>. QED
  BY <1>5, <1>7 DEF GatewayInv

LEMMA RequestArrives ==
  ASSUME GatewayInv, NEW h \in Handler, NEW d \in Device, NEW report \in Report,
         NEW step \in Steps, Serve(h, d, report, step),
         \/ step = "count_message" /\ report # Disconnect
         \/ step = "record" /\ report = Disconnect
  PROVE  GatewayInv'
<1> DEFINE call == [step |-> step, device |-> d, report |-> report]
<1>1. handlers[h].step = "idle"
  BY DEF Serve, Idle
<1>2. /\ call \in Call /\ call.step = step /\ call.report = report
      /\ handlers' = [handlers EXCEPT ![h] = call]
  BY DEF Serve, Call
<1> HIDE DEF call
<1>3. UNCHANGED <<devices, counters, scrape, answers>> /\ arrived' \in 0 .. MaxRequests
  BY MaxRequestsIsNatural DEF Serve, GatewayInv, TypeInv
<1>4. TypeInv' /\ BranchInv'
  BY <1>2, <1>3, ThreadKeepsTypes DEF GatewayInv, TypeInv
<1>5. /\ Forwarding' = Forwarding /\ Starting' = Starting
      /\ Failing' = Failing /\ Reading' = Reading
  <2>1. Exchanged(handlers[h], call)
    BY <1>2, CountsMove DEF GatewayInv
  <2>2. TypeInv
    BY DEF GatewayInv
  <2>. QED
    BY <1>1, <1>2, <2>1, <2>2, NumbersAreNatural
       DEF Exchanged, IsForwarding, IsStarting, IsFailing, IsReading
<1>6. CountInv'
  BY <1>3, <1>5, GaugesStay, NumbersAreNatural, MetricsInOrder
     DEF GatewayInv, CountInv, CounterNames, AnswerNames
<1>. QED
  BY <1>4, <1>6 DEF GatewayInv

LEMMA ReportRefused ==
  ASSUME GatewayInv, NEW h \in Handler, Refuse(h)
  PROVE  GatewayInv'
<1> DEFINE answer == IF handlers[h].report = Disconnect
                       THEN "status_refused" ELSE "reading_refused"
<1>1. handlers[h].step = "record" /\ answer \in AnswerNames
  BY DEF Refuse, At, AnswerNames
<1>2. /\ handlers' = [handlers EXCEPT ![h] = Idle]
      /\ answers' \in [AnswerNames -> Nat]
      /\ answers'[answer] = answers[answer] + 1
      /\ \A e \in AnswerNames \ {answer} : answers'[e] = answers[e]
  BY <1>1, OneMore DEF Refuse, GatewayInv
<1>3. UNCHANGED <<devices, counters, scrape, arrived>>
  BY DEF Refuse
<1>4. TypeInv' /\ BranchInv'
  BY <1>2, <1>3, ThreadKeepsTypes DEF GatewayInv, TypeInv, Idle
<1>5. /\ Forwarding' = Forwarding /\ Starting' = Starting /\ Failing' = Failing
      /\ Reading' = Reading - (IF handlers[h].report = Disconnect THEN 0 ELSE 1)
  <2>1. Exchanged(handlers[h], Idle)
    BY <1>2, CountsMove DEF GatewayInv
  <2>2. TypeInv
    BY DEF GatewayInv
  <2>. QED
    BY <1>1, <1>2, <2>1, <2>2, NumbersAreNatural
       DEF Exchanged, IsForwarding, IsStarting, IsFailing, IsReading, Idle
<1>6. answers'["reading_refused"] = answers["reading_refused"]
                                      + (IF handlers[h].report = Disconnect THEN 0 ELSE 1)
  BY <1>1, <1>2, NumbersAreNatural DEF AnswerNames, GatewayInv
<1>7. /\ answers'["forwarded"] = answers["forwarded"]
      /\ answers'["bad_gateway"] = answers["bad_gateway"]
  BY <1>2 DEF AnswerNames
<1> HIDE DEF answer
<1>8. CountInv'
  BY <1>3, <1>5, <1>6, <1>7, GaugesStay, NumbersAreNatural, MetricsInOrder
     DEF GatewayInv, CountInv, CounterNames, AnswerNames
<1>. QED
  BY <1>4, <1>8 DEF GatewayInv

\* The one step that changes the registry: what it adds to a gauge it adds to the
\* threads that are about to count it.
LEMMA ReportRecorded ==
  ASSUME GatewayInv, NEW h \in Handler, Record(h)
  PROVE  GatewayInv'
<1> DEFINE d == handlers[h].device
           report == handlers[h].report
           to == AfterRecording(h, Known(devices, d, 0))
           starts == StartsEpisode(Known(devices, d, 0), report)
<1>1. /\ handlers[h].step = "record" /\ handlers[h] # Idle
      /\ d \in Device /\ report \in Report
      /\ TypeInv
  BY StepsOfCalls DEF Record, At, Idle, GatewayInv
<1>2. \/ to = "count_read_failure" /\ report = Disconnect /\ ~starts
      \/ to = "count_episode" /\ report # Disconnect /\ starts
      \/ to = "count_attempt" /\ report # Disconnect /\ ~starts
  BY ReportsDiffer DEF AfterRecording, StartsEpisode
<1>3. /\ to \in Steps /\ GoTo(h, to) /\ devices' = AfterRecord(devices, d, report, 0)
      /\ UNCHANGED <<counters, scrape, answers, arrived>>
  <2>1. to \in Steps
    <3> HIDE DEF to
    <3>. QED
      BY <1>2 DEF Steps
  <2>2. GoTo(h, to) /\ devices' = AfterRecord(devices, d, report, 0)
    BY DEF Record
  <2>3. UNCHANGED <<counters, scrape, answers, arrived>>
    BY DEF Record
  <2>. QED
    BY <2>1, <2>2, <2>3
<1>4. /\ devices' \in [Device -> DeviceState \cup {None}] /\ IsFiniteSet(Tracked(devices'))
      /\ Suspected' \in Nat /\ Disconnected' \in Nat
      /\ Suspected' <= Suspected + (IF starts THEN 1 ELSE 0)
      /\ Disconnected' <= Disconnected + (IF report = Disconnect THEN 1 ELSE 0)
  <2> HIDE DEF d, report
  <2>1. /\ Suspected' = Cardinality(SuspectedDevices(devices'))
        /\ Disconnected' = Cardinality(DisconnectedDevices(devices'))
    BY DEF Suspected, Disconnected, SuspectedDevices, DisconnectedDevices
  <2>. QED
    BY <1>1, <1>3, <2>1, RecordMovesGauges DEF Suspected, Disconnected, starts
<1> HIDE DEF d, to, starts
<1>5. PICK call \in Call : /\ handlers' = [handlers EXCEPT ![h] = call]
                           /\ call.step = to /\ call.report = report
  BY <1>1, <1>3, WentOn
<1> HIDE DEF report
<1>6. TypeInv' /\ BranchInv'
  BY <1>2, <1>3, <1>4, <1>5, ThreadKeepsTypes DEF GatewayInv, TypeInv
<1>7. /\ Forwarding' = Forwarding
      /\ Starting' = Starting + (IF starts THEN 1 ELSE 0)
      /\ Failing' = Failing + (IF report = Disconnect THEN 1 ELSE 0)
      /\ Reading' = Reading
  <2>1. Exchanged(handlers[h], call)
    BY <1>5, CountsMove DEF GatewayInv
  <2>2. TypeInv
    BY DEF GatewayInv
  <2>. QED
    BY <1>1, <1>2, <1>5, <2>1, <2>2, NumbersAreNatural
       DEF Exchanged, IsForwarding, IsStarting, IsFailing, IsReading, report
<1>8. CountInv'
  BY <1>3, <1>4, <1>7, NumbersAreNatural, MetricsInOrder
     DEF GatewayInv, CountInv, CounterNames, AnswerNames
<1>. QED
  BY <1>6, <1>8 DEF GatewayInv

-----------------------------------------------------------------------------
(* The scrape, the restart and the theorems.                                 *)

LEMMA MetricCollected ==
  ASSUME GatewayInv, Collect
  PROVE  GatewayInv'
<1>0. TypeInv /\ BranchInv /\ CountInv
  BY DEF GatewayInv
<1> DEFINE metric == ScrapeOrder[scrape'.collected]
<1>1. /\ scrape' \in [collected : 0 .. 8, sample : [Metrics -> Nat]]
      /\ scrape'.collected = (IF scrape.collected = 8 THEN 1 ELSE scrape.collected + 1)
      /\ scrape'.sample[metric] = Value(metric)
      /\ scrape.collected # 8 =>
           \A m \in Metrics \ {metric} : scrape'.sample[m] = scrape.sample[m]
      /\ UNCHANGED <<devices, handlers, counters, answers, arrived>>
  BY <1>0, Collected
<1>2. TypeInv' /\ BranchInv'
  <2>1. UNCHANGED Serving
    BY <1>1 DEF Serving
  <2>. QED
    BY <1>0, <1>1, <2>1 DEF TypeInv, BranchInv
<1>3. UNCHANGED <<Forwarding, Starting, Failing, Reading, Suspected, Disconnected>>
  BY <1>1 DEF Forwarding, Starting, Failing, Reading, Suspected, Disconnected,
              Busy, ServingReading
<1>4. /\ metric = "failures" => Value(metric) = counters["failures"]
      /\ metric = "attempts" => Value(metric) = counters["attempts"]
      /\ metric = "disconnected" => Value(metric) = Disconnected
  BY DEF Value, CounterNames, Disconnected
<1>5. /\ counters["failures"] <= counters["attempts"]
      /\ Disconnected <= counters["read_failures"] + Failing
  BY <1>0, NumbersAreNatural DEF CountInv, CounterNames, AnswerNames
<1>6. /\ "failures" \in Metrics /\ "attempts" \in Metrics /\ "disconnected" \in Metrics
      /\ scrape.collected \in 0 .. 8
  BY <1>0, MetricsInOrder, NumbersAreNatural DEF CounterNames
<1>7. scrape'.collected >= 2 => scrape'.sample["failures"] <= counters["attempts"]
  <2>1. CASE scrape'.collected = 2
    <3>1. metric = "failures"
      BY <2>1, MetricsInOrder
    <3>. QED
      BY <1>1, <1>4, <1>5, <3>1
  <2>2. CASE scrape'.collected > 2
    <3>1. /\ metric # "failures"
          /\ scrape.collected # 8 /\ scrape.collected >= 2
      BY <1>1, <1>6, <2>2, MetricsInOrder
    <3>2. scrape'.sample["failures"] = scrape.sample["failures"]
      BY <1>1, <1>6, <3>1
    <3>. QED
      BY <1>0, <3>1, <3>2 DEF CountInv
  <2>. QED
    BY <1>1, <1>6, <2>1, <2>2
<1>8. scrape'.collected >= 3 => scrape'.sample["failures"] <= scrape'.sample["attempts"]
  <2>1. CASE scrape'.collected = 3
    <3>1. metric = "attempts"
      BY <2>1, MetricsInOrder
    <3>. QED
      BY <1>1, <1>4, <1>7, <2>1, <3>1
  <2>2. CASE scrape'.collected > 3
    <3>1. /\ metric # "failures" /\ metric # "attempts"
          /\ scrape.collected # 8 /\ scrape.collected >= 3
      BY <1>1, <1>6, <2>2, MetricsInOrder
    <3>2. /\ scrape'.sample["failures"] = scrape.sample["failures"]
          /\ scrape'.sample["attempts"] = scrape.sample["attempts"]
      BY <1>1, <1>6, <3>1
    <3>. QED
      BY <1>0, <3>1, <3>2 DEF CountInv
  <2>. QED
    BY <1>1, <1>6, <2>1, <2>2
<1>9. scrape'.collected >= 7 =>
        scrape'.sample["disconnected"] <= counters["read_failures"] + Failing
  <2>1. CASE scrape'.collected = 7
    <3>1. metric = "disconnected"
      BY <2>1, MetricsInOrder
    <3>. QED
      BY <1>1, <1>4, <1>5, <3>1
  <2>2. CASE scrape'.collected > 7
    <3>1. /\ metric # "disconnected"
          /\ scrape.collected # 8 /\ scrape.collected >= 7
      BY <1>1, <1>6, <2>2, MetricsInOrder
    <3>2. scrape'.sample["disconnected"] = scrape.sample["disconnected"]
      BY <1>1, <1>6, <3>1
    <3>. QED
      BY <1>0, <3>1, <3>2 DEF CountInv
  <2>. QED
    BY <1>1, <1>6, <2>1, <2>2
<1> HIDE DEF metric
<1>10. CountInv'
  BY <1>0, <1>1, <1>3, <1>7, <1>8, <1>9 DEF CountInv
<1>. QED
  BY <1>2, <1>10 DEF GatewayInv

\* A process that has just started has counted nothing and serves nobody.
Fresh ==
  /\ devices = EmptyRegistry /\ handlers = [h \in Handler |-> Idle]
  /\ counters = [c \in CounterNames |-> 0] /\ answers = [a \in AnswerNames |-> 0]
  /\ scrape = NoScrape /\ arrived \in 0 .. MaxRequests

LEMMA FreshProcess == Fresh => GatewayInv
<1> SUFFICES ASSUME Fresh PROVE GatewayInv
  OBVIOUS
<1> USE DEF Fresh
<1>1. Serving = {} /\ Tracked(devices) = {}
  BY DEF Serving, Tracked, EmptyRegistry
<1>2. scrape = [collected |-> 0, sample |-> [m \in Metrics |-> 0]]
  BY DEF NoScrape, Metrics
<1>3. scrape \in [collected : 0 .. 8, sample : [Metrics -> Nat]] /\ scrape.collected = 0
  BY <1>2
<1>4. TypeInv
  BY <1>1, <1>3, FS_EmptySet DEF TypeInv, EmptyRegistry
<1>5. BranchInv
  BY DEF BranchInv, Idle
<1>6. /\ Forwarding = 0 /\ Starting = 0 /\ Failing = 0 /\ Reading = 0
      /\ Suspected = 0 /\ Disconnected = 0
  <2>1. \A steps : "idle" \notin steps => Busy(steps) = 0 /\ ServingReading(steps) = 0
    <3> SUFFICES ASSUME NEW steps, "idle" \notin steps
                 PROVE  Busy(steps) = 0 /\ ServingReading(steps) = 0
      OBVIOUS
    <3>1. /\ {h \in Handler : handlers[h].step \in steps} = {}
          /\ {h \in Handler : /\ handlers[h].step \in steps
                              /\ handlers[h].report # Disconnect} = {}
      BY DEF Idle
    <3>. QED
      BY <3>1, FS_EmptySet DEF Busy, ServingReading
  <2>2. Suspected = 0 /\ Disconnected = 0
    BY <1>1, FS_EmptySet DEF Suspected, Disconnected, SuspectedDevices, DisconnectedDevices
  <2>. QED
    BY <2>1, <2>2 DEF Forwarding, Starting, Failing, Reading
<1>7. CountInv
  BY <1>3, <1>6 DEF CountInv, CounterNames, AnswerNames
<1>. QED
  BY <1>4, <1>5, <1>7 DEF GatewayInv

LEMMA GatewayInvariant == Spec => []GatewayInv
<1>1. Init => GatewayInv
  BY MaxRequestsIsNatural, FreshProcess DEF Init, Fresh
<1>0. Fresh' => GatewayInv'
  BY FreshProcess, PTL
<1>2. GatewayInv /\ [Next]_vars => GatewayInv'
  <2> SUFFICES ASSUME GatewayInv, [Next]_vars PROVE GatewayInv'
    OBVIOUS
  <2>1. ASSUME NEW h \in Handler, NEW d \in Device, ReceiveDeviceData(h, d)
        PROVE  GatewayInv'
    <3>1. PICK reading \in Normal \cup Sentinel : Serve(h, d, reading, "count_message")
      BY <2>1 DEF ReceiveDeviceData
    <3>2. reading \in Report /\ reading # Disconnect /\ "count_message" \in Steps
      BY ReportsDiffer DEF Report, Steps
    <3>. QED
      BY <3>1, <3>2, RequestArrives
  <2>2. ASSUME NEW h \in Handler, NEW d \in Device, ReceiveDeviceStatus(h, d)
        PROVE  GatewayInv'
    <3>1. Disconnect \in Report /\ "record" \in Steps
      BY DEF Report, Steps
    <3>. QED
      BY <2>2, <3>1, RequestArrives DEF ReceiveDeviceStatus
  <2>3. ASSUME NEW h \in Handler, Proceed(h)
        PROVE  GatewayInv'
    BY <2>3, MessageCounted, FaultCounted, ReportRecorded, ReportRefused, EpisodeCounted,
       ReadFailureCounted, AttemptCounted, ForwardGivenUp, FailureCounted DEF Proceed
  <2>4. ASSUME NEW h \in Handler, CloudAnswers(h)
        PROVE  GatewayInv'
    BY <2>4, ForwardAnswered, ForwardRefused DEF CloudAnswers
  <2>5. CASE Collect
    BY <2>5, MetricCollected
  <2>6. CASE Restart
    <3>1. arrived' \in 0 .. MaxRequests
      BY <2>6 DEF Restart, GatewayInv, TypeInv
    <3>. QED
      BY <1>0, <2>6, <3>1 DEF Restart, Fresh
  <2>7. CASE UNCHANGED vars
    BY <2>7 DEF vars, GatewayInv, TypeInv, BranchInv, CountInv, Serving, Forwarding,
       Starting, Failing, Reading, Suspected, Disconnected, Busy, ServingReading
  <2>. QED
    BY <2>1, <2>2, <2>3, <2>4, <2>5, <2>6, <2>7 DEF Next
<1>. QED
  BY <1>1, <1>2, PTL DEF Spec

\* The gateway keeps its types for any number of threads, devices and requests.
THEOREM GatewayTypeCorrect == Spec => []TypeOK
<1>1. GatewayInv => TypeOK
  <2> SUFFICES ASSUME GatewayInv PROVE TypeOK
    OBVIOUS
  <2>1. /\ scrape.collected \in 0 .. 8 /\ scrape.sample \in [Metrics -> Nat]
        /\ TypeInv
    BY DEF GatewayInv, TypeInv
  <2>2. /\ scrape.collected \in 0 .. Len(ScrapeOrder)
        /\ scrape.sample \in [{ScrapeOrder[i] : i \in 1 .. Len(ScrapeOrder)} -> Nat]
    BY <2>1, MetricsInOrder DEF Metrics
  <2>. QED
    BY <2>1, <2>2 DEF TypeInv, TypeOK, Call
<1>. QED
  BY <1>1, GatewayInvariant, PTL

\* Each reading is refused, forwarded or failed and counted so, whatever interleaves.
THEOREM EveryReadingIsAccounted == Spec => []ForwardingIsAccounted
<1>1. GatewayInv => ForwardingIsAccounted
  BY DEF GatewayInv, CountInv, ForwardingIsAccounted, Forwarding, Reading
<1>. QED
  BY <1>1, GatewayInvariant, PTL

\* No sample shows a failure without its attempt, nor a disconnected device that is
\* neither counted nor about to be.
THEOREM SamplesAgreeWithCounters == Spec => []SamplesAreCounted
<1>1. GatewayInv => SamplesAreCounted
  BY MetricsInOrder DEF GatewayInv, CountInv, SamplesAreCounted, Failing
<1>. QED
  BY <1>1, GatewayInvariant, PTL

\* Every suspected device has had its episode counted, or is about to.
THEOREM EpisodesCoverSuspicions == Spec => []SuspectedDevicesHadEpisodes
<1>1. GatewayInv => SuspectedDevicesHadEpisodes
  BY DEF GatewayInv, CountInv, SuspectedDevicesHadEpisodes, Suspected, Starting
<1>. QED
  BY <1>1, GatewayInvariant, PTL

=============================================================================
