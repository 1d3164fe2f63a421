-------------------------- MODULE EvaluationProofs --------------------------
(***************************************************************************)
(* Proofs about Evaluation: for any number of samples and attempts, and for *)
(* the scenarios in any order.                                              *)
(***************************************************************************)
EXTENDS Evaluation, FiniteSetTheorems, TLAPS

-----------------------------------------------------------------------------
(* The operators of the script.                                              *)

\* The outage begins after the first sample and ends before the last one.
LEMMA OutageInside == /\ stop_at \in Nat /\ start_at \in Nat
                      /\ 1 <= stop_at /\ stop_at < start_at /\ start_at < Count
BY BoundsAreNaturals, EnoughSamples DEF stop_at, start_at

\* The script is in one of its scenarios; only a latency scenario may be shortened.
LEMMA ScenarioType ==
  ASSUME TypeOK
  PROVE  /\ scenario \in Scenario
         /\ samples \in Nat /\ 3 <= samples /\ samples <= Count
         /\ scenario # "latency" => samples = Count
<1> USE BoundsAreNaturals, EnoughSamples
<1>1. script.plan \in Plans /\ script.stage \in DOMAIN script.plan
  BY DEF TypeOK, ScriptState
<1>2. script.plan \in Seq(Scenario)
  BY <1>1, PlansAreScenarios
<1>3. scenario \in Scenario
  BY <1>1, <1>2 DEF scenario
<1>4. isolated /\ script.stage = Len(script.plan) => scenario = "latency"
  BY DEF isolated, IsolatedPlan, scenario
<1>. QED
  BY <1>3, <1>4 DEF samples

\* No scenario begins where another one ends.
LEMMA Beginning ==
  ASSUME NEW kind \in Scenario
  PROVE  FirstStep(kind) =
           IF kind = "gateway-outage" THEN "stop"
           ELSE IF kind \in {"delivery", "outage", "recovery"} THEN "send" ELSE "before"
BY OutageInside, BoundsAreNaturals, EnoughSamples DEF FirstStep, LoopHead, Scenario, Detection

\* Each note of the script can be changed by itself.
LEMMA Updates ==
  ASSUME NEW s \in ScriptState
  PROVE  /\ \A x \in Steps : [s EXCEPT !.step = x] \in ScriptState
         /\ \A x \in Errors : [s EXCEPT !.error = x] \in ScriptState
         /\ \A x \in Nat : [s EXCEPT !.stage = x] \in ScriptState
         /\ \A x \in 0 .. Count + MaxAttempts : [s EXCEPT !.n = x] \in ScriptState
         /\ \A x \in 0 .. MaxSends : [s EXCEPT !.sent = x] \in ScriptState
         /\ \A x \in 0 .. MaxSends : [s EXCEPT !.first = x] \in ScriptState
         /\ \A x \in [Reading -> Status \cup {None}] : [s EXCEPT !.statuses = x] \in ScriptState
         /\ \A x \in Nat : [s EXCEPT !.before = x] \in ScriptState
         /\ \A x \in [CounterNames -> Nat] : [s EXCEPT !.baseline = x] \in ScriptState
         /\ \A x \in Snapshot : [s EXCEPT !.before_stop = x] \in ScriptState
         /\ \A x \in Service \cup {None} : [s EXCEPT !.stopped = x] \in ScriptState
         /\ \A x \in Counts : [s EXCEPT !.summary = x] \in ScriptState
         /\ \A x \in BOOLEAN : [s EXCEPT !.retained = x] \in ScriptState
BY DEF ScriptState

\* What stays as long as the scenario does.
SameScenario(s) ==
  /\ s.plan = script.plan /\ s.stage = script.stage
  /\ s.sent = script.sent /\ s.first = script.first
  /\ s.before_stop = script.before_stop
  /\ s.summary = script.summary /\ s.retained = script.retained

LEMMA ScenarioStays ==
  ASSUME script'.plan = script.plan, script'.stage = script.stage
  PROVE  /\ scenario' = scenario /\ isolated' = isolated /\ samples' = samples
         /\ Outage' = Outage /\ Watched' = Watched
BY DEF scenario, isolated, samples, Outage, Watched

\* The script fails, through the finally clause if it has stopped something.
Fails(s, reason) ==
  /\ s.step = (IF s.stopped = None THEN "ended" ELSE "restore")
  /\ s.error = reason /\ s.n = script.n /\ s.before = script.before

LEMMA Raised ==
  ASSUME NEW s \in ScriptState, SameScenario(s), s.n = script.n, s.before = script.before,
         NEW reason \in Errors, NEW t, t = Raise(s, reason)
  PROVE  /\ t \in ScriptState /\ SameScenario(t) /\ Fails(t, reason)
         /\ t.stopped = s.stopped /\ t.statuses = s.statuses
<1> DEFINE step == IF s.stopped = None THEN "ended" ELSE "restore"
           a == [s EXCEPT !.error = reason]
           b == [a EXCEPT !.step = step]
<1>1. step \in Steps
  BY DEF Steps
<1>2. t = b
  BY DEF Raise
<1>3. a \in ScriptState
  BY Updates
<1> HIDE DEF a
<1>4. b \in ScriptState
  BY <1>1, <1>3, Updates
<1>5. /\ t.error = reason /\ t.step = step /\ t.n = s.n /\ t.before = s.before
      /\ t.stopped = s.stopped /\ t.statuses = s.statuses
      /\ t.plan = s.plan /\ t.stage = s.stage /\ t.sent = s.sent /\ t.first = s.first
      /\ t.before_stop = s.before_stop /\ t.summary = s.summary /\ t.retained = s.retained
  BY <1>2 DEF ScriptState, a
<1>. QED
  BY <1>2, <1>4, <1>5 DEF Fails, SameScenario

\* The scenario of s is over: the script ends, or begins the next one.
Concludes(s, t) ==
  /\ t.plan = script.plan /\ t.sent = script.sent /\ t.stopped = s.stopped
  /\ t.summary = s.summary /\ t.retained = s.retained
  /\ \/ /\ t.step = "ended" /\ t.stage = script.stage
        /\ t.n = s.n /\ t.first = s.first /\ t.statuses = s.statuses
        /\ t.before = s.before /\ t.before_stop = s.before_stop
        /\ \/ t.error = s.error
           \/ t.error = "requirement" /\ isolated /\ ~Required(s)
     \/ /\ t.stage = script.stage + 1 /\ t.stage \in DOMAIN t.plan
        /\ t.step = FirstStep(t.plan[t.stage])
        /\ t.n = 0 /\ t.first = t.sent /\ t.statuses = [r \in Reading |-> None]
        /\ t.before = 0 /\ t.before_stop = NoRows /\ t.error = s.error

LEMMA Finished ==
  ASSUME TypeOK, NEW s \in ScriptState, s.plan = script.plan, s.stage = script.stage,
         s.sent = script.sent, NEW t, t = Finish(s)
  PROVE  t \in ScriptState /\ Concludes(s, t)
<1> USE BoundsAreNaturals
<1>0. /\ s.plan \in Seq(Scenario) /\ Len(s.plan) \in Nat
      /\ s.stage \in 1 .. Len(s.plan) /\ DOMAIN s.plan = 1 .. Len(s.plan)
  BY PlansAreScenarios DEF TypeOK, ScriptState
<1>1. CASE isolated /\ ~Required(s)
  <2> DEFINE a == [s EXCEPT !.error = "requirement"]
             b == [a EXCEPT !.step = "ended"]
  <2>1. t = b
    BY <1>1 DEF Finish
  <2>2. a \in ScriptState
    BY Updates DEF Errors
  <2>3. b \in ScriptState
    <3> HIDE DEF a
    <3>. QED
      BY <2>2, Updates DEF Steps
  <2>4. /\ t.error = "requirement" /\ t.step = "ended" /\ t.n = s.n /\ t.before = s.before
        /\ t.stopped = s.stopped /\ t.statuses = s.statuses
        /\ t.plan = s.plan /\ t.stage = s.stage /\ t.sent = s.sent /\ t.first = s.first
        /\ t.before_stop = s.before_stop /\ t.summary = s.summary /\ t.retained = s.retained
    BY <2>1 DEF ScriptState
  <2>. QED
    BY <1>1, <2>1, <2>3, <2>4 DEF Concludes
<1>2. CASE ~(isolated /\ ~Required(s)) /\ s.stage = Len(s.plan)
  <2>1. t = [s EXCEPT !.step = "ended"]
    BY <1>2 DEF Finish
  <2>2. t \in ScriptState
    BY <2>1, Updates DEF Steps
  <2>3. /\ t.error = s.error /\ t.step = "ended" /\ t.n = s.n /\ t.before = s.before
        /\ t.stopped = s.stopped /\ t.statuses = s.statuses
        /\ t.plan = s.plan /\ t.stage = s.stage /\ t.sent = s.sent /\ t.first = s.first
        /\ t.before_stop = s.before_stop /\ t.summary = s.summary /\ t.retained = s.retained
    BY <2>1 DEF ScriptState
  <2>. QED
    BY <2>2, <2>3 DEF Concludes
<1>3. CASE ~(isolated /\ ~Required(s)) /\ s.stage # Len(s.plan)
  <2> DEFINE k == s.stage + 1
             step == FirstStep(s.plan[k])
             none == [r \in Reading |-> None]
             a == [s EXCEPT !.stage = k]
             b == [a EXCEPT !.step = step]
             c == [b EXCEPT !.n = 0]
             d == [c EXCEPT !.first = s.sent]
             e == [d EXCEPT !.statuses = none]
             f == [e EXCEPT !.before = 0]
             g == [f EXCEPT !.before_stop = NoRows]
  <2>1. t = NextScenario(s)
    BY <1>3 DEF Finish
  <2>2. t = g
    BY <2>1 DEF NextScenario
  <2>3. k \in 1 .. Len(s.plan) /\ k \in Nat /\ s.plan[k] \in Scenario
    BY <1>0, <1>3
  <2>4. step \in Steps
    BY <2>3, Beginning DEF Steps
  <2>5. none \in [Reading -> Status \cup {None}] /\ NoRows \in Snapshot
    BY DEF NoRows, Snapshot
  <2>6. s.sent \in 0 .. MaxSends /\ 0 \in 0 .. Count + MaxAttempts
    BY DEF ScriptState
  <2> HIDE DEF k, step, none
  <2>7. a \in ScriptState
    BY <2>3, Updates
  <2>8. b \in ScriptState
    <3> HIDE DEF a
    <3>. QED
      BY <2>4, <2>7, Updates
  <2>9. c \in ScriptState
    <3> HIDE DEF b
    <3>. QED
      BY <2>6, <2>8, Updates
  <2>10. d \in ScriptState
    <3> HIDE DEF c
    <3>. QED
      BY <2>6, <2>9, Updates
  <2>11. e \in ScriptState
    <3> HIDE DEF d
    <3>. QED
      BY <2>5, <2>10, Updates
  <2>12. f \in ScriptState
    <3> HIDE DEF e
    <3>. QED
      BY <2>11, Updates
  <2>13. g \in ScriptState
    <3> HIDE DEF f
    <3>. QED
      BY <2>5, <2>12, Updates
  <2>14. /\ t.stage = k /\ t.step = step /\ t.n = 0 /\ t.first = s.sent
         /\ t.statuses = none /\ t.before = 0 /\ t.before_stop = NoRows
         /\ t.plan = s.plan /\ t.sent = s.sent /\ t.stopped = s.stopped
         /\ t.summary = s.summary /\ t.retained = s.retained /\ t.error = s.error
    BY <2>2 DEF ScriptState
  <2>15. k \in DOMAIN s.plan /\ k = script.stage + 1
    BY <1>0, <2>3 DEF k
  <2>. QED
    BY <2>2, <2>13, <2>14, <2>15 DEF Concludes, step, none
<1>. QED
  BY <1>1, <1>2, <1>3

-----------------------------------------------------------------------------
(* Where the script is.                                                      *)

\* The steps of each scenario.
StepsOf(kind) ==
  {"ended"} \cup
  CASE kind = "latency" -> {"before", "send", "wait", "after"}
    [] kind = "delivery" -> {"send", "wait", "final"}
    [] kind = "outage" -> {"send", "wait", "snapshot", "stop", "start", "healthy",
                           "final", "restore", "restored"}
    [] kind = "recovery" -> {"send", "wait", "look", "restart"}
    [] kind = "cloud-outage" -> {"before", "stop", "send", "wait", "poll", "restore",
                                 "restored"}
    [] kind = "gateway-outage" -> {"stop", "poll", "restore", "restored"}
    [] kind = "sensor-sentinel" -> {"before", "send", "wait", "poll"}
    [] kind = "invalid-envelope" -> {"before", "inject", "poll"}

\* A step of the script in a scenario.
ScenarioStep ==
  \/ Send \/ HearAnswer \/ ConnectionBreaks \/ GiveUp
  \/ ReadBefore \/ CompareReceipts \/ TakeSnapshot \/ TakeFinal \/ Look
  \/ InjectInvalidEnvelope \/ Poll \/ RequestFails \/ CeilingPasses
  \/ Stop \/ Start \/ Restart \/ Restore
  \/ BecomesHealthy \/ StaysUnhealthy \/ CommandFails

\* The script has stopped a service and has not started it again.
HasStopped ==
  \/ At({"restore", "restored"})
  \/ scenario = "outage" /\ \/ At({"start"})
                            \/ At({"send", "wait"}) /\ script.n \in stop_at .. start_at - 1
  \/ scenario = "cloud-outage" /\ At({"send", "wait", "poll"})
  \/ scenario = "gateway-outage" /\ At({"poll"})

\* Where the script is in its scenario.
ControlInv ==
  /\ script.step \in StepsOf(scenario)
  /\ ~At({"ended"}) => script.stopped = IF HasStopped THEN Outage ELSE None
  /\ scenario \in {"latency", "delivery", "outage"} /\ At({"before", "send", "wait", "after"}) =>
       script.n < samples
  /\ scenario = "outage" =>
       /\ At({"snapshot", "stop"}) => script.n = stop_at
       /\ At({"start", "healthy"}) => script.n = start_at
       /\ At({"final"}) => script.n = Count
  /\ scenario = "recovery" =>
       /\ At({"send"}) => script.n <= MaxAttempts + 1
       /\ At({"wait", "look"}) => script.n <= MaxAttempts
       /\ script.n = 0 => /\ At({"send"}) => script.sent = script.first
                          /\ At({"wait", "look", "restart"}) => script.sent = script.first + 1
       /\ At({"restart"}) => script.n = 0
  /\ At({"wait", "after", "look"}) => script.sent > script.first

\* In a scenario the preparation is over.
LEMMA ScenarioSteps ==
  ASSUME TypeOK, ControlInv, [Next]_vars
  PROVE  /\ ~At(Preparation)
         /\ ScenarioStep \/ StackStep \/ UNCHANGED vars
<1>1. script.step \in StepsOf(scenario) /\ scenario \in Scenario
  BY ScenarioType DEF ControlInv
<1>2. script.step \notin Preparation
  BY <1>1 DEF StepsOf, Scenario, Detection, Preparation
<1>3. ~(StackIsHealthy \/ ReadBaseline \/ CompareBaseline \/ SendMalformed
        \/ TargetVerified \/ TargetRefused)
  BY <1>2 DEF StackIsHealthy, ReadBaseline, CompareBaseline, SendMalformed, TargetVerified,
              TargetRefused, At, Preparation
<1>. QED
  BY <1>2, <1>3 DEF At, Next, ScriptStep, ScenarioStep

\* The script goes on with another sample or attempt.
Moved(s, k, x) == [s EXCEPT !.n = k, !.step = x]

LEMMA MovedOn ==
  ASSUME NEW s \in ScriptState, SameScenario(s), s.before = script.before,
         NEW x \in Steps, NEW k \in 0 .. Count + MaxAttempts,
         NEW u, u = Moved(s, k, x)
  PROVE  /\ u \in ScriptState /\ SameScenario(u) /\ u.step = x /\ u.n = k
         /\ u.before = script.before /\ u.stopped = s.stopped
         /\ u.error = s.error /\ u.statuses = s.statuses
<1> DEFINE a == [s EXCEPT !.n = k]
           b == [a EXCEPT !.step = x]
<1>1. u = b
  BY DEF Moved
<1>2. a \in ScriptState
  BY Updates
<1>3. b \in ScriptState
  <2> HIDE DEF a
  <2>. QED
    BY <1>2, Updates
<1>4. /\ SameScenario(u) /\ u.step = x /\ u.n = k
      /\ u.before = script.before /\ u.stopped = s.stopped
      /\ u.error = s.error /\ u.statuses = s.statuses
  BY DEF SameScenario, ScriptState, Moved
<1>. QED
  BY <1>1, <1>3, <1>4

\* The script goes on in its scenario.
Proceeds(t, step, k) ==
  /\ SameScenario(t)
  /\ t.step = step /\ t.n = k /\ t.error = script.error
  /\ t.stopped = script.stopped /\ t.statuses = script.statuses /\ t.before = script.before

LEMMA Proceeded ==
  ASSUME script \in ScriptState, NEW step \in Steps, NEW k \in 0 .. Count + MaxAttempts
  PROVE  /\ \A t : t = [script EXCEPT !.step = step] =>
              t \in ScriptState /\ Proceeds(t, step, script.n)
         /\ \A t : t = Moved(script, k, step) =>
              t \in ScriptState /\ Proceeds(t, step, k)
<1>1. ASSUME NEW t, t = [script EXCEPT !.step = step]
      PROVE  t \in ScriptState /\ Proceeds(t, step, script.n)
  <2>1. t \in ScriptState
    BY <1>1, Updates
  <2>2. Proceeds(t, step, script.n)
    BY <1>1 DEF Proceeds, SameScenario, ScriptState
  <2>. QED
    BY <2>1, <2>2
<1>2. SameScenario(script)
  BY DEF SameScenario
<1>3. ASSUME NEW t, t = Moved(script, k, step)
      PROVE  t \in ScriptState /\ Proceeds(t, step, k)
  BY <1>2, <1>3, MovedOn DEF Proceeds
<1>. QED
  BY <1>1, <1>3

\* The next round of a delivery.
LEMMA NextHead ==
  ASSUME NEW kind \in {"delivery", "outage"}, NEW k \in 0 .. Count
  PROVE  LoopHead(kind, k, Count) =
           IF k = Count THEN "final"
           ELSE IF kind = "outage" /\ k = stop_at THEN "snapshot"
           ELSE IF kind = "outage" /\ k = start_at THEN "start" ELSE "send"
BY OutageInside, BoundsAreNaturals DEF LoopHead

\* What the status of a reading leads to.
HeardMoves(t, status) ==
  /\ SameScenario(t) /\ t.stopped = script.stopped /\ t.before = script.before
  /\ scenario = "latency" =>
       t.step = "after" /\ t.n = script.n /\ t.error = script.error
  /\ scenario \in {"delivery", "outage"} =>
       /\ t.n = script.n + 1 /\ t.error = script.error
       /\ t.step = LoopHead(scenario, script.n + 1, Count)
  /\ scenario = "recovery" =>
       /\ status = 200 => t.step = "look" /\ t.n = script.n /\ t.error = script.error
       /\ status # 200 /\ script.n = 0 => Fails(t, "marker not stored")
       /\ status # 200 /\ script.n # 0 =>
            t.step = "send" /\ t.n = script.n + 1 /\ t.error = script.error
  /\ scenario \in Detection =>
       IF status = IF scenario = "cloud-outage" THEN 502 ELSE 200
         THEN t.step = "poll" /\ t.n = script.n /\ t.error = script.error
         ELSE Fails(t, "unexpected status")

LEMMA HeardOutcome ==
  ASSUME TypeOK, ControlInv, At({"wait"}), NEW status \in Status \cup {None},
         NEW s \in ScriptState, SameScenario(s), s.n = script.n, s.before = script.before,
         s.stopped = script.stopped, s.error = script.error,
         NEW t, t = Heard(s, status)
  PROVE  t \in ScriptState /\ HeardMoves(t, status) /\ t.statuses = s.statuses
<1> USE BoundsAreNaturals
<1>0. /\ scenario \in Scenario
      /\ scenario \in {"delivery", "outage"} => samples = Count /\ script.n + 1 \in 0 .. Count
      /\ scenario = "recovery" => script.n + 1 \in 0 .. MaxAttempts + 1
  <2>1. script.n \in Nat
    BY DEF TypeOK, ScriptState
  <2>. QED
    BY <2>1, ScenarioType DEF ControlInv, At
<1>1. \A x \in Steps : \A u : u = [s EXCEPT !.step = x] =>
        /\ u \in ScriptState /\ SameScenario(u) /\ u.step = x /\ u.n = script.n
        /\ u.before = script.before /\ u.stopped = script.stopped /\ u.error = script.error
        /\ u.statuses = s.statuses
  <2> SUFFICES ASSUME NEW x \in Steps, NEW u, u = [s EXCEPT !.step = x]
               PROVE  /\ u \in ScriptState /\ SameScenario(u) /\ u.step = x /\ u.n = script.n
                      /\ u.before = script.before /\ u.stopped = script.stopped
                      /\ u.error = script.error /\ u.statuses = s.statuses
    OBVIOUS
  <2>1. u \in ScriptState
    BY Updates
  <2>. QED
    BY <2>1 DEF SameScenario, ScriptState
<1>3. \A e \in Errors : \A u : u = Raise(s, e) =>
        /\ u \in ScriptState /\ SameScenario(u) /\ Fails(u, e)
        /\ u.stopped = s.stopped /\ u.statuses = s.statuses
  BY Raised
<1>4. CASE scenario = "latency"
  <2>1. t = [s EXCEPT !.step = "after"]
    BY <1>4 DEF Heard, Detection
  <2>. QED
    BY <1>1, <1>4, <2>1 DEF HeardMoves, Steps, Detection
<1>5. CASE scenario \in {"delivery", "outage"}
  <2> DEFINE next == script.n + 1
             head == LoopHead(scenario, next, Count)
  <2>1. head \in Steps /\ head # "ended"
    BY <1>0, <1>5, NextHead DEF Steps
  <2>2. t = Moved(s, next, head)
    BY <1>0, <1>5, <2>1 DEF Heard, NextSample, Detection, Moved
  <2>3. next \in 0 .. Count + MaxAttempts
    BY <1>0, <1>5
  <2> HIDE DEF head, next
  <2>4. /\ t \in ScriptState /\ SameScenario(t) /\ t.step = head /\ t.n = next
        /\ t.before = script.before /\ t.stopped = script.stopped /\ t.error = script.error
        /\ t.statuses = s.statuses
    BY <2>1, <2>2, <2>3, MovedOn
  <2>. QED
    BY <1>5, <2>4 DEF HeardMoves, Detection, head, next
<1>6. CASE scenario = "recovery"
  <2>1. CASE status = 200
    <3>1. t = [s EXCEPT !.step = "look"]
      BY <1>6, <2>1 DEF Heard, Detection
    <3>. QED
      BY <1>1, <1>6, <2>1, <3>1 DEF HeardMoves, Steps, Detection
  <2>2. CASE status # 200 /\ script.n = 0
    <3>1. t = Raise(s, "marker not stored")
      BY <1>6, <2>2 DEF Heard, Detection
    <3>2. /\ t \in ScriptState /\ SameScenario(t) /\ Fails(t, "marker not stored")
          /\ t.stopped = s.stopped /\ t.statuses = s.statuses
      BY <1>3, <3>1 DEF Errors
    <3>. QED
      BY <1>6, <2>2, <3>2 DEF HeardMoves, Detection, Fails
  <2>3. CASE status # 200 /\ script.n # 0
    <3> DEFINE next == script.n + 1
    <3>1. t = Moved(s, next, "send")
      BY <1>6, <2>3 DEF Heard, Detection, Moved
    <3>2. next \in 0 .. Count + MaxAttempts /\ "send" \in Steps
      BY <1>0, <1>6, EnoughSamples DEF Steps
    <3> HIDE DEF next
    <3>3. /\ t \in ScriptState /\ SameScenario(t) /\ t.step = "send" /\ t.n = next
          /\ t.before = script.before /\ t.stopped = script.stopped /\ t.error = script.error
          /\ t.statuses = s.statuses
      BY <3>1, <3>2, MovedOn
    <3>. QED
      BY <1>6, <2>3, <3>3 DEF HeardMoves, Detection, next
  <2>. QED
    BY <2>1, <2>2, <2>3
<1>7. CASE scenario \in Detection
  <2> DEFINE expected == IF scenario = "cloud-outage" THEN 502 ELSE 200
  <2>1. CASE status = expected
    <3>1. t = [s EXCEPT !.step = "poll"]
      BY <1>7, <2>1 DEF Heard, Detection
    <3>2. /\ t \in ScriptState /\ SameScenario(t) /\ t.step = "poll" /\ t.n = script.n
          /\ t.before = script.before /\ t.stopped = script.stopped /\ t.error = script.error
          /\ t.statuses = s.statuses
      BY <1>1, <3>1 DEF Steps
    <3>. QED
      BY <1>7, <2>1, <3>2 DEF HeardMoves, Detection
  <2>2. CASE status # expected
    <3>1. t = Raise(s, "unexpected status")
      BY <1>7, <2>2 DEF Heard, Detection
    <3>2. /\ t \in ScriptState /\ SameScenario(t) /\ Fails(t, "unexpected status")
          /\ t.stopped = s.stopped /\ t.statuses = s.statuses
      BY <1>3, <3>1 DEF Errors
    <3>. QED
      BY <1>7, <2>2, <3>2 DEF HeardMoves, Detection, Fails
  <2>. QED
    BY <2>1, <2>2
<1>. QED
  BY <1>0, <1>4, <1>5, <1>6, <1>7 DEF Scenario

-----------------------------------------------------------------------------
(* What each operation does to the script.                                   *)

\* Only the fields named by an operation change.
Keeps(t, fields) ==
  /\ t.plan = script.plan /\ t.stage = script.stage /\ t.first = script.first
  /\ "summary" \notin fields => t.summary = script.summary
  /\ "retained" \notin fields => t.retained = script.retained
  /\ "sent" \notin fields => t.sent = script.sent
  /\ "n" \notin fields => t.n = script.n
  /\ "statuses" \notin fields => t.statuses = script.statuses
  /\ "before" \notin fields => t.before = script.before
  /\ "before_stop" \notin fields => t.before_stop = script.before_stop
  /\ "stopped" \notin fields => t.stopped = script.stopped
  /\ "error" \notin fields => t.error = script.error

LEMMA SendOutcome ==
  ASSUME TypeOK, Send
  PROVE  /\ script' \in ScriptState /\ Keeps(script', {"sent"})
         /\ script'.sent = script.sent + 1 /\ script'.step = "wait"
         /\ script.sent + 1 \in Reading
<1> DEFINE k == script.sent + 1
           a == [script EXCEPT !.sent = k]
           b == [a EXCEPT !.step = "wait"]
<1>1. script \in ScriptState
  BY DEF TypeOK
<1>2. k \in 0 .. MaxSends /\ k \in Reading
  BY <1>1, BoundsAreNaturals DEF Send, ScriptState, Reading
<1>3. script' = b
  BY DEF Send, Goes
<1>4. /\ Keeps(script', {"sent"}) /\ script'.sent = k /\ script'.step = "wait"
  BY <1>1, <1>3 DEF Keeps, ScriptState
<1> HIDE DEF k
<1>5. a \in ScriptState
  BY <1>1, <1>2, Updates
<1>6. b \in ScriptState
  <2> HIDE DEF a
  <2>. QED
    BY <1>5, Updates DEF Steps
<1>. QED
  BY <1>2, <1>3, <1>4, <1>6 DEF k

\* The counters and the service they belong to.
LEMMA WatchedType ==
  ASSUME TypeOK
  PROVE  /\ Watched \in CounterNames /\ counters[Watched] \in Nat
         /\ Outage \in Service
BY DEF TypeOK, Watched, CounterNames, CloudCounters, Outage, Service

LEMMA ReadBeforeOutcome ==
  ASSUME TypeOK, ReadBefore
  PROVE  /\ script' \in ScriptState /\ Keeps(script', {"before"})
         /\ script'.before = counters[Watched]
         /\ script'.step = IF scenario = "cloud-outage" THEN "stop"
                          ELSE IF scenario = "invalid-envelope" THEN "inject" ELSE "send"
<1> DEFINE step == IF scenario = "cloud-outage" THEN "stop"
                   ELSE IF scenario = "invalid-envelope" THEN "inject" ELSE "send"
           k == counters[Watched]
           a == [script EXCEPT !.before = k]
           b == [a EXCEPT !.step = step]
<1>1. script \in ScriptState
  BY DEF TypeOK
<1>2. k \in Nat /\ step \in Steps
  BY WatchedType DEF Steps
<1>3. script' = b
  BY DEF ReadBefore, Goes
<1> HIDE DEF k, step
<1>4. Keeps(script', {"before"}) /\ script'.before = k /\ script'.step = step
  BY <1>1, <1>3 DEF Keeps, ScriptState
<1>5. a \in ScriptState
  BY <1>1, <1>2, Updates
<1>6. b \in ScriptState
  <2> HIDE DEF a
  <2>. QED
    BY <1>2, <1>5, Updates
<1>. QED
  BY <1>3, <1>4, <1>6 DEF k, step

\* A receipt is compared: the next sample, or the end of the scenario.
LEMMA CompareOutcome ==
  ASSUME TypeOK, ControlInv, CompareReceipts
  PROVE  /\ script' \in ScriptState /\ scenario = "latency"
         /\ \/ /\ SameScenario(script') /\ script'.stopped = script.stopped
               /\ script'.statuses = script.statuses
               /\ \/ Fails(script', "counter reset") /\ increase < 0
                  \/ /\ Fails(script', "receipt delta") /\ increase # 1
                     /\ script.statuses[latest] = 200
            \/ script.n + 1 < samples /\ Proceeds(script', "before", script.n + 1)
            \/ script.n + 1 = samples /\ Concludes(script, script')
<1> USE BoundsAreNaturals
<1>1. script \in ScriptState /\ SameScenario(script)
  BY DEF TypeOK, SameScenario
<1>2. At({"after"}) /\ scenario = "latency"
  BY ScenarioType DEF CompareReceipts, ControlInv, StepsOf, At, Scenario, Detection
<1>3. script.n \in Nat /\ script.n < samples /\ samples \in Nat /\ samples <= Count
  BY <1>1, <1>2, ScenarioType DEF ControlInv, At, ScriptState
<1>4. CASE increase < 0
  <2>1. script' = Raise(script, "counter reset")
    BY <1>4 DEF CompareReceipts, WithIncrease, Goes
  <2>. QED
    BY <1>1, <1>2, <1>4, <2>1, Raised DEF Errors
<1>5. CASE ~(increase < 0) /\ script.statuses[latest] = 200 /\ increase # 1
  <2>1. script' = Raise(script, "receipt delta")
    BY <1>5 DEF CompareReceipts, WithIncrease, Goes
  <2>. QED
    BY <1>1, <1>2, <1>5, <2>1, Raised DEF Errors
<1>6. CASE ~(increase < 0) /\ ~(script.statuses[latest] = 200 /\ increase # 1)
  <2>1. script' = NextSample(script)
    BY <1>6 DEF CompareReceipts, WithIncrease, Goes
  <2>2. CASE script.n + 1 = samples
    <3>1. script' = Finish(script)
      BY <1>2, <2>1, <2>2 DEF NextSample, LoopHead
    <3>. QED
      BY <1>1, <1>2, <2>2, <3>1, Finished
  <2>3. CASE script.n + 1 # samples
    <3> DEFINE next == script.n + 1
    <3>1. script' = Moved(script, next, "before")
      BY <1>2, <2>1, <2>3 DEF NextSample, LoopHead, Moved
    <3>2. next \in 0 .. Count + MaxAttempts /\ next < samples
      BY <1>3, <2>3
    <3> HIDE DEF next
    <3>3. script' \in ScriptState /\ Proceeds(script', "before", next)
      BY <1>1, <3>1, <3>2, Proceeded DEF Steps
    <3>. QED
      BY <1>2, <3>2, <3>3 DEF next
  <2>. QED
    BY <2>2, <2>3
<1>. QED
  BY <1>4, <1>5, <1>6

\* The counts of a delivery tell which sets of readings are empty.
LEMMA ReadingsAreFinite ==
  ASSUME NEW S \in SUBSET Reading
  PROVE  Cardinality(S) \in Nat /\ (Cardinality(S) = 0 <=> S = {})
<1>1. IsFiniteSet(Reading)
  BY BoundsAreNaturals, FS_Interval DEF Reading
<1>2. IsFiniteSet(S)
  BY <1>1, FS_Subset
<1>. QED
  BY <1>2, FS_CardinalityType, FS_EmptySet

LEMMA DuplicatesAreFinite ==
  ASSUME NEW ids \in SUBSET Reading, NEW final \in Snapshot
  PROVE  LET all == UNION {{r} \X (2 .. final[r]) : r \in ids}
         IN  /\ Cardinality(all) \in Nat
             /\ Cardinality(all) = 0 <=> \A r \in ids : final[r] <= 1
<1> DEFINE extra(r) == {r} \X (2 .. final[r])
           f == [r \in ids |-> extra(r)]
           sets == {extra(r) : r \in ids}
           all == UNION sets
<1>1. IsFiniteSet(ids)
  <2>1. IsFiniteSet(Reading)
    BY BoundsAreNaturals, FS_Interval DEF Reading
  <2>. QED
    BY <2>1, FS_Subset
<1>2. \A r \in ids : final[r] \in Nat
  BY DEF Snapshot
<1>3. \A r \in ids : IsFiniteSet(extra(r))
  <2> SUFFICES ASSUME NEW r \in ids PROVE IsFiniteSet(extra(r))
    OBVIOUS
  <2>1. 2 \in Int /\ final[r] \in Int
    BY <1>2
  <2>2. IsFiniteSet(2 .. final[r])
    BY <2>1, FS_Interval
  <2>3. IsFiniteSet({r})
    BY FS_Singleton
  <2>. QED
    BY <2>2, <2>3, FS_Product
<1>4. IsFiniteSet(sets)
  <2>1. f \in Surjection(ids, sets)
    BY DEF Surjection
  <2>. QED
    BY <1>1, <2>1, FS_Surjection
<1>5. IsFiniteSet(all)
  <2>1. \A T \in sets : IsFiniteSet(T)
    BY <1>3
  <2>. QED
    BY <1>4, <2>1, FS_UNION
<1>6. all = {} <=> \A r \in ids : final[r] <= 1
  <2>1. ASSUME NEW r \in ids, ~(final[r] <= 1) PROVE all # {}
    <3>1. <<r, 2>> \in extra(r) /\ extra(r) \in sets
      BY <1>2, <2>1
    <3>. QED
      BY <3>1
  <2>2. ASSUME \A r \in ids : final[r] <= 1, NEW x \in all PROVE FALSE
    <3>1. PICK r \in ids : x \in extra(r)
      BY <2>2
    <3>. QED
      BY <1>2, <2>2, <3>1
  <2>. QED
    BY <2>1, <2>2
<1>7. Cardinality(all) \in Nat /\ (Cardinality(all) = 0 <=> all = {})
  BY <1>5, FS_CardinalityType, FS_EmptySet
<1>. QED
  BY <1>6, <1>7

LEMMA CountsOf ==
  ASSUME NEW ids, NEW acked, NEW final, NEW earlier,
         ids \subseteq Reading, acked \subseteq ids, final \in Snapshot, earlier \in Snapshot
  PROVE  LET c == delivery_counts(ids, acked, final, earlier) IN
         /\ c \in Counts
         /\ c.not_acknowledged = 0 <=> acked = ids
         /\ c.missing_final = 0 <=> \A r \in ids : final[r] > 0
         /\ c.never_observed = 0 <=> \A r \in ids : final[r] > 0 \/ earlier[r] > 0
         /\ c.lost_across_restart = 0 <=> \A r \in ids : earlier[r] > 0 => final[r] > 0
         /\ c.duplicates = 0 <=> \A r \in ids : final[r] <= 1
         /\ c.acknowledged_never_observed = 0 <=>
              \A r \in acked : final[r] > 0 \/ earlier[r] > 0
         /\ c.failed_but_observed = 0 <=>
              \A r \in ids \ acked : ~(final[r] > 0 \/ earlier[r] > 0)
<1> DEFINE c == delivery_counts(ids, acked, final, earlier)
           kept == Positive(final, ids)
           before == Positive(earlier, ids)
           observed == kept \cup before
           all == UNION {{r} \X (2 .. final[r]) : r \in ids}
<1>1. /\ kept \subseteq ids /\ before \subseteq ids
      /\ \A r \in ids : r \in kept <=> final[r] > 0
      /\ \A r \in ids : r \in before <=> earlier[r] > 0
  BY DEF Positive
<1>2. /\ c.not_acknowledged = Cardinality(ids \ acked)
      /\ c.missing_final = Cardinality(ids \ kept)
      /\ c.never_observed = Cardinality(ids \ observed)
      /\ c.lost_across_restart = Cardinality(before \ kept)
      /\ c.duplicates = Cardinality(all)
      /\ c.acknowledged_never_observed = Cardinality(acked \ observed)
      /\ c.failed_but_observed = Cardinality((ids \ acked) \cap observed)
      /\ c = [not_acknowledged |-> Cardinality(ids \ acked),
              missing_final |-> Cardinality(ids \ kept),
              never_observed |-> Cardinality(ids \ observed),
              lost_across_restart |-> Cardinality(before \ kept),
              duplicates |-> Cardinality(all),
              acknowledged_never_observed |-> Cardinality(acked \ observed),
              failed_but_observed |-> Cardinality((ids \ acked) \cap observed)]
  BY DEF delivery_counts
<1>3. /\ Cardinality(all) \in Nat
      /\ Cardinality(all) = 0 <=> \A r \in ids : final[r] <= 1
  BY DuplicatesAreFinite
<1> HIDE DEF c, kept, before, all
<1>4. \A S \in {ids \ acked, ids \ kept, ids \ observed, before \ kept, acked \ observed,
                (ids \ acked) \cap observed} :
        Cardinality(S) \in Nat /\ (Cardinality(S) = 0 <=> S = {})
  BY <1>1, ReadingsAreFinite
<1>5. c \in Counts
  BY <1>2, <1>3, <1>4 DEF Counts
<1>6. c.not_acknowledged = 0 <=> acked = ids
  BY <1>2, <1>4
<1>7. c.missing_final = 0 <=> \A r \in ids : final[r] > 0
  BY <1>1, <1>2, <1>4
<1>8. c.never_observed = 0 <=> \A r \in ids : final[r] > 0 \/ earlier[r] > 0
  BY <1>1, <1>2, <1>4
<1>9. c.lost_across_restart = 0 <=> \A r \in ids : earlier[r] > 0 => final[r] > 0
  BY <1>1, <1>2, <1>4
<1>10. c.acknowledged_never_observed = 0 <=>
         \A r \in acked : final[r] > 0 \/ earlier[r] > 0
  BY <1>1, <1>2, <1>4
<1>11. c.failed_but_observed = 0 <=>
         \A r \in ids \ acked : ~(final[r] > 0 \/ earlier[r] > 0)
  BY <1>1, <1>2, <1>4
<1>. QED
  BY <1>2, <1>3, <1>5, <1>6, <1>7, <1>8, <1>9, <1>10, <1>11 DEF c

\* The snapshots before and after the outage.
LEMMA TakeSnapshotOutcome ==
  ASSUME TypeOK, TakeSnapshot
  PROVE  /\ script' \in ScriptState /\ Keeps(script', {"before_stop"})
         /\ script'.before_stop = rows /\ script'.step = "stop"
<1> DEFINE a == [script EXCEPT !.before_stop = rows]
           b == [a EXCEPT !.step = "stop"]
<1>1. script \in ScriptState /\ rows \in Snapshot
  BY DEF TypeOK
<1>2. script' = b
  BY DEF TakeSnapshot, Goes
<1>3. Keeps(script', {"before_stop"}) /\ script'.before_stop = rows /\ script'.step = "stop"
  BY <1>1, <1>2 DEF Keeps, ScriptState
<1>4. a \in ScriptState
  BY <1>1, Updates
<1>5. b \in ScriptState
  <2> HIDE DEF a
  <2>. QED
    BY <1>4, Updates DEF Steps
<1>. QED
  BY <1>2, <1>3, <1>5

FinalCounts ==
  delivery_counts(ScenarioReadings(script), Acknowledged(script), rows, script.before_stop)

LEMMA ScenarioReadingsType ==
  ASSUME NEW s \in ScriptState
  PROVE  /\ ScenarioReadings(s) \in SUBSET Reading
         /\ Acknowledged(s) \in SUBSET ScenarioReadings(s)
<1>1. s.first \in Nat /\ s.sent \in Nat /\ s.sent <= MaxSends
  BY BoundsAreNaturals DEF ScriptState
<1>. QED
  BY <1>1, BoundsAreNaturals DEF ScenarioReadings, Acknowledged, Reading

LEMMA FinalCountsType ==
  ASSUME TypeOK
  PROVE  /\ FinalCounts \in Counts
         /\ FinalCounts.lost_across_restart = 0 <=> \A r \in ScenarioReadings(script) :
              script.before_stop[r] > 0 => rows[r] > 0
         /\ FinalCounts.duplicates = 0 <=>
              \A r \in ScenarioReadings(script) : rows[r] <= 1
         /\ FinalCounts.acknowledged_never_observed = 0 <=>
              \A r \in Acknowledged(script) : rows[r] > 0 \/ script.before_stop[r] > 0
         /\ FinalCounts.failed_but_observed = 0 <=>
              \A r \in ScenarioReadings(script) \ Acknowledged(script) :
                ~(rows[r] > 0 \/ script.before_stop[r] > 0)
         /\ FinalCounts.not_acknowledged = 0 <=>
              Acknowledged(script) = ScenarioReadings(script)
         /\ FinalCounts.missing_final = 0 <=>
              \A r \in ScenarioReadings(script) : rows[r] > 0
         /\ FinalCounts.never_observed = 0 <=>
              \A r \in ScenarioReadings(script) : rows[r] > 0 \/ script.before_stop[r] > 0
<1> DEFINE ids == ScenarioReadings(script)
           acked == Acknowledged(script)
           earlier == script.before_stop
<1>1. ids \subseteq Reading /\ acked \subseteq ids
  BY ScenarioReadingsType DEF TypeOK
<1>2. rows \in Snapshot /\ earlier \in Snapshot
  BY DEF TypeOK, ScriptState
<1>3. FinalCounts = delivery_counts(ids, acked, rows, earlier)
  BY DEF FinalCounts
<1> HIDE DEF ids, acked, earlier
<1>4. /\ FinalCounts \in Counts
      /\ FinalCounts.not_acknowledged = 0 <=> acked = ids
      /\ FinalCounts.missing_final = 0 <=> \A r \in ids : rows[r] > 0
      /\ FinalCounts.never_observed = 0 <=> \A r \in ids : rows[r] > 0 \/ earlier[r] > 0
      /\ FinalCounts.lost_across_restart = 0 <=>
           \A r \in ids : earlier[r] > 0 => rows[r] > 0
      /\ FinalCounts.duplicates = 0 <=> \A r \in ids : rows[r] <= 1
      /\ FinalCounts.acknowledged_never_observed = 0 <=>
           \A r \in acked : rows[r] > 0 \/ earlier[r] > 0
      /\ FinalCounts.failed_but_observed = 0 <=>
           \A r \in ids \ acked : ~(rows[r] > 0 \/ earlier[r] > 0)
  BY <1>1, <1>2, <1>3, CountsOf
<1>. QED
  BY <1>4 DEF ids, acked, earlier

LEMMA TakeFinalOutcome ==
  ASSUME TypeOK, TakeFinal
  PROVE  /\ script' \in ScriptState
         /\ \E s \in ScriptState :
              Concludes(s, script') /\ Keeps(s, {"summary"}) /\ s.summary = FinalCounts
<1> DEFINE s == [script EXCEPT !.summary = FinalCounts]
<1>1. script \in ScriptState
  BY DEF TypeOK
<1>2. s \in ScriptState
  BY <1>1, FinalCountsType, Updates
<1>3. s.plan = script.plan /\ s.stage = script.stage /\ s.sent = script.sent
      /\ s.summary = FinalCounts
  BY <1>1 DEF ScriptState
<1>4. Keeps(s, {"summary"})
  BY <1>1 DEF ScriptState, Keeps
<1>5. script' = Finish(s)
  BY DEF TakeFinal, Goes, FinalCounts
<1> HIDE DEF s
<1>6. script' \in ScriptState /\ Concludes(s, script')
  BY <1>2, <1>3, <1>5, Finished
<1>. QED
  BY <1>2, <1>3, <1>4, <1>6

\* The marker is in storage and the cloud restarts; a later reading is, and the
\* marker is looked for once more; or the script tries again.
LEMMA LookOutcome ==
  ASSUME TypeOK, ControlInv, Look
  PROVE  /\ script' \in ScriptState /\ scenario = "recovery"
         /\ \/ script.n = 0 /\ rows[latest] > 0 /\ Proceeds(script', "restart", script.n)
            \/ /\ script.n = 0 /\ ~(rows[latest] > 0)
               /\ SameScenario(script') /\ Fails(script', "marker not stored")
               /\ script'.stopped = script.stopped /\ script'.statuses = script.statuses
            \/ /\ script.n # 0 /\ rows[latest] > 0
               /\ \E s \in ScriptState :
                    /\ Concludes(s, script') /\ Keeps(s, {"retained"})
                    /\ s.retained = (rows[script.first + 1] > 0)
            \/ /\ script.n # 0 /\ ~(rows[latest] > 0)
               /\ Proceeds(script', "send", script.n + 1)
<1> USE BoundsAreNaturals, EnoughSamples
<1>1. script \in ScriptState /\ SameScenario(script)
  BY DEF TypeOK, SameScenario
<1>2. At({"look"}) /\ scenario = "recovery"
  BY ScenarioType DEF Look, ControlInv, StepsOf, At, Scenario, Detection
<1>3. script.n \in Nat /\ script.n <= MaxAttempts
  BY <1>1, <1>2 DEF ControlInv, At, ScriptState
<1>4. CASE script.n = 0 /\ rows[latest] > 0
  <2>1. script' = [script EXCEPT !.step = "restart"]
    BY <1>4 DEF Look, Goes
  <2>2. "restart" \in Steps /\ 0 \in 0 .. Count + MaxAttempts
    BY DEF Steps
  <2>. QED
    BY <1>1, <1>2, <1>4, <2>1, <2>2, Proceeded
<1>5. CASE script.n = 0 /\ ~(rows[latest] > 0)
  <2>1. script' = Raise(script, "marker not stored")
    BY <1>5 DEF Look, Goes
  <2>. QED
    BY <1>1, <1>2, <1>5, <2>1, Raised DEF Errors
<1>6. CASE script.n # 0 /\ rows[latest] > 0
  <2> DEFINE found == rows[script.first + 1] > 0
             s == [script EXCEPT !.retained = found]
  <2>1. found \in BOOLEAN
    OBVIOUS
  <2>2. script' = Finish(s)
    BY <1>6 DEF Look, Goes
  <2> HIDE DEF found
  <2>3. s \in ScriptState
    BY <1>1, <2>1, Updates
  <2>4. /\ s.plan = script.plan /\ s.stage = script.stage /\ s.sent = script.sent
        /\ Keeps(s, {"retained"}) /\ s.retained = found
    BY <1>1 DEF ScriptState, Keeps
  <2> HIDE DEF s
  <2>5. script' \in ScriptState /\ Concludes(s, script')
    BY <2>2, <2>3, <2>4, Finished
  <2>. QED
    BY <1>2, <1>6, <2>3, <2>4, <2>5 DEF found
<1>7. CASE script.n # 0 /\ ~(rows[latest] > 0)
  <2> DEFINE next == script.n + 1
  <2>1. script' = Moved(script, next, "send")
    BY <1>7 DEF Look, Goes, Moved
  <2>2. next \in 0 .. Count + MaxAttempts /\ "send" \in Steps
    BY <1>3 DEF Steps
  <2> HIDE DEF next
  <2>3. script' \in ScriptState /\ Proceeds(script', "send", next)
    BY <1>1, <2>1, <2>2, Proceeded
  <2>. QED
    BY <1>2, <1>7, <2>3 DEF next
<1>. QED
  BY <1>4, <1>5, <1>6, <1>7

\* Operations that only take the script one step on.
LEMMA InjectOutcome ==
  ASSUME TypeOK, InjectInvalidEnvelope
  PROVE  script' \in ScriptState /\ Proceeds(script', "poll", script.n)
<1>1. /\ script \in ScriptState /\ script' = [script EXCEPT !.step = "poll"]
      /\ 0 \in 0 .. Count + MaxAttempts
  BY BoundsAreNaturals DEF TypeOK, InjectInvalidEnvelope, Goes
<1>. QED
  BY <1>1, Proceeded DEF Steps

LEMMA RestoreOutcome ==
  ASSUME TypeOK, Restore
  PROVE  script' \in ScriptState /\ Proceeds(script', "restored", script.n)
<1>1. /\ script \in ScriptState /\ script' = [script EXCEPT !.step = "restored"]
      /\ 0 \in 0 .. Count + MaxAttempts
  BY BoundsAreNaturals DEF TypeOK, Restore, Goes
<1>. QED
  BY <1>1, Proceeded DEF Steps

LEMMA RestartOutcome ==
  ASSUME TypeOK, Restart
  PROVE  script' \in ScriptState /\ Proceeds(script', "send", 1)
<1>1. /\ script \in ScriptState /\ script' = Moved(script, 1, "send")
      /\ 1 \in 0 .. Count + MaxAttempts
  BY BoundsAreNaturals, EnoughSamples DEF TypeOK, Restart, Goes, Moved
<1>. QED
  BY <1>1, Proceeded DEF Steps

\* A failure that is raised where the script is.
LEMMA RaisedHere ==
  ASSUME TypeOK, NEW reason \in Errors, script' = Raise(script, reason)
  PROVE  /\ script' \in ScriptState /\ SameScenario(script') /\ Fails(script', reason)
         /\ script'.stopped = script.stopped /\ script'.statuses = script.statuses
<1>1. script \in ScriptState /\ SameScenario(script)
  BY DEF TypeOK, SameScenario
<1>. QED
  BY <1>1, Raised

LEMMA PollOutcome ==
  ASSUME TypeOK, Poll
  PROVE  /\ script' \in ScriptState
         /\ \/ script' = script
            \/ script.stopped # None /\ Proceeds(script', "restore", script.n)
            \/ script.stopped = None /\ Concludes(script, script')
            \/ /\ SameScenario(script') /\ Fails(script', "counter reset")
               /\ scenario # "gateway-outage" /\ increase < 0
               /\ script'.stopped = script.stopped /\ script'.statuses = script.statuses
<1>1. script \in ScriptState /\ 0 \in 0 .. Count + MaxAttempts
  BY BoundsAreNaturals DEF TypeOK
<1>2. \/ script' = script
      \/ script' = Detected
      \/ /\ scenario # "gateway-outage" /\ increase < 0
         /\ script' = Raise(script, "counter reset")
  BY DEF Poll, WithIncrease, Goes
<1>3. CASE script' = script
  BY <1>1, <1>3
<1>4. CASE script' = Detected
  <2>1. CASE script.stopped # None
    <3>1. script' = [script EXCEPT !.step = "restore"]
      BY <1>4, <2>1 DEF Detected
    <3>. QED
      BY <1>1, <2>1, <3>1, Proceeded DEF Steps
  <2>2. CASE script.stopped = None
    <3>1. script' = Finish(script)
      BY <1>4, <2>2 DEF Detected
    <3>. QED
      BY <1>1, <2>2, <3>1, Finished
  <2>. QED
    BY <2>1, <2>2
<1>5. CASE /\ scenario # "gateway-outage" /\ increase < 0
           /\ script' = Raise(script, "counter reset")
  BY <1>5, RaisedHere DEF Errors
<1>. QED
  BY <1>2, <1>3, <1>4, <1>5

LEMMA RequestFailsOutcome ==
  ASSUME TypeOK, RequestFails
  PROVE  /\ script' \in ScriptState /\ SameScenario(script')
         /\ Fails(script', "request failed")
         /\ script'.stopped = script.stopped /\ script'.statuses = script.statuses
BY RaisedHere DEF RequestFails, Goes, Errors

LEMMA CeilingOutcome ==
  ASSUME TypeOK, CeilingPasses
  PROVE  /\ script' \in ScriptState /\ SameScenario(script')
         /\ Fails(script', "not observed") \/ Fails(script', "not recovered")
         /\ script'.stopped = script.stopped /\ script'.statuses = script.statuses
BY RaisedHere DEF CeilingPasses, Goes, Errors

LEMMA OutageType == Outage \in Service /\ Outage # None
BY NoneIsNoValue DEF Outage, Service

\* The script notes which service is stopped.
LEMMA NotesStop ==
  ASSUME script \in ScriptState, NEW x \in Service \cup {None}, NEW step \in Steps,
         script' = [script EXCEPT !.stopped = x, !.step = step]
  PROVE  /\ script' \in ScriptState /\ Keeps(script', {"stopped"})
         /\ script'.stopped = x /\ script'.step = step
<1> DEFINE a == [script EXCEPT !.stopped = x]
           b == [a EXCEPT !.step = step]
<1>1. script' = b
  OBVIOUS
<1>2. Keeps(script', {"stopped"}) /\ script'.stopped = x /\ script'.step = step
  BY <1>1 DEF Keeps, ScriptState
<1>3. a \in ScriptState
  BY Updates
<1>4. b \in ScriptState
  <2> HIDE DEF a
  <2>. QED
    BY <1>3, Updates
<1>. QED
  BY <1>1, <1>2, <1>4

LEMMA StopOutcome ==
  ASSUME TypeOK, Stop
  PROVE  /\ script' \in ScriptState /\ Keeps(script', {"stopped"})
         /\ script'.stopped = Outage
         /\ script'.step = IF scenario = "gateway-outage" THEN "poll" ELSE "send"
<1>1. script' = [script EXCEPT !.stopped = Outage, !.step = AfterStop]
  BY DEF Stop, Goes
<1>2. /\ AfterStop = IF scenario = "gateway-outage" THEN "poll" ELSE "send"
      /\ AfterStop \in Steps
  BY DEF AfterStop, Steps
<1>. QED
  BY <1>1, <1>2, OutageType, NotesStop DEF TypeOK

LEMMA StartOutcome ==
  ASSUME TypeOK, Start
  PROVE  /\ script' \in ScriptState /\ Keeps(script', {"stopped"})
         /\ script'.stopped = None /\ script'.step = "healthy"
BY NotesStop DEF Start, Goes, TypeOK, Steps

LEMMA EndsWithError ==
  ASSUME script \in ScriptState, NEW reason \in Errors,
         script' = [script EXCEPT !.error = reason, !.step = "ended"]
  PROVE  /\ script' \in ScriptState /\ Keeps(script', {"error"})
         /\ script'.error = reason /\ script'.step = "ended"
<1> DEFINE a == [script EXCEPT !.error = reason]
           b == [a EXCEPT !.step = "ended"]
<1>1. script' = b
  OBVIOUS
<1>2. Keeps(script', {"error"}) /\ script'.error = reason /\ script'.step = "ended"
  BY <1>1 DEF Keeps, ScriptState
<1>3. a \in ScriptState
  BY Updates
<1>4. b \in ScriptState
  <2> HIDE DEF a
  <2>. QED
    BY <1>3, Updates DEF Steps
<1>. QED
  BY <1>1, <1>2, <1>4

LEMMA StaysUnhealthyOutcome ==
  ASSUME TypeOK, StaysUnhealthy
  PROVE  /\ script' \in ScriptState /\ Keeps(script', {"error"})
         /\ script'.error = "unhealthy" /\ script'.step = "ended"
BY EndsWithError DEF StaysUnhealthy, Goes, TypeOK, Errors

\* The cloud is back for the rest of the outage scenario, or all is restored: what was
\* raised ends the script, and otherwise the scenario has its result.
LEMMA BecomesHealthyOutcome ==
  ASSUME TypeOK, BecomesHealthy
  PROVE  /\ script' \in ScriptState
         /\ \/ At({"healthy"}) /\ Proceeds(script', "send", script.n)
            \/ /\ At({"restored"}) /\ script.error # None
               /\ Keeps(script', {"stopped"}) /\ script'.stopped = None
               /\ script'.step = "ended"
            \/ /\ At({"restored"}) /\ script.error = None
               /\ \E s \in ScriptState :
                    Concludes(s, script') /\ Keeps(s, {"stopped"}) /\ s.stopped = None
<1>1. script \in ScriptState /\ 0 \in 0 .. Count + MaxAttempts
  BY BoundsAreNaturals DEF TypeOK
<1>2. CASE At({"healthy"})
  <2>1. script' = [script EXCEPT !.step = "send"]
    BY <1>2 DEF BecomesHealthy, Goes
  <2>. QED
    BY <1>1, <1>2, <2>1, Proceeded DEF Steps
<1>3. CASE At({"restored"}) /\ script.error # None
  <2>1. script' = [script EXCEPT !.step = "ended", !.stopped = None]
    BY <1>3 DEF BecomesHealthy, Goes, At
  <2>2. script' = [script EXCEPT !.stopped = None, !.step = "ended"]
    BY <1>1, <2>1 DEF ScriptState
  <2>3. "ended" \in Steps /\ None \in Service \cup {None}
    BY DEF Steps
  <2>. QED
    BY <1>1, <1>3, <2>2, <2>3, NotesStop
<1>4. CASE At({"restored"}) /\ script.error = None
  <2> DEFINE s == [script EXCEPT !.stopped = None]
  <2>1. script' = Finish(s)
    BY <1>4 DEF BecomesHealthy, Goes, At
  <2>2. s \in ScriptState
    BY <1>1, Updates
  <2>3. /\ s.plan = script.plan /\ s.stage = script.stage /\ s.sent = script.sent
        /\ Keeps(s, {"stopped"}) /\ s.stopped = None
    BY <1>1 DEF ScriptState, Keeps
  <2> HIDE DEF s
  <2>4. script' \in ScriptState /\ Concludes(s, script')
    BY <2>1, <2>2, <2>3, Finished
  <2>. QED
    BY <1>4, <2>2, <2>3, <2>4
<1>. QED
  BY <1>2, <1>3, <1>4 DEF BecomesHealthy, At

\* A command that fails while it stops, starts or restarts a service, and one of the
\* finally clause.
LEMMA CommandFailsOutcome ==
  ASSUME TypeOK, CommandFails
  PROVE  /\ script' \in ScriptState
         /\ \/ /\ At({"stop", "start", "restart"})
               /\ SameScenario(script') /\ Fails(script', "command failed")
               /\ script'.statuses = script.statuses
               /\ script'.stopped = IF At({"stop"}) THEN Outage ELSE script.stopped
               /\ script'.step = IF script'.stopped = None THEN "ended" ELSE "restore"
            \/ /\ At({"restore"}) /\ Keeps(script', {"error"})
               /\ script'.error = "command failed" /\ script'.step = "ended"
<1>1. script \in ScriptState
  BY DEF TypeOK
<1>2. CASE At({"stop"})
  <2> DEFINE s == [script EXCEPT !.stopped = Outage]
  <2>1. script' = Raise(s, "command failed")
    BY <1>2 DEF CommandFails, Goes, At
  <2>2. s \in ScriptState
    BY <1>1, OutageType, Updates
  <2>3. /\ SameScenario(s) /\ s.n = script.n /\ s.before = script.before
        /\ s.stopped = Outage /\ s.statuses = script.statuses
    BY <1>1 DEF ScriptState, SameScenario
  <2> HIDE DEF s
  <2>4. /\ script' \in ScriptState /\ SameScenario(script') /\ Fails(script', "command failed")
        /\ script'.stopped = s.stopped /\ script'.statuses = s.statuses
    BY <2>1, <2>2, <2>3, Raised DEF Errors
  <2>. QED
    BY <1>2, <2>3, <2>4 DEF At, Fails
<1>3. CASE At({"start", "restart"})
  <2>1. script' = Raise(script, "command failed")
    BY <1>3 DEF CommandFails, Goes, At
  <2>2. /\ script' \in ScriptState /\ SameScenario(script') /\ Fails(script', "command failed")
        /\ script'.stopped = script.stopped /\ script'.statuses = script.statuses
    BY <2>1, RaisedHere DEF Errors
  <2>. QED
    BY <1>3, <2>2 DEF At, Fails
<1>4. CASE At({"restore"})
  <2>1. script' = [script EXCEPT !.error = "command failed", !.step = "ended"]
    BY <1>4 DEF CommandFails, Goes, At
  <2>. QED
    BY <1>1, <1>4, <2>1, EndsWithError DEF Errors
<1>. QED
  BY <1>2, <1>3, <1>4 DEF CommandFails, At

LEMMA StatusType ==
  ASSUME NEW answer \in Answers
  PROVE  /\ StatusOf(answer) \in Status
         /\ StatusOf(answer) = 200 <=> answer = "ok"
         /\ StatusOf(answer) = 502 <=> answer = "bad"
BY DEF Answers, StatusOf, Status

LEMMA HearAnswerOutcome ==
  ASSUME TypeOK, ControlInv, HearAnswer
  PROVE  /\ script' \in ScriptState /\ latest \in Reading
         /\ LET status == StatusOf(gateway[latest])
            IN  /\ HeardMoves(script', status)
                /\ script'.statuses = [script.statuses EXCEPT ![latest] = status]
<1> DEFINE status == StatusOf(gateway[latest])
           heard == [script.statuses EXCEPT ![latest] = status]
           s == [script EXCEPT !.statuses = heard]
<1>1. script \in ScriptState /\ At({"wait"})
  BY DEF TypeOK, HearAnswer
<1>2. latest \in Reading
  BY <1>1, BoundsAreNaturals DEF ControlInv, At, latest, Reading, ScriptState
<1>3. script' = Heard(s, status)
  BY DEF HearAnswer, Goes
<1>3a. status \in Status
  BY StatusType DEF HearAnswer
<1>4. heard \in [Reading -> Status \cup {None}] /\ status \in Status \cup {None}
  <2> HIDE DEF status
  <2>. QED
    BY <1>1, <1>2, <1>3a DEF ScriptState
<1> HIDE DEF status, heard
<1>5. s \in ScriptState
  BY <1>1, <1>4, Updates
<1>6. /\ SameScenario(s) /\ s.n = script.n /\ s.before = script.before
      /\ s.stopped = script.stopped /\ s.error = script.error /\ s.statuses = heard
  BY <1>1 DEF ScriptState, SameScenario
<1> HIDE DEF s
<1>7. /\ script' \in ScriptState /\ HeardMoves(script', status) /\ script'.statuses = heard
  BY <1>1, <1>3, <1>4, <1>5, <1>6, HeardOutcome
<1>. QED
  BY <1>2, <1>7 DEF status, heard

LEMMA GiveUpOutcome ==
  ASSUME TypeOK, ControlInv, GiveUp \/ ConnectionBreaks
  PROVE  /\ script' \in ScriptState /\ HeardMoves(script', None)
         /\ script'.statuses = script.statuses
<1>1. script \in ScriptState /\ At({"wait"}) /\ SameScenario(script)
  BY DEF TypeOK, GiveUp, ConnectionBreaks, SameScenario
<1>2. script' = Heard(script, None)
  BY DEF GiveUp, ConnectionBreaks, Goes
<1>. QED
  BY <1>1, <1>2, HeardOutcome

-----------------------------------------------------------------------------
(* Type correctness, and where the script is.                                *)

\* The script's state stays one, in whatever scenario it goes on.
ScriptType(s) ==
  s \in ScriptState /\ s.stage \in DOMAIN s.plan /\ s.first <= s.sent

LEMMA ConcludesType ==
  ASSUME ScriptType(script), NEW s, s.first = script.first, s.sent = script.sent,
         NEW t \in ScriptState, Concludes(s, t)
  PROVE  ScriptType(t)
<1>1. t.sent \in Nat /\ t.sent <= t.sent
  BY BoundsAreNaturals DEF ScriptState
<1>. QED
  BY <1>1 DEF ScriptType, Concludes

LEMMA ScriptTypeStep ==
  ASSUME TypeOK, ControlInv, ScenarioStep
  PROVE  ScriptType(script')
<1>0. ScriptType(script) /\ script.sent \in Nat /\ script.first \in Nat
  BY BoundsAreNaturals DEF TypeOK, ScriptType, ScriptState
<1>1. CASE Send
  BY <1>0, <1>1, SendOutcome DEF ScriptType, Keeps
<1>2. CASE HearAnswer
  BY <1>0, <1>2, HearAnswerOutcome DEF ScriptType, HeardMoves, SameScenario
<1>3. CASE GiveUp \/ ConnectionBreaks
  BY <1>0, <1>3, GiveUpOutcome DEF ScriptType, HeardMoves, SameScenario
<1>4. CASE ReadBefore
  BY <1>0, <1>4, ReadBeforeOutcome DEF ScriptType, Keeps
<1>5. CASE CompareReceipts
  BY <1>0, <1>5, CompareOutcome, ConcludesType DEF ScriptType, Proceeds, SameScenario
<1>6. CASE TakeSnapshot
  BY <1>0, <1>6, TakeSnapshotOutcome DEF ScriptType, Keeps
<1>7. CASE TakeFinal
  BY <1>0, <1>7, TakeFinalOutcome, ConcludesType DEF Keeps
<1>8. CASE Look
  BY <1>0, <1>8, LookOutcome, ConcludesType DEF ScriptType, Keeps, Proceeds, SameScenario
<1>9. CASE InjectInvalidEnvelope
  BY <1>0, <1>9, InjectOutcome DEF ScriptType, Proceeds, SameScenario
<1>10. CASE Poll
  BY <1>0, <1>10, PollOutcome, ConcludesType DEF ScriptType, Proceeds, SameScenario
<1>11. CASE RequestFails
  BY <1>0, <1>11, RequestFailsOutcome DEF ScriptType, SameScenario
<1>12. CASE CeilingPasses
  BY <1>0, <1>12, CeilingOutcome DEF ScriptType, SameScenario
<1>13. CASE Stop
  BY <1>0, <1>13, StopOutcome DEF ScriptType, Keeps
<1>14. CASE Start
  BY <1>0, <1>14, StartOutcome DEF ScriptType, Keeps
<1>15. CASE Restart
  BY <1>0, <1>15, RestartOutcome DEF ScriptType, Proceeds, SameScenario
<1>16. CASE Restore
  BY <1>0, <1>16, RestoreOutcome DEF ScriptType, Proceeds, SameScenario
<1>17. CASE BecomesHealthy
  BY <1>0, <1>17, BecomesHealthyOutcome, ConcludesType
     DEF ScriptType, Keeps, Proceeds, SameScenario
<1>18. CASE StaysUnhealthy
  BY <1>0, <1>18, StaysUnhealthyOutcome DEF ScriptType, Keeps
<1>19. CASE CommandFails
  BY <1>0, <1>19, CommandFailsOutcome DEF ScriptType, Keeps, SameScenario
<1>. QED
  BY <1>1, <1>2, <1>3, <1>4, <1>5, <1>6, <1>7, <1>8, <1>9, <1>10, <1>11, <1>12, <1>13,
     <1>14, <1>15, <1>16, <1>17, <1>18, <1>19 DEF ScenarioStep

\* The rest of the state.
StackType ==
  /\ services \in [Service -> {"up", "starting", "down", "dead"}]
  /\ gateway \in [Reading -> {"none", "sent", "forwarding", "failing", "ok", "bad", "full"}]
  /\ cloud \in [Reading -> {"none", "storing", "stored", "counted", "ended"}]
  /\ rows \in Snapshot
  /\ counters \in [CounterNames -> Nat]
  /\ registry \in [known : Nat, limit : Nat] /\ registry.known <= registry.limit
  /\ mishaps \in 0 .. MaxMishaps
  /\ causes \subseteq {"timeout", "storage", "capacity", "crash"} \cup Command

LEMMA TypeParts == TypeOK <=> StackType /\ ScriptType(script)
BY DEF TypeOK, StackType, ScriptType

LEMMA EndProcessType ==
  ASSUME StackType, NEW s \in Service, EndProcess(s)
  PROVE  /\ gateway' \in [Reading -> {"none", "sent", "forwarding", "failing", "ok", "bad", "full"}]
         /\ cloud' \in [Reading -> {"none", "storing", "stored", "counted", "ended"}]
         /\ rows' = rows /\ counters' \in [CounterNames -> Nat]
         /\ registry' \in [known : Nat, limit : Nat] /\ registry'.known <= registry'.limit
<1>1. gateway' \in [Reading -> {"none", "sent", "forwarding", "failing", "ok", "bad", "full"}]
  BY DEF EndProcess, StackType
<1>2. cloud' \in [Reading -> {"none", "storing", "stored", "counted", "ended"}]
  BY DEF EndProcess, StackType
<1>3. counters' \in [CounterNames -> Nat]
  BY DEF EndProcess, StackType
<1>4. registry' \in [known : Nat, limit : Nat] /\ registry'.known <= registry'.limit
  BY DEF EndProcess, StackType
<1>. QED
  BY <1>1, <1>2, <1>3, <1>4 DEF EndProcess

\* What docker compose does to the stack.
Commanded ==
  \/ LeavesStack \/ StopService \/ RestartCloud
  \/ \E s \in Service : StartService(s)

LEMMA CommandedType ==
  ASSUME StackType, Commanded, causes' \subseteq {"timeout", "storage", "capacity", "crash"} \cup Command
  PROVE  StackType'
<1>1. CASE LeavesStack
  BY <1>1 DEF LeavesStack, StackType
<1>2. CASE StopService
  <2>1. Outage \in Service /\ EndProcess(Outage)
    BY <1>2, OutageType DEF StopService
  <2>. QED
    BY <1>2, <2>1, EndProcessType DEF StopService, StackType
<1>3. CASE RestartCloud
  <2>1. "cloud" \in Service /\ EndProcess("cloud")
    BY <1>3 DEF RestartCloud, Service
  <2>2. /\ gateway' \in [Reading -> {"none", "sent", "forwarding", "failing", "ok", "bad", "full"}]
        /\ cloud' \in [Reading -> {"none", "storing", "stored", "counted", "ended"}]
        /\ rows' = rows /\ counters' \in [CounterNames -> Nat]
        /\ registry' \in [known : Nat, limit : Nat] /\ registry'.known <= registry'.limit
    BY <2>1, EndProcessType
  <2>. QED
    BY <1>3, <2>2 DEF RestartCloud, StackType, Service
<1>4. CASE \E s \in Service : StartService(s)
  BY <1>4 DEF StartService, StackType
<1>. QED
  BY <1>1, <1>2, <1>3, <1>4 DEF Commanded

\* A service that the script has stopped is one of the stack.
LEMMA StoppedType ==
  ASSUME TypeOK, ControlInv, At({"restore", "restored"})
  PROVE  script.stopped = Outage /\ script.stopped \in Service
BY OutageType DEF ControlInv, HasStopped, At

LEMMA ScriptCommands ==
  ASSUME TypeOK, ControlInv,
         \/ CompareReceipts \/ ReadBefore \/ TakeSnapshot \/ TakeFinal \/ Look \/ Poll
         \/ RequestFails \/ CeilingPasses \/ GiveUp \/ BecomesHealthy \/ StaysUnhealthy
         \/ Stop \/ Start \/ Restart \/ Restore \/ CommandFails
  PROVE  Commanded /\ causes' \subseteq {"timeout", "storage", "capacity", "crash"} \cup Command
<1>1. "cloud" \in Service
  BY DEF Service
<1>2. causes \subseteq {"timeout", "storage", "capacity", "crash"} \cup Command
  BY DEF TypeOK
<1>3. CASE \/ CompareReceipts \/ ReadBefore \/ TakeSnapshot \/ TakeFinal \/ Look \/ Poll
           \/ RequestFails \/ CeilingPasses \/ GiveUp \/ BecomesHealthy \/ StaysUnhealthy
  BY <1>2, <1>3 DEF CompareReceipts, ReadBefore, TakeSnapshot, TakeFinal, Look, Poll,
       RequestFails, CeilingPasses, GiveUp, BecomesHealthy, StaysUnhealthy, Commanded
<1>4. CASE Stop \/ Start \/ Restart
  BY <1>1, <1>2, <1>4 DEF Stop, Start, Restart, Commanded
<1>5. CASE Restore
  <2>1. script.stopped \in Service
    BY <1>5, StoppedType DEF Restore, At
  <2>. QED
    BY <1>2, <1>5, <2>1 DEF Restore, Commanded
<1>6. CASE CommandFails
  <2>1. At({"restore"}) => script.stopped \in Service
    BY StoppedType DEF At
  <2>. QED
    BY <1>1, <1>2, <1>6, <2>1 DEF CommandFails, Commanded, Command
<1>. QED
  BY <1>3, <1>4, <1>5, <1>6

\* One more device, or one more mishap.
LEMMA BoundsStay ==
  ASSUME StackType
  PROVE  /\ registry.known < registry.limit /\ registry' = [registry EXCEPT !.known = @ + 1] =>
              registry' \in [known : Nat, limit : Nat] /\ registry'.known <= registry'.limit
         /\ Mishap => mishaps' \in 0 .. MaxMishaps
BY BoundsAreNaturals DEF StackType, Mishap

LEMMA StackTypeStep ==
  ASSUME StackType, StackStep
  PROVE  StackType' /\ script' = script
<1>0. ASSUME NEW c \in CounterNames, NEW k \in Nat, counters' = [counters EXCEPT ![c] = @ + k]
      PROVE  counters' \in [CounterNames -> Nat]
  BY <1>0 DEF StackType
<1>a. \A c \in {"received", "rejected", "failures", "faults"} : c \in CounterNames
  BY DEF CounterNames, CloudCounters
<1>b. ASSUME NEW r \in Reading, CountFault(r)
      PROVE  counters' \in [CounterNames -> Nat]
  <2> DEFINE k == IF IsSentinel(r) THEN 1 ELSE 0
  <2>1. k \in Nat /\ counters' = [counters EXCEPT !["faults"] = @ + k]
    BY <1>b DEF CountFault
  <2> HIDE DEF k
  <2>. QED
    BY <1>0, <1>a, <2>1
<1>1. ASSUME NEW r \in Reading, Arrive(r) PROVE StackType' /\ script' = script
  <2>1. counters' \in [CounterNames -> Nat]
    BY <1>1, <1>b DEF Arrive
  <2>2. registry' \in [known : Nat, limit : Nat] /\ registry'.known <= registry'.limit
    BY <1>1, BoundsStay DEF Arrive
  <2>. QED
    BY <1>1, <2>1, <2>2 DEF Arrive, StackType
<1>2. ASSUME NEW r \in Reading, Commit(r) PROVE StackType' /\ script' = script
  BY <1>2 DEF Commit, StackType, Snapshot
<1>3. ASSUME NEW r \in Reading, FailStorage(r) \/ CountReceived(r)
      PROVE  StackType' /\ script' = script
  <2>1. counters' \in [CounterNames -> Nat]
    BY <1>0, <1>3, <1>a DEF FailStorage, CountReceived
  <2>2. mishaps' \in 0 .. MaxMishaps
    BY <1>3, BoundsStay DEF FailStorage, CountReceived, StackType
  <2>. QED
    BY <1>3, <2>1, <2>2 DEF FailStorage, CountReceived, StackType
<1>4. ASSUME NEW r \in Reading, AnswerStored(r) PROVE StackType' /\ script' = script
  BY <1>4 DEF AnswerStored, AnswerFrom, StackType
<1>5. ASSUME NEW r \in Reading, ForwardFails(r) \/ ForwardTimesOut(r) \/ CountFailure(r)
      PROVE  StackType' /\ script' = script
  <2>1. counters' \in [CounterNames -> Nat]
    BY <1>0, <1>5, <1>a DEF ForwardFails, ForwardTimesOut, CountFailure, StackType
  <2>2. mishaps' \in 0 .. MaxMishaps
    BY <1>5, BoundsStay DEF ForwardFails, ForwardTimesOut, CountFailure, StackType
  <2>. QED
    BY <1>5, <2>1, <2>2 DEF ForwardFails, ForwardTimesOut, CountFailure, StackType
<1>6. ASSUME NEW s \in Service, BecomeReady(s) PROVE StackType' /\ script' = script
  BY <1>6 DEF BecomeReady, StackType
<1>7. ASSUME NEW r \in Reading, RefuseDevice(r) PROVE StackType' /\ script' = script
  <2>1. counters' \in [CounterNames -> Nat]
    BY <1>7, <1>b DEF RefuseDevice
  <2>. QED
    BY <1>7, <2>1 DEF RefuseDevice, StackType
<1>8. ASSUME NEW s \in Service, EndsByItself(s) PROVE StackType' /\ script' = script
  <2>1. EndProcess(s) /\ Mishap
    BY <1>8 DEF EndsByItself
  <2>2. mishaps' \in 0 .. MaxMishaps
    BY <2>1, BoundsStay
  <2>3. services' \in [Service -> {"up", "starting", "down", "dead"}]
    BY <1>8 DEF EndsByItself, StackType
  <2>4. causes' \subseteq {"timeout", "storage", "capacity", "crash"} \cup Command
    BY <1>8 DEF EndsByItself, StackType
  <2>5. script' = script
    BY <1>8 DEF EndsByItself
  <2>. QED
    BY <2>1, <2>2, <2>3, <2>4, <2>5, EndProcessType DEF StackType
<1>. QED
  BY <1>1, <1>2, <1>3, <1>4, <1>5, <1>6, <1>7, <1>8 DEF StackStep

LEMMA TypeStep ==
  ASSUME TypeOK, ControlInv, [Next]_vars
  PROVE  TypeOK'
<1>0. StackType /\ ScriptType(script)
  BY TypeParts
<1>1. CASE UNCHANGED vars
  BY <1>1 DEF TypeOK, vars
<1>2. CASE StackStep
  <2>1. StackType' /\ script' = script
    BY <1>0, <1>2, StackTypeStep
  <2>. QED
    BY <1>0, <2>1 DEF StackType, ScriptType, TypeOK
<1>3. CASE ScenarioStep
  <2>1. ScriptType(script')
    BY <1>3, ScriptTypeStep
  <2>2. StackType'
    <3>1. CASE Send
      <4>1. script.sent + 1 \in Reading
        BY <3>1, SendOutcome
      <4>. QED
        BY <1>0, <3>1, <4>1 DEF Send, StackType
    <3>2. CASE HearAnswer \/ ConnectionBreaks
      BY <1>0, <3>2 DEF HearAnswer, ConnectionBreaks, StackType
    <3>3. CASE InjectInvalidEnvelope
      BY <1>0, <3>3 DEF InjectInvalidEnvelope, StackType, CounterNames, CloudCounters
    <3>4. CASE ~(Send \/ HearAnswer \/ ConnectionBreaks \/ InjectInvalidEnvelope)
      BY <1>0, <1>3, <3>4, ScriptCommands, CommandedType DEF ScenarioStep
    <3>. QED
      BY <3>1, <3>2, <3>3, <3>4
  <2>. QED
    BY <2>1, <2>2 DEF StackType, ScriptType, TypeOK
<1>. QED
  BY <1>1, <1>2, <1>3, ScenarioSteps

ScenarioFits ==
  /\ scenario \in Scenario
  /\ samples \in Nat /\ 3 <= samples /\ samples <= Count
  /\ scenario # "latency" => samples = Count

LEMMA ScenarioTypeNext ==
  TypeOK' => /\ scenario' \in Scenario
             /\ samples' \in Nat /\ 3 <= samples' /\ samples' <= Count
             /\ scenario' # "latency" => samples' = Count
<1>1. TypeOK => ScenarioFits
  BY ScenarioType DEF ScenarioFits
<1>2. TypeOK' => ScenarioFits'
  BY <1>1, PTL
<1>. QED
  BY <1>2 DEF ScenarioFits

\* A scenario is over and the next one begins, with nothing stopped.
LEMMA ControlOver ==
  ASSUME TypeOK', NEW s, s.stopped = None, Concludes(s, script')
  PROVE  ControlInv'
<1>1. CASE script'.step = "ended"
  BY <1>1 DEF ControlInv, At, StepsOf
<1>2. CASE script'.step # "ended"
  <2>1. /\ script'.step = FirstStep(scenario') /\ script'.n = 0
        /\ script'.first = script'.sent /\ script'.stopped = None
    BY <1>2 DEF Concludes, scenario
  <2>2. /\ scenario' \in Scenario /\ samples' \in Nat /\ 3 <= samples'
    BY ScenarioTypeNext
  <2>3. script'.step = IF scenario' = "gateway-outage" THEN "stop"
                       ELSE IF scenario' \in {"delivery", "outage", "recovery"} THEN "send"
                       ELSE "before"
    BY <2>1, <2>2, Beginning
  <2>4. ~HasStopped'
    BY <2>1, <2>2, <2>3, OutageInside DEF HasStopped, At
  <2>5. script'.step \in StepsOf(scenario')
    BY <2>2, <2>3 DEF StepsOf, Scenario, Detection
  <2>. QED
    BY <2>1, <2>2, <2>3, <2>4, <2>5, BoundsAreNaturals DEF ControlInv, At
<1>. QED
  BY <1>1, <1>2

\* A failure leads to the finally clause, if the scenario has one that matters.
LEMMA ControlFails ==
  ASSUME TypeOK, ControlInv, NEW reason, SameScenario(script'), Fails(script', reason),
         script'.stopped \in {None, Outage},
         script'.stopped # None =>
           scenario \in {"outage", "cloud-outage", "gateway-outage"}
  PROVE  ControlInv'
<1>1. scenario' = scenario /\ Outage' = Outage
  BY ScenarioStays DEF SameScenario
<1>2. script'.step \in {"ended", "restore"}
  BY DEF Fails
<1>3. script'.step \in StepsOf(scenario)
  BY <1>2 DEF StepsOf, Fails
<1>. QED
  BY <1>1, <1>2, <1>3 DEF ControlInv, Fails, At, HasStopped

\* Only these scenarios stop a service.
LEMMA StoppedScenarios ==
  ASSUME TypeOK, ControlInv, ~At({"ended"})
  PROVE  /\ script.stopped \in {None, Outage}
         /\ script.stopped # None => scenario \in {"outage", "cloud-outage", "gateway-outage"}
<1>1. scenario \in Scenario /\ script.step \in StepsOf(scenario)
  BY ScenarioType DEF ControlInv
<1>2. At({"restore", "restored"}) => scenario \in {"outage", "cloud-outage", "gateway-outage"}
  BY <1>1 DEF At, StepsOf, Scenario, Detection
<1>. QED
  BY <1>2 DEF ControlInv, HasStopped

LEMMA ControlStep ==
  ASSUME TypeOK, TypeOK', ControlInv, ScenarioStep
  PROVE  ControlInv'
<1> USE BoundsAreNaturals, EnoughSamples
<1>0. /\ scenario \in Scenario /\ script.step \in StepsOf(scenario)
      /\ samples \in Nat /\ samples <= Count /\ (scenario # "latency" => samples = Count)
      /\ script.n \in Nat /\ script.sent \in Nat /\ script.first \in Nat
      /\ script.first <= script.sent
  BY ScenarioType DEF ControlInv, TypeOK, ScriptState
<1> DEFINE Here == /\ scenario' = scenario /\ samples' = samples /\ Outage' = Outage
<1>a. \A fields : Keeps(script', fields) => Here
  BY ScenarioStays DEF Keeps
<1>b. SameScenario(script') => Here
  BY ScenarioStays DEF SameScenario
<1> HIDE DEF Here
<1>c. /\ stop_at \in Nat /\ start_at \in Nat /\ Count \in Nat
      /\ 1 <= stop_at /\ stop_at < start_at /\ start_at < Count
  BY OutageInside
<1>1. CASE Send
  <2>1. At({"send"}) /\ (scenario = "recovery" => script.n <= MaxAttempts)
    BY <1>1 DEF Send
  <2>2. /\ Here /\ script'.sent = script.sent + 1 /\ script'.step = "wait"
        /\ script'.n = script.n /\ script'.stopped = script.stopped
        /\ script'.first = script.first
    BY <1>1, <1>a, SendOutcome DEF Keeps
  <2>. QED
    BY <1>0, <2>1, <2>2 DEF ControlInv, HasStopped, At, StepsOf, Scenario, Detection, Here
<1>2. CASE HearAnswer \/ GiveUp \/ ConnectionBreaks
  <2>1. At({"wait"})
    BY <1>2 DEF HearAnswer, GiveUp, ConnectionBreaks
  <2>2. PICK status : HeardMoves(script', status)
    BY <1>2, HearAnswerOutcome, GiveUpOutcome
  <2>3. /\ Here /\ SameScenario(script') /\ script'.stopped = script.stopped
    BY <2>2, <1>b DEF HeardMoves
  <2>4. CASE \E reason : Fails(script', reason)
    BY <2>1, <2>3, <2>4, StoppedScenarios, ControlFails DEF At
  <2>5. CASE ~\E reason : Fails(script', reason)
    <3>1. CASE scenario = "latency"
      BY <1>0, <2>1, <2>2, <2>3, <3>1
         DEF HeardMoves, SameScenario, ControlInv, HasStopped, At, StepsOf, Here
    <3>2. CASE scenario \in {"delivery", "outage"}
      <4>1. script.n + 1 \in 0 .. Count
        BY <1>0, <2>1, <3>2 DEF ControlInv, At
      <4>2. /\ script'.n = script.n + 1
            /\ script'.step = IF script.n + 1 = Count THEN "final"
                 ELSE IF scenario = "outage" /\ script.n + 1 = stop_at THEN "snapshot"
                 ELSE IF scenario = "outage" /\ script.n + 1 = start_at THEN "start"
                 ELSE "send"
        BY <2>2, <3>2, <4>1, NextHead DEF HeardMoves
      <4>. QED
        BY <1>0, <1>c, <2>1, <2>3, <3>2, <4>1, <4>2
           DEF SameScenario, ControlInv, HasStopped, At, StepsOf, Here
    <3>3. CASE scenario = "recovery"
      <4>1. \/ script'.step = "look" /\ script'.n = script.n
            \/ script'.step = "send" /\ script'.n = script.n + 1
        BY <2>2, <2>5, <3>3 DEF HeardMoves
      <4>. QED
        BY <1>0, <2>1, <2>3, <3>3, <4>1
           DEF SameScenario, ControlInv, HasStopped, At, StepsOf, Here
    <3>4. CASE scenario \in Detection
      <4>1. script'.step = "poll" /\ script'.n = script.n
        BY <2>2, <2>5, <3>4 DEF HeardMoves
      <4>. QED
        BY <1>0, <2>1, <2>3, <3>4, <4>1
           DEF SameScenario, ControlInv, HasStopped, At, StepsOf, Here, Detection
    <3>. QED
      BY <1>0, <3>1, <3>2, <3>3, <3>4 DEF Scenario
  <2>. QED
    BY <2>4, <2>5
<1>3. CASE ReadBefore
  <2>1. /\ At({"before"})
        /\ scenario \in {"latency", "cloud-outage", "sensor-sentinel", "invalid-envelope"}
    BY <1>0, <1>3 DEF ReadBefore, StepsOf, At, Scenario, Detection
  <2>2. /\ Here /\ script'.n = script.n /\ script'.stopped = script.stopped
        /\ script'.first = script.first /\ script'.sent = script.sent
        /\ script'.step = IF scenario = "cloud-outage" THEN "stop"
                          ELSE IF scenario = "invalid-envelope" THEN "inject" ELSE "send"
    BY <1>3, <1>a, ReadBeforeOutcome DEF Keeps
  <2>. QED
    BY <1>0, <2>1, <2>2 DEF ControlInv, HasStopped, At, StepsOf, Here
<1>4. CASE CompareReceipts
  <2>1. At({"after"}) /\ scenario = "latency" /\ script.stopped = None
    BY <1>4, CompareOutcome DEF CompareReceipts, ControlInv, HasStopped, At
  <2>2. CASE SameScenario(script') /\ script'.stopped = script.stopped
             /\ \E reason : Fails(script', reason)
    BY <2>1, <2>2, StoppedScenarios, ControlFails DEF At
  <2>3. CASE script.n + 1 < samples /\ Proceeds(script', "before", script.n + 1)
    <3>1. Here
      BY <2>3, <1>b DEF Proceeds
    <3>. QED
      BY <1>0, <2>1, <2>3, <3>1
         DEF Proceeds, SameScenario, ControlInv, HasStopped, At, StepsOf, Here
  <2>4. CASE Concludes(script, script')
    BY <2>1, <2>4, ControlOver
  <2>. QED
    BY <1>4, <2>2, <2>3, <2>4, CompareOutcome
<1>5. CASE TakeSnapshot
  <2>1. At({"snapshot"}) /\ scenario = "outage"
    BY <1>0, <1>5 DEF TakeSnapshot, StepsOf, At, Scenario, Detection
  <2>2. /\ Here /\ script'.n = script.n /\ script'.stopped = script.stopped
        /\ script'.step = "stop"
    BY <1>5, <1>a, TakeSnapshotOutcome DEF Keeps
  <2>. QED
    BY <2>1, <2>2 DEF ControlInv, HasStopped, At, StepsOf, Here
<1>6. CASE TakeFinal
  <2>1. At({"final"}) /\ script.stopped = None
    BY <1>6 DEF TakeFinal, ControlInv, HasStopped, At
  <2>2. PICK s \in ScriptState : Concludes(s, script') /\ Keeps(s, {"summary"})
    BY <1>6, TakeFinalOutcome
  <2>3. s.stopped = None
    BY <2>1, <2>2 DEF Keeps
  <2>. QED
    BY <2>2, <2>3, ControlOver
<1>7. CASE Look
  <2>1. At({"look"}) /\ scenario = "recovery" /\ script.stopped = None
    BY <1>7, LookOutcome DEF Look, ControlInv, HasStopped, At
  <2>2. CASE SameScenario(script') /\ script'.stopped = script.stopped
             /\ \E reason : Fails(script', reason)
    BY <2>1, <2>2, StoppedScenarios, ControlFails DEF At
  <2>3. CASE \/ script.n = 0 /\ Proceeds(script', "restart", script.n)
             \/ script.n # 0 /\ Proceeds(script', "send", script.n + 1)
    <3>1. Here
      BY <2>3, <1>b DEF Proceeds
    <3>. QED
      BY <1>0, <2>1, <2>3, <3>1
         DEF Proceeds, SameScenario, ControlInv, HasStopped, At, StepsOf, Here
  <2>4. CASE \E s \in ScriptState : Concludes(s, script') /\ Keeps(s, {"retained"})
    <3>1. PICK s \in ScriptState : Concludes(s, script') /\ Keeps(s, {"retained"})
      BY <2>4
    <3>2. s.stopped = None
      BY <2>1, <3>1 DEF Keeps
    <3>. QED
      BY <3>1, <3>2, ControlOver
  <2>. QED
    BY <1>7, <2>2, <2>3, <2>4, LookOutcome
<1>8. CASE InjectInvalidEnvelope
  <2>1. At({"inject"}) /\ scenario = "invalid-envelope"
    BY <1>0, <1>8 DEF InjectInvalidEnvelope, StepsOf, At, Scenario, Detection
  <2>2. Proceeds(script', "poll", script.n) /\ Here
    BY <1>8, <1>b, InjectOutcome DEF Proceeds
  <2>. QED
    BY <2>1, <2>2 DEF Proceeds, ControlInv, HasStopped, At, StepsOf, Here
<1>9. CASE Poll
  <2>1. At({"poll"}) /\ scenario \in Detection
    BY <1>0, <1>9 DEF Poll, StepsOf, At, Scenario, Detection
  <2>2. CASE script' = script
    BY <2>2 DEF ControlInv, HasStopped, At, scenario, samples, isolated, Outage
  <2>3. CASE script.stopped # None /\ Proceeds(script', "restore", script.n)
    <3>1. Here /\ script.stopped = Outage
      BY <2>1, <2>3, <1>b, StoppedScenarios DEF Proceeds, At
    <3>2. scenario \in {"cloud-outage", "gateway-outage"}
      BY <2>1, <2>3 DEF ControlInv, HasStopped, At, Detection
    <3>. QED
      BY <2>3, <3>1, <3>2 DEF Proceeds, ControlInv, HasStopped, At, StepsOf, Here
  <2>4. CASE script.stopped = None /\ Concludes(script, script')
    BY <2>4, ControlOver
  <2>5. CASE SameScenario(script') /\ script'.stopped = script.stopped
             /\ \E reason : Fails(script', reason)
    BY <2>1, <2>5, StoppedScenarios, ControlFails DEF At
  <2>. QED
    BY <1>9, <2>2, <2>3, <2>4, <2>5, PollOutcome
<1>10. CASE RequestFails
  <2>1. ~At({"ended"})
    BY <1>10 DEF RequestFails, At
  <2>. QED
    BY <1>10, <2>1, RequestFailsOutcome, StoppedScenarios, ControlFails
<1>11. CASE CeilingPasses
  <2>1. ~At({"ended"})
    BY <1>11 DEF CeilingPasses, At
  <2>. QED
    BY <1>11, <2>1, CeilingOutcome, StoppedScenarios, ControlFails
<1>12. CASE Stop
  <2>1. At({"stop"}) /\ scenario \in {"outage", "cloud-outage", "gateway-outage"}
    BY <1>0, <1>12 DEF Stop, StepsOf, At, Scenario, Detection
  <2>2. /\ Here /\ script'.n = script.n /\ script'.stopped = Outage
        /\ script'.step = IF scenario = "gateway-outage" THEN "poll" ELSE "send"
    BY <1>12, <1>a, StopOutcome DEF Keeps
  <2>. QED
    BY <1>0, <1>c, <2>1, <2>2 DEF ControlInv, HasStopped, At, StepsOf, Here
<1>13. CASE Start
  <2>1. At({"start"}) /\ scenario = "outage"
    BY <1>0, <1>13 DEF Start, StepsOf, At, Scenario, Detection
  <2>2. /\ Here /\ script'.n = script.n /\ script'.stopped = None /\ script'.step = "healthy"
    BY <1>13, <1>a, StartOutcome DEF Keeps
  <2>. QED
    BY <1>0, <2>1, <2>2 DEF ControlInv, HasStopped, At, StepsOf, Here
<1>14. CASE Restart
  <2>1. At({"restart"}) /\ scenario = "recovery"
    BY <1>0, <1>14 DEF Restart, StepsOf, At, Scenario, Detection
  <2>2. Proceeds(script', "send", 1) /\ Here
    BY <1>14, <1>b, RestartOutcome DEF Proceeds
  <2>. QED
    BY <2>1, <2>2 DEF Proceeds, ControlInv, HasStopped, At, StepsOf, Here
<1>15. CASE Restore
  <2>1. At({"restore"}) /\ scenario \in {"outage", "cloud-outage", "gateway-outage"}
    BY <1>0, <1>15 DEF Restore, StepsOf, At, Scenario, Detection
  <2>2. Proceeds(script', "restored", script.n) /\ Here
    BY <1>15, <1>b, RestoreOutcome DEF Proceeds
  <2>. QED
    BY <2>1, <2>2 DEF Proceeds, ControlInv, HasStopped, At, StepsOf, Here
<1>16. CASE BecomesHealthy
  <2>1. CASE At({"healthy"}) /\ Proceeds(script', "send", script.n)
    <3>1. scenario = "outage" /\ Here /\ script.n = start_at /\ script.stopped = None
      BY <1>0, <1>b, <2>1 DEF Proceeds, StepsOf, At, Scenario, Detection, ControlInv, HasStopped
    <3>. QED
      BY <1>0, <1>c, <2>1, <3>1 DEF Proceeds, SameScenario, ControlInv, HasStopped, At,
         StepsOf, Here
  <2>2. CASE script'.step = "ended"
    BY <2>2 DEF ControlInv, At, StepsOf
  <2>3. CASE \E s \in ScriptState : Concludes(s, script') /\ s.stopped = None
    BY <2>3, ControlOver
  <2>. QED
    BY <1>16, <2>1, <2>2, <2>3, BecomesHealthyOutcome
<1>17. CASE StaysUnhealthy
  <2>1. script'.step = "ended"
    BY <1>17, StaysUnhealthyOutcome
  <2>. QED
    BY <2>1 DEF ControlInv, At, StepsOf
<1>18. CASE CommandFails
  <2>1. CASE script'.step = "ended"
    BY <2>1 DEF ControlInv, At, StepsOf
  <2>2. CASE script'.step # "ended"
    <3>1. /\ At({"stop", "start", "restart"}) /\ SameScenario(script')
          /\ Fails(script', "command failed")
          /\ script'.stopped = IF At({"stop"}) THEN Outage ELSE script.stopped
      BY <1>18, <2>2, CommandFailsOutcome
    <3>2. At({"stop"}) => scenario \in {"outage", "cloud-outage", "gateway-outage"}
      BY <1>0 DEF StepsOf, At, Scenario, Detection
    <3>. QED
      BY <3>1, <3>2, StoppedScenarios, ControlFails DEF At
  <2>. QED
    BY <2>1, <2>2
<1>. QED
  BY <1>1, <1>2, <1>3, <1>4, <1>5, <1>6, <1>7, <1>8, <1>9, <1>10, <1>11, <1>12, <1>13,
     <1>14, <1>15, <1>16, <1>17, <1>18 DEF ScenarioStep

LEMMA ControlNext ==
  ASSUME TypeOK, ControlInv, [Next]_vars
  PROVE  TypeOK' /\ ControlInv'
<1>1. TypeOK'
  BY TypeStep
<1>2. CASE ScenarioStep
  BY <1>1, <1>2, ControlStep
<1>3. CASE StackStep \/ UNCHANGED vars
  <2>1. script' = script
    BY <1>3, StackTypeStep, TypeParts DEF vars
  <2>. QED
    BY <1>1, <2>1 DEF ControlInv, HasStopped, At, scenario, samples, isolated, Outage
<1>. QED
  BY <1>1, <1>2, <1>3, ScenarioSteps

-----------------------------------------------------------------------------
(* The services.                                                             *)

\* The recovery looks for its readings while the cloud comes back.
CloudComesBack ==
  \/ At({"healthy"})
  \/ scenario = "recovery" /\ script.n > 0 /\ At({"send", "wait", "look"})

\* While no process has ended by itself, only what the script has stopped is not up, or
\* comes back; and nothing else stops a service.
ServicesInv ==
  /\ ~At({"ended"}) /\ "crash" \notin causes => \A s \in Service :
       services[s] # "up" => \/ HasStopped /\ s = Outage
                             \/ CloudComesBack /\ s = "cloud"
  /\ HasStopped /\ ~At({"restore", "restored"}) => services[Outage] = "down"
  /\ \A s \in Service : services[s] = "down" =>
       \/ HasStopped /\ s = Outage /\ ~At({"restored"})
       \/ At({"ended"}) /\ causes \cap {"start", "restart"} # {}

NoneStopped == \A s \in Service :
                 services[s] # "down" /\ (services[s] = "up" \/ "crash" \in causes)

\* The first step of a scenario finds everything running.
LEMMA ServicesOver ==
  ASSUME TypeOK', NoneStopped', NEW s, s.stopped = None, Concludes(s, script')
  PROVE  ServicesInv' /\ ~HasStopped' /\ ~CloudComesBack'
<1>1. CASE script'.step = "ended"
  BY <1>1 DEF ServicesInv, HasStopped, CloudComesBack, At, NoneStopped
<1>2. CASE script'.step # "ended"
  <2>1. script'.step = FirstStep(scenario') /\ script'.n = 0
    BY <1>2 DEF Concludes, scenario
  <2>2. scenario' \in Scenario
    BY ScenarioTypeNext
  <2>3. script'.step = IF scenario' = "gateway-outage" THEN "stop"
                       ELSE IF scenario' \in {"delivery", "outage", "recovery"} THEN "send"
                       ELSE "before"
    BY <2>1, <2>2, Beginning
  <2>4. ~HasStopped' /\ ~CloudComesBack'
    BY <2>1, <2>2, <2>3, OutageInside DEF HasStopped, CloudComesBack, At
  <2>. QED
    BY <2>4 DEF ServicesInv, NoneStopped
<1>. QED
  BY <1>1, <1>2

\* Where nothing is stopped and nothing comes back, everything runs.
LEMMA NothingStopped ==
  ASSUME TypeOK, ControlInv, ServicesInv, ~At({"ended"}), script.stopped = None,
         ~CloudComesBack \/ services["cloud"] = "up"
  PROVE  NoneStopped
<1>1. ~HasStopped
  BY OutageType DEF ControlInv
<1>. QED
  BY <1>1 DEF ServicesInv, NoneStopped

\* A failure leaves to the finally clause what is down.
LEMMA ServicesFails ==
  ASSUME TypeOK, ControlInv, ServicesInv, ~At({"ended", "restore", "restored"}),
         services' = services, causes \subseteq causes',
         NEW reason, SameScenario(script'), Fails(script', reason),
         script'.stopped = script.stopped
  PROVE  ServicesInv'
<1>1. Outage' = Outage /\ scenario' = scenario
  BY ScenarioStays DEF SameScenario
<1>2. CASE script.stopped = None
  <2>1. \A s \in Service : services[s] # "down"
    BY <1>2, OutageType DEF ControlInv, ServicesInv, At
  <2>. QED
    BY <1>2, <2>1 DEF ServicesInv, Fails, HasStopped, At
<1>3. CASE script.stopped # None
  <2>1. HasStopped
    BY <1>3 DEF ControlInv, At
  <2>2. ~CloudComesBack
    BY <2>1 DEF HasStopped, CloudComesBack, At
  <2>3. script'.step = "restore"
    BY <1>3 DEF Fails
  <2>. QED
    BY <1>1, <2>1, <2>2, <2>3 DEF ServicesInv, HasStopped, At
<1>. QED
  BY <1>2, <1>3

\* A step within what is stopped, or within what is not.
LEMMA ServicesSame ==
  ASSUME ServicesInv, ~At({"ended", "restore", "restored"}), causes \subseteq causes',
         services' = services, Outage' = Outage, HasStopped' <=> HasStopped,
         CloudComesBack => CloudComesBack', ~At({"ended", "restore", "restored"})'
  PROVE  ServicesInv'
BY DEF ServicesInv, At

\* What has happened is remembered.
LEMMA CausesStay ==
  ASSUME StackStep \/ UNCHANGED vars
  PROVE  causes \subseteq causes'
BY DEF StackStep, RefuseDevice, Arrive, Commit, FailStorage, CountReceived, AnswerStored,
   AnswerFrom, ForwardFails, ForwardTimesOut, CountFailure, BecomeReady, EndsByItself, vars

LEMMA ServicesStack ==
  ASSUME TypeOK, ServicesInv, StackStep \/ UNCHANGED vars
  PROVE  ServicesInv'
<1>1. script' = script
  BY StackTypeStep, TypeParts DEF vars
<1>2. /\ (HasStopped' <=> HasStopped) /\ (CloudComesBack' <=> CloudComesBack)
      /\ Outage' = Outage /\ \A steps : At(steps)' <=> At(steps)
  BY <1>1 DEF HasStopped, CloudComesBack, At, Outage, scenario
<1>3. causes \subseteq causes'
  BY CausesStay
<1>4. CASE \E s \in Service : EndsByItself(s)
  <2>1. PICK s \in Service : EndsByItself(s)
    BY <1>4
  <2>2. "crash" \in causes' /\ services[s] \in {"up", "starting"}
    BY <2>1 DEF EndsByItself
  <2>3. /\ \A q \in Service : services[q] = "down" <=> services'[q] = "down"
    BY <2>1 DEF EndsByItself, TypeOK
  <2>. QED
    BY <1>2, <1>3, <2>2, <2>3, OutageType DEF ServicesInv, At
<1>5. CASE ~\E s \in Service : EndsByItself(s)
  <2>1. \/ services' = services
        \/ \E s \in Service : services[s] = "starting" /\ services' = [services EXCEPT ![s] = "up"]
    BY <1>5 DEF StackStep, RefuseDevice, Arrive, Commit, FailStorage, CountReceived, AnswerStored,
       AnswerFrom, ForwardFails, ForwardTimesOut, CountFailure, BecomeReady, vars
  <2>2. \A s \in Service : \/ services'[s] = services[s]
                           \/ services[s] = "starting" /\ services'[s] = "up"
    <3>1. services \in [Service -> {"up", "starting", "down", "dead"}]
      BY DEF TypeOK
    <3>. QED
      BY <2>1, <3>1
  <2>. QED
    BY <1>2, <1>3, <2>2, OutageType DEF ServicesInv, At
<1>. QED
  BY <1>4, <1>5

\* Where these steps begin, and that a failure once noted stays.
LEMMA QuietBegin ==
  ASSUME ScenarioStep, ~Send, ~HearAnswer, ~ConnectionBreaks, ~GiveUp
  PROVE  ~At({"wait", "ended"}) /\ causes \subseteq causes'
<1>1. CASE ReadBefore
  BY <1>1 DEF ReadBefore, At
<1>2. CASE CompareReceipts
  BY <1>2 DEF CompareReceipts, At
<1>3. CASE TakeSnapshot
  BY <1>3 DEF TakeSnapshot, At
<1>4. CASE TakeFinal
  BY <1>4 DEF TakeFinal, At
<1>5. CASE Look
  BY <1>5 DEF Look, At
<1>6. CASE InjectInvalidEnvelope
  BY <1>6 DEF InjectInvalidEnvelope, At
<1>7. CASE Poll
  BY <1>7 DEF Poll, At
<1>8. CASE RequestFails
  BY <1>8 DEF RequestFails, At
<1>9. CASE CeilingPasses
  BY <1>9 DEF CeilingPasses, At
<1>10. CASE Stop \/ Start \/ Restart \/ Restore
  BY <1>10 DEF Stop, Start, Restart, Restore, At
<1>11. CASE BecomesHealthy
  BY <1>11 DEF BecomesHealthy, At
<1>12. CASE StaysUnhealthy
  BY <1>12 DEF StaysUnhealthy, At
<1>13. CASE CommandFails
  BY <1>13 DEF CommandFails, At
<1>. QED
  BY <1>1, <1>2, <1>3, <1>4, <1>5, <1>6, <1>7, <1>8, <1>9, <1>10, <1>11, <1>12, <1>13
     DEF ScenarioStep

LEMMA ScenarioCausesStay ==
  ASSUME ScenarioStep
  PROVE  causes \subseteq causes'
<1>1. CASE Send \/ HearAnswer \/ ConnectionBreaks \/ GiveUp
  BY <1>1 DEF Send, HearAnswer, ConnectionBreaks, GiveUp
<1>. QED
  BY <1>1, QuietBegin

LEMMA ServicesStep ==
  ASSUME TypeOK, TypeOK', ControlInv, ControlInv', ServicesInv, ScenarioStep
  PROVE  ServicesInv'
<1> USE BoundsAreNaturals, EnoughSamples
<1>0. /\ scenario \in Scenario /\ script.step \in StepsOf(scenario) /\ script.n \in Nat
      /\ services \in [Service -> {"up", "starting", "down", "dead"}]
      /\ "cloud" \in Service /\ "gateway" \in Service
  BY ScenarioType DEF ControlInv, TypeOK, ScriptState, Service
<1> DEFINE Here == scenario' = scenario /\ Outage' = Outage
<1>a. \A fields : Keeps(script', fields) => Here
  BY ScenarioStays DEF Keeps
<1>b. SameScenario(script') => Here
  BY ScenarioStays DEF SameScenario
<1> HIDE DEF Here
<1>c. /\ stop_at \in Nat /\ start_at \in Nat /\ 1 <= stop_at /\ stop_at < start_at
  BY OutageInside
<1>d. causes \subseteq causes'
  BY ScenarioCausesStay
<1>1. CASE Send
  <2>1. At({"send"}) /\ services' = services
    BY <1>1 DEF Send
  <2>2. /\ Here /\ script'.step = "wait" /\ script'.n = script.n
    BY <1>1, <1>a, SendOutcome DEF Keeps
  <2>3. (HasStopped' <=> HasStopped) /\ (CloudComesBack => CloudComesBack')
    BY <1>c, <2>1, <2>2 DEF HasStopped, CloudComesBack, At, Here
  <2>. QED
    BY <2>1, <2>2, <2>3, <1>d, ServicesSame DEF At, Here
<1>2. CASE HearAnswer \/ GiveUp \/ ConnectionBreaks
  <2>1. At({"wait"}) /\ services' = services /\ causes \subseteq causes'
    BY <1>2 DEF HearAnswer, GiveUp, ConnectionBreaks, LeavesStack
  <2>2. PICK status : HeardMoves(script', status)
    BY <1>2, HearAnswerOutcome, GiveUpOutcome
  <2>3. /\ Here /\ SameScenario(script') /\ script'.stopped = script.stopped
    BY <2>2, <1>b DEF HeardMoves
  <2>4. CASE \E reason : Fails(script', reason)
    BY <2>1, <2>3, <2>4, <1>d, ServicesFails DEF At
  <2>5. CASE ~\E reason : Fails(script', reason)
    <3>1. CASE scenario = "latency"
      <4>1. script'.step = "after"
        BY <2>2, <3>1 DEF HeardMoves
      <4>2. (HasStopped' <=> HasStopped) /\ (CloudComesBack => CloudComesBack')
        BY <2>1, <2>3, <3>1, <4>1 DEF HasStopped, CloudComesBack, At, Here
      <4>. QED
        BY <2>1, <2>3, <4>1, <4>2, <1>d, ServicesSame DEF At, Here
    <3>2. CASE scenario \in {"delivery", "outage"}
      <4>1. script.n + 1 \in 0 .. Count
        BY <1>0, <2>1, <3>2, ScenarioType DEF ControlInv, At
      <4>2. /\ script'.n = script.n + 1
            /\ script'.step = IF script.n + 1 = Count THEN "final"
                 ELSE IF scenario = "outage" /\ script.n + 1 = stop_at THEN "snapshot"
                 ELSE IF scenario = "outage" /\ script.n + 1 = start_at THEN "start"
                 ELSE "send"
        BY <2>2, <3>2, <4>1, NextHead DEF HeardMoves
      <4>3. (HasStopped' <=> HasStopped) /\ (CloudComesBack => CloudComesBack')
        BY <1>0, <1>c, <2>1, <2>3, <3>2, <4>1, <4>2, OutageInside
           DEF HasStopped, CloudComesBack, At, Here
      <4>. QED
        BY <2>1, <2>3, <4>2, <4>3, <1>d, ServicesSame DEF At, Here
    <3>3. CASE scenario = "recovery"
      <4>1. \/ script'.step = "look" /\ script'.n = script.n
            \/ script'.step = "send" /\ script'.n = script.n + 1
        BY <2>2, <2>5, <3>3 DEF HeardMoves
      <4>2. (HasStopped' <=> HasStopped) /\ (CloudComesBack => CloudComesBack')
        BY <1>0, <2>1, <2>3, <3>3, <4>1 DEF HasStopped, CloudComesBack, At, Here
      <4>. QED
        BY <2>1, <2>3, <4>1, <4>2, <1>d, ServicesSame DEF At, Here
    <3>4. CASE scenario \in Detection
      <4>1. script'.step = "poll"
        BY <2>2, <2>5, <3>4 DEF HeardMoves
      <4>2. scenario # "gateway-outage"
        BY <1>0, <2>1 DEF StepsOf, At
      <4>3. (HasStopped' <=> HasStopped) /\ (CloudComesBack => CloudComesBack')
        BY <2>1, <2>3, <3>4, <4>1, <4>2 DEF HasStopped, CloudComesBack, At, Here, Detection
      <4>. QED
        BY <2>1, <2>3, <4>1, <4>3, <1>d, ServicesSame DEF At, Here
    <3>. QED
      BY <1>0, <3>1, <3>2, <3>3, <3>4 DEF Scenario
  <2>. QED
    BY <2>4, <2>5
<1>3. CASE ReadBefore
  <2>1. /\ At({"before"}) /\ services' = services
        /\ scenario \in {"latency", "cloud-outage", "sensor-sentinel", "invalid-envelope"}
    BY <1>0, <1>3 DEF ReadBefore, StepsOf, At, Scenario, Detection, LeavesStack
  <2>2. /\ Here
        /\ script'.step = IF scenario = "cloud-outage" THEN "stop"
                          ELSE IF scenario = "invalid-envelope" THEN "inject" ELSE "send"
    BY <1>3, <1>a, ReadBeforeOutcome
  <2>3. (HasStopped' <=> HasStopped) /\ (CloudComesBack => CloudComesBack')
    BY <2>1, <2>2 DEF HasStopped, CloudComesBack, At, Here
  <2>. QED
    BY <2>1, <2>2, <2>3, <1>d, ServicesSame DEF At, Here
<1>4. CASE CompareReceipts
  <2>1. /\ At({"after"}) /\ scenario = "latency" /\ script.stopped = None
        /\ services' = services /\ causes' = causes /\ ~CloudComesBack
    BY <1>4, CompareOutcome
       DEF CompareReceipts, ControlInv, HasStopped, CloudComesBack, At, LeavesStack
  <2>2. CASE SameScenario(script') /\ script'.stopped = script.stopped
             /\ \E reason : Fails(script', reason)
    BY <2>1, <2>2, <1>d, ServicesFails DEF At
  <2>3. CASE script.n + 1 < samples /\ Proceeds(script', "before", script.n + 1)
    <3>1. Here /\ script'.step = "before"
      BY <2>3, <1>b DEF Proceeds
    <3>2. (HasStopped' <=> HasStopped) /\ (CloudComesBack => CloudComesBack')
      BY <2>1, <3>1 DEF HasStopped, CloudComesBack, At, Here
    <3>. QED
      BY <2>1, <3>1, <3>2, <1>d, ServicesSame DEF At, Here
  <2>4. CASE Concludes(script, script')
    <3>1. NoneStopped'
      BY <2>1, NothingStopped DEF At, NoneStopped
    <3>. QED
      BY <2>1, <2>4, <3>1, ServicesOver
  <2>. QED
    BY <1>4, <2>2, <2>3, <2>4, CompareOutcome
<1>5. CASE TakeSnapshot
  <2>1. At({"snapshot"}) /\ scenario = "outage" /\ services' = services
    BY <1>0, <1>5 DEF TakeSnapshot, StepsOf, At, Scenario, Detection, LeavesStack
  <2>2. /\ Here /\ script'.step = "stop"
    BY <1>5, <1>a, TakeSnapshotOutcome
  <2>3. (HasStopped' <=> HasStopped) /\ (CloudComesBack => CloudComesBack')
    BY <2>1, <2>2 DEF HasStopped, CloudComesBack, At, Here
  <2>. QED
    BY <2>1, <2>2, <2>3, <1>d, ServicesSame DEF At, Here
<1>6. CASE TakeFinal
  <2>1. /\ At({"final"}) /\ script.stopped = None /\ services' = services
    BY <1>6 DEF TakeFinal, ControlInv, HasStopped, At, LeavesStack
  <2>2. NoneStopped'
    BY <1>6, <2>1, NothingStopped DEF At, NoneStopped, TakeFinal
  <2>3. PICK s \in ScriptState : Concludes(s, script') /\ Keeps(s, {"summary"})
    BY <1>6, TakeFinalOutcome
  <2>4. s.stopped = None
    BY <2>1, <2>3 DEF Keeps
  <2>. QED
    BY <2>2, <2>3, <2>4, ServicesOver
<1>7. CASE Look
  <2>1. /\ At({"look"}) /\ scenario = "recovery" /\ script.stopped = None
        /\ services' = services /\ causes' = causes
    BY <1>7, LookOutcome DEF Look, ControlInv, HasStopped, At, LeavesStack
  <2>2. NoneStopped'
    BY <1>7, <2>1, NothingStopped DEF At, NoneStopped, Look
  <2>3. CASE SameScenario(script') /\ script'.stopped = script.stopped
             /\ \E reason : Fails(script', reason)
    BY <2>1, <2>3, <1>d, ServicesFails DEF At
  <2>4. CASE \/ Proceeds(script', "restart", script.n)
             \/ Proceeds(script', "send", script.n + 1)
    <3>1. Here /\ script'.step \in {"restart", "send"}
      BY <2>4, <1>b DEF Proceeds
    <3>2. ~HasStopped'
      BY <2>1, <3>1 DEF HasStopped, At, Here
    <3>. QED
      BY <2>2, <3>2 DEF ServicesInv, NoneStopped
  <2>5. CASE \E s \in ScriptState : Concludes(s, script') /\ Keeps(s, {"retained"})
    <3>1. PICK s \in ScriptState : Concludes(s, script') /\ Keeps(s, {"retained"})
      BY <2>5
    <3>2. s.stopped = None
      BY <2>1, <3>1 DEF Keeps
    <3>. QED
      BY <2>2, <3>1, <3>2, ServicesOver
  <2>. QED
    BY <1>7, <2>3, <2>4, <2>5, LookOutcome
<1>8. CASE InjectInvalidEnvelope
  <2>1. At({"inject"}) /\ scenario = "invalid-envelope" /\ services' = services
    BY <1>0, <1>8 DEF InjectInvalidEnvelope, StepsOf, At, Scenario, Detection
  <2>2. script'.step = "poll" /\ Here
    BY <1>8, <1>b, InjectOutcome DEF Proceeds
  <2>3. (HasStopped' <=> HasStopped) /\ (CloudComesBack => CloudComesBack')
    BY <2>1, <2>2 DEF HasStopped, CloudComesBack, At, Here
  <2>. QED
    BY <2>1, <2>2, <2>3, <1>d, ServicesSame DEF At, Here
<1>9. CASE Poll
  <2>1. At({"poll"}) /\ services' = services /\ causes' = causes /\ ~CloudComesBack
    BY <1>9 DEF Poll, At, CloudComesBack, LeavesStack
  <2>2. CASE script' = script
    BY <2>1, <2>2 DEF ServicesInv, HasStopped, CloudComesBack, At, scenario, Outage
  <2>3. CASE script.stopped # None /\ Proceeds(script', "restore", script.n)
    <3>1. Here /\ script'.step = "restore"
      BY <2>3, <1>b DEF Proceeds
    <3>2. HasStopped
      BY <2>1, <2>3 DEF ControlInv, At
    <3>. QED
      BY <2>1, <3>1, <3>2 DEF ServicesInv, HasStopped, At, Here
  <2>4. CASE script.stopped = None /\ Concludes(script, script')
    <3>1. NoneStopped'
      BY <2>1, <2>4, NothingStopped DEF At, NoneStopped
    <3>. QED
      BY <2>4, <3>1, ServicesOver
  <2>5. CASE SameScenario(script') /\ script'.stopped = script.stopped
             /\ \E reason : Fails(script', reason)
    BY <2>1, <2>5, <1>d, ServicesFails DEF At
  <2>. QED
    BY <1>9, <2>2, <2>3, <2>4, <2>5, PollOutcome
<1>10. CASE RequestFails
  <2>1. ~At({"ended", "restore", "restored"}) /\ services' = services /\ causes' = causes
    BY <1>10 DEF RequestFails, At, LeavesStack
  <2>. QED
    BY <1>10, <2>1, RequestFailsOutcome, <1>d, ServicesFails
<1>11. CASE CeilingPasses
  <2>1. ~At({"ended", "restore", "restored"}) /\ services' = services /\ causes' = causes
    BY <1>11 DEF CeilingPasses, At, LeavesStack
  <2>. QED
    BY <1>11, <2>1, CeilingOutcome, <1>d, ServicesFails
<1>12. CASE Stop
  <2>1. At({"stop"}) /\ scenario \in {"outage", "cloud-outage", "gateway-outage"}
    BY <1>0, <1>12 DEF Stop, StepsOf, At, Scenario, Detection
  <2>2. NoneStopped /\ services' = [services EXCEPT ![Outage] = "down"]
    <3>1. script.stopped = None /\ ~CloudComesBack /\ ~At({"ended"})
      BY <2>1 DEF ControlInv, HasStopped, CloudComesBack, At
    <3>. QED
      BY <1>12, <3>1, NothingStopped DEF Stop, StopService
  <2>3. /\ Here /\ script'.n = script.n
        /\ script'.step = IF scenario = "gateway-outage" THEN "poll" ELSE "send"
    BY <1>12, <1>a, StopOutcome DEF Keeps
  <2>4. HasStopped'
    BY <1>c, <2>1, <2>3 DEF ControlInv, HasStopped, At, Here
  <2>. QED
    BY <1>0, <1>d, <2>2, <2>3, <2>4, OutageType DEF ServicesInv, NoneStopped, At, Here
<1>13. CASE Start
  <2>1. At({"start"}) /\ scenario = "outage"
    BY <1>0, <1>13 DEF Start, StepsOf, At, Scenario, Detection
  <2>2. /\ HasStopped /\ Outage = "cloud" /\ services["cloud"] = "down"
        /\ services["gateway"] # "down"
        /\ services["gateway"] = "up" \/ "crash" \in causes
    BY <1>0, <2>1 DEF ServicesInv, HasStopped, CloudComesBack, Outage, At
  <2>3. services' = [services EXCEPT !["cloud"] = "starting"]
    BY <1>13, <2>2 DEF Start, StartService
  <2>4. script'.step = "healthy"
    BY <1>13, StartOutcome
  <2>5. CloudComesBack' /\ ~HasStopped'
    BY <2>4 DEF CloudComesBack, HasStopped, At
  <2>. QED
    BY <1>0, <1>d, <2>2, <2>3, <2>5 DEF ServicesInv, Service
<1>14. CASE Restart
  <2>1. At({"restart"}) /\ scenario = "recovery"
    BY <1>0, <1>14 DEF Restart, StepsOf, At, Scenario, Detection
  <2>2. NoneStopped /\ services' = [services EXCEPT !["cloud"] = "starting"]
    <3>1. script.stopped = None /\ ~CloudComesBack /\ ~At({"ended"})
      BY <2>1 DEF ControlInv, HasStopped, CloudComesBack, At
    <3>. QED
      BY <1>14, <3>1, NothingStopped DEF Restart, RestartCloud
  <2>3. script'.step = "send" /\ script'.n = 1 /\ Here
    BY <1>14, <1>b, RestartOutcome DEF Proceeds
  <2>4. CloudComesBack' /\ ~HasStopped'
    BY <2>1, <2>3 DEF CloudComesBack, HasStopped, At, Here
  <2>. QED
    BY <1>0, <1>d, <2>2, <2>4 DEF ServicesInv, NoneStopped, Service
<1>15. CASE Restore
  <2>1. At({"restore"}) /\ script.stopped = Outage /\ ~CloudComesBack /\ HasStopped
    BY <1>15, StoppedType DEF Restore, CloudComesBack, HasStopped, At
  <2>2. services' = [services EXCEPT ![Outage] = IF @ \in {"down", "dead"} THEN "starting" ELSE @]
    BY <1>15, <2>1 DEF Restore, StartService
  <2>3. script'.step = "restored" /\ Here
    BY <1>15, <1>b, RestoreOutcome DEF Proceeds
  <2>4. HasStopped' /\ At({"restored"})' /\ ~At({"ended"})'
    BY <2>3 DEF HasStopped, At
  <2>5. \A s \in Service : /\ s # Outage => services'[s] = "up" \/ "crash" \in causes
                           /\ services'[s] # "down"
    BY <1>0, <2>1, <2>2, OutageType DEF ServicesInv, At
  <2>. QED
    BY <1>d, <2>3, <2>4, <2>5 DEF ServicesInv, Here, At
<1>16. CASE BecomesHealthy
  <2>1. services' = services /\ causes' = causes /\ services[Awaited] = "up"
    BY <1>16 DEF BecomesHealthy, LeavesStack
  <2>2. NoneStopped'
    <3>1. CASE At({"healthy"})
      <4>1. services["cloud"] = "up" /\ script.stopped = None
        BY <2>1, <3>1 DEF Awaited, At, ControlInv, HasStopped
      <4>. QED
        BY <2>1, <3>1, <4>1, NothingStopped DEF At, NoneStopped
    <3>2. CASE At({"restored"})
      <4>1. services[Outage] = "up" /\ ~CloudComesBack
        BY <2>1, <3>2, StoppedType DEF Awaited, At, CloudComesBack
      <4>. QED
        BY <2>1, <3>2, <4>1 DEF ServicesInv, NoneStopped, At
    <3>. QED
      BY <1>16, <3>1, <3>2 DEF BecomesHealthy, At
  <2>3. CASE At({"healthy"}) /\ Proceeds(script', "send", script.n)
    <3>1. scenario = "outage" /\ Here /\ script.n = start_at /\ script'.n = script.n
      BY <1>0, <1>b, <2>3 DEF Proceeds, StepsOf, At, Scenario, Detection, ControlInv
    <3>2. script'.step = "send"
      BY <2>3 DEF Proceeds
    <3>3. ~HasStopped'
      BY <1>c, <3>1, <3>2, OutageInside DEF HasStopped, At, Here
    <3>. QED
      BY <2>2, <3>3 DEF ServicesInv, NoneStopped
  <2>4. CASE script'.step = "ended"
    BY <2>2, <2>4 DEF ServicesInv, HasStopped, At, NoneStopped
  <2>5. CASE \E s \in ScriptState : Concludes(s, script') /\ s.stopped = None
    BY <2>2, <2>5, ServicesOver
  <2>6. \/ At({"healthy"}) /\ Proceeds(script', "send", script.n)
        \/ script'.step = "ended"
        \/ \E s \in ScriptState : Concludes(s, script') /\ s.stopped = None
    BY <1>16, BecomesHealthyOutcome
  <2>. QED
    BY <2>3, <2>4, <2>5, <2>6
<1>17. CASE StaysUnhealthy
  <2>0. At({"healthy", "restored"})
    BY <1>0, <1>17 DEF StaysUnhealthy, At, StepsOf, Scenario, Detection
  <2>1. script'.step = "ended" /\ services' = services
    BY <1>17, StaysUnhealthyOutcome DEF StaysUnhealthy, LeavesStack
  <2>2. \A s \in Service : services[s] # "down"
    BY <2>0 DEF ServicesInv, HasStopped, At
  <2>. QED
    BY <2>1, <2>2 DEF ServicesInv, HasStopped, At
<1>18. CASE CommandFails
  <2>1. CASE At({"stop"})
    <3>1. /\ NoneStopped
          /\ services' = services \/ services' = [services EXCEPT ![Outage] = "down"]
      <4>1. script.stopped = None /\ ~CloudComesBack /\ ~At({"ended"})
        BY <2>1 DEF ControlInv, HasStopped, CloudComesBack, At
      <4>. QED
        BY <1>18, <2>1, <4>1, NothingStopped DEF CommandFails, StopService, LeavesStack, At
    <3>2. SameScenario(script') /\ script'.step = "restore"
      BY <1>18, <2>1, CommandFailsOutcome, OutageType DEF At
    <3>3. Here /\ HasStopped' /\ At({"restore"})' /\ ~At({"ended", "restored"})'
      BY <1>b, <3>2 DEF HasStopped, At
    <3>. QED
      BY <1>0, <1>d, <3>1, <3>3, OutageType DEF ServicesInv, NoneStopped, At, Here
  <2>2. CASE At({"start"})
    <3>1. /\ scenario = "outage" /\ HasStopped /\ Outage = "cloud"
          /\ services["gateway"] # "down"
          /\ services["gateway"] = "up" \/ "crash" \in causes
      BY <1>0, <2>2 DEF StepsOf, At, Scenario, Detection, HasStopped, Outage, ServicesInv,
                        CloudComesBack
    <3>2. \/ services' = services
          \/ services' = [services EXCEPT !["cloud"] = IF @ \in {"down", "dead"} THEN "starting" ELSE @]
      BY <1>18, <2>2 DEF CommandFails, StartService, LeavesStack, At
    <3>3. script.stopped = Outage /\ SameScenario(script') /\ script'.step = "restore"
      BY <1>18, <2>2, <3>1, CommandFailsOutcome, OutageType DEF At, ControlInv
    <3>4. Here /\ HasStopped' /\ At({"restore"})' /\ ~At({"ended", "restored"})'
      BY <1>b, <3>3 DEF HasStopped, At
    <3>. QED
      BY <1>0, <1>d, <3>1, <3>2, <3>4 DEF ServicesInv, Service, Here, At
  <2>3. CASE At({"restart", "restore"})
    <3>1. \/ At({"restart"}) /\ causes' = causes \cup {"restart"}
          \/ At({"restore"}) /\ causes' = causes \cup {"start"}
      BY <1>18, <2>3 DEF CommandFails, At
    <3>2. script'.step = "ended"
      <4>1. CASE At({"restore"})
        BY <1>18, <4>1, CommandFailsOutcome DEF At
      <4>2. CASE At({"restart"})
        <5>1. script.stopped = None
          <6>1. scenario = "recovery"
            BY <1>0, <4>2 DEF StepsOf, At, Scenario, Detection
          <6>. QED
            BY <4>2, <6>1 DEF ControlInv, HasStopped, At
        <5>. QED
          BY <1>18, <4>2, <5>1, CommandFailsOutcome DEF At
      <4>. QED
        BY <2>3, <4>1, <4>2 DEF At
    <3>. QED
      BY <3>1, <3>2 DEF ServicesInv, HasStopped, At
  <2>. QED
    BY <1>18, <2>1, <2>2, <2>3 DEF CommandFails, At
<1>. QED
  BY <1>1, <1>2, <1>3, <1>4, <1>5, <1>6, <1>7, <1>8, <1>9, <1>10, <1>11, <1>12, <1>13,
     <1>14, <1>15, <1>16, <1>17, <1>18 DEF ScenarioStep

ScenarioInv == TypeOK /\ ControlInv /\ ServicesInv

LEMMA ScenarioInvNext ==
  ASSUME ScenarioInv, [Next]_vars
  PROVE  ScenarioInv'
<1>1. TypeOK' /\ ControlInv'
  BY ControlNext DEF ScenarioInv
<1>2. CASE ScenarioStep
  BY <1>1, <1>2, ServicesStep DEF ScenarioInv
<1>3. CASE StackStep \/ UNCHANGED vars
  BY <1>1, <1>3, ServicesStack DEF ScenarioInv
<1>. QED
  BY <1>2, <1>3, ScenarioSteps DEF ScenarioInv

-----------------------------------------------------------------------------
(* Faults are counted before they are looked for.                            *)

\* Unless a process ends by itself, the counter of a fault never falls below what was
\* read before, and has gone up once the reading that carries the fault is answered.
PollInv == "crash" \notin causes =>
  /\ scenario \in {"cloud-outage", "sensor-sentinel", "invalid-envelope"}
     /\ At({"stop", "send", "wait", "inject"}) => counters[Watched] >= script.before
  /\ scenario = "cloud-outage" /\ At({"wait"}) /\ gateway[latest] = "bad" =>
       counters["failures"] > script.before
  /\ scenario = "sensor-sentinel" /\ At({"wait"}) /\ gateway[latest] # "sent" =>
       counters["faults"] > script.before
  /\ scenario # "gateway-outage" /\ At({"poll"}) => counters[Watched] > script.before

\* Most steps of the script are none of a detection before its poll.
LEMMA FaultElsewhere ==
  ASSUME \/ ~At({"stop", "send", "wait", "inject", "poll"})'
         \/ scenario' \in {"latency", "delivery", "outage", "recovery"} /\ ~At({"poll"})'
         \/ scenario' = "gateway-outage"
  PROVE  PollInv'
BY DEF PollInv, At

LEMMA FaultOver ==
  ASSUME TypeOK', NEW s, Concludes(s, script')
  PROVE  PollInv'
<1>1. CASE script'.step = "ended"
  BY <1>1, FaultElsewhere DEF At
<1>2. CASE script'.step # "ended"
  <2>1. script'.step = FirstStep(scenario')
    BY <1>2 DEF Concludes, scenario
  <2>2. scenario' \in Scenario
    BY ScenarioTypeNext
  <2>3. script'.step = IF scenario' = "gateway-outage" THEN "stop"
                       ELSE IF scenario' \in {"delivery", "outage", "recovery"} THEN "send"
                       ELSE "before"
    BY <2>1, <2>2, Beginning
  <2>. QED
    BY <2>2, <2>3, FaultElsewhere DEF At
<1>. QED
  BY <1>1, <1>2

\* Only the end of a process sets counters back.
LEMMA CountersGrow ==
  ASSUME TypeOK, StackStep, ~\E s \in Service : EndsByItself(s)
  PROVE  \A c \in CounterNames : counters'[c] >= counters[c]
<1>0. counters \in [CounterNames -> Nat]
  BY DEF TypeOK
<1>1. ASSUME NEW r \in Reading, Arrive(r) \/ RefuseDevice(r)
      PROVE  \A c \in CounterNames : counters'[c] >= counters[c]
  BY <1>0, <1>1 DEF Arrive, RefuseDevice, CountFault
<1>2. ASSUME NEW r \in Reading, FailStorage(r) \/ CountReceived(r) \/ CountFailure(r)
      PROVE  \A c \in CounterNames : counters'[c] >= counters[c]
  BY <1>0, <1>2 DEF FailStorage, CountReceived, CountFailure
<1>3. \/ \E r \in Reading : \/ Arrive(r) \/ RefuseDevice(r) \/ FailStorage(r)
                           \/ CountReceived(r) \/ CountFailure(r)
      \/ counters' = counters
  BY DEF StackStep, Commit, AnswerStored, AnswerFrom, ForwardFails, ForwardTimesOut,
         BecomeReady
<1>4. CASE counters' = counters
  BY <1>0, <1>4
<1>. QED
  BY <1>1, <1>2, <1>3, <1>4

\* The stack counts, and answers only what it has counted.
LEMMA FaultStack ==
  ASSUME TypeOK, ControlInv, PollInv, StackStep
  PROVE  PollInv'
<1> SUFFICES ASSUME "crash" \notin causes' PROVE PollInv'
  BY DEF PollInv
<1> "crash" \notin causes
  BY CausesStay
<1> ~\E s \in Service : EndsByItself(s)
  BY DEF EndsByItself
<1>0. /\ counters \in [CounterNames -> Nat] /\ script.before \in Nat
      /\ gateway \in [Reading -> {"none", "sent", "forwarding", "failing", "ok", "bad", "full"}]
      /\ Watched \in CounterNames
      /\ "failures" \in CounterNames /\ "faults" \in CounterNames
  BY WatchedType DEF TypeOK, ScriptState, CounterNames
<1>1. script' = script
  BY StackTypeStep, TypeParts
<1>2. /\ scenario' = scenario /\ Watched' = Watched /\ latest' = latest
      /\ \A steps : At(steps)' <=> At(steps)
  BY <1>1 DEF scenario, Watched, At, latest
<1>3. At({"wait"}) => latest \in Reading /\ latest > script.first
  BY BoundsAreNaturals DEF ControlInv, At, latest, TypeOK, ScriptState, Reading
<1>4. \A c \in CounterNames : counters'[c] >= counters[c]
  BY CountersGrow
<1>5. counters' \in [CounterNames -> Nat]
  BY StackTypeStep, TypeParts DEF StackType
<1>6. scenario \in {"cloud-outage", "sensor-sentinel", "invalid-envelope"}
      /\ At({"stop", "send", "wait", "inject"}) => counters'[Watched] >= script.before
  BY <1>0, <1>4, <1>5 DEF PollInv
<1>7. ASSUME scenario = "cloud-outage", At({"wait"}), gateway'[latest] = "bad"
      PROVE  counters'["failures"] > script.before
  <2>1. CASE gateway[latest] = "bad"
    <3>1. counters["failures"] > script.before
      BY <1>7, <2>1 DEF PollInv
    <3>. QED
      BY <1>0, <1>4, <1>5, <3>1
  <2>2. CASE gateway[latest] # "bad"
    <3>1. CountFailure(latest)
      BY <1>0, <1>3, <1>7, <2>2 DEF StackStep, RefuseDevice, Arrive, Commit, FailStorage, CountReceived,
         AnswerStored, AnswerFrom, ForwardFails, ForwardTimesOut, CountFailure, BecomeReady
    <3>2. counters["failures"] >= script.before
      BY <1>7 DEF PollInv, At, Watched
    <3>. QED
      BY <1>0, <3>1, <3>2 DEF CountFailure
  <2>. QED
    BY <2>1, <2>2
<1>8. ASSUME scenario = "sensor-sentinel", At({"wait"}), gateway'[latest] # "sent"
      PROVE  counters'["faults"] > script.before
  <2>1. CASE gateway[latest] # "sent"
    <3>1. counters["faults"] > script.before
      BY <1>8, <2>1 DEF PollInv
    <3>. QED
      BY <1>0, <1>4, <1>5, <3>1
  <2>2. CASE gateway[latest] = "sent"
    <3>1. Arrive(latest) \/ RefuseDevice(latest)
      BY <1>0, <1>3, <1>8, <2>2 DEF StackStep, RefuseDevice, Arrive, Commit, FailStorage, CountReceived,
         AnswerStored, AnswerFrom, ForwardFails, ForwardTimesOut, CountFailure, BecomeReady
    <3>2. counters["faults"] >= script.before
      BY <1>8 DEF PollInv, At, Watched
    <3>3. IsSentinel(latest)
      BY <1>3, <1>8 DEF IsSentinel, scenario
    <3>. QED
      BY <1>0, <3>1, <3>2, <3>3 DEF Arrive, RefuseDevice, CountFault
  <2>. QED
    BY <2>1, <2>2
<1>9. scenario # "gateway-outage" /\ At({"poll"}) => counters'[Watched] > script.before
  BY <1>0, <1>4, <1>5 DEF PollInv
<1>. QED
  BY <1>1, <1>2, <1>6, <1>7, <1>8, <1>9 DEF PollInv

LEMMA FaultStep ==
  ASSUME TypeOK, TypeOK', ControlInv, PollInv, ScenarioStep
  PROVE  PollInv'
<1> SUFFICES ASSUME "crash" \notin causes' PROVE PollInv'
  BY DEF PollInv
<1> "crash" \notin causes
  BY ScenarioCausesStay
<1>0. /\ scenario \in Scenario /\ script.step \in StepsOf(scenario)
      /\ counters \in [CounterNames -> Nat] /\ script.before \in Nat
      /\ Watched \in CounterNames /\ "rejected" \in CounterNames /\ "failures" \in CounterNames
  BY ScenarioType, WatchedType DEF ControlInv, TypeOK, ScriptState, CounterNames, CloudCounters
<1> DEFINE Here == scenario' = scenario /\ Watched' = Watched
<1>a. \A fields : Keeps(script', fields) => Here
  BY ScenarioStays DEF Keeps
<1>b. SameScenario(script') => Here
  BY ScenarioStays DEF SameScenario
<1> HIDE DEF Here
<1>c. \A reason : Fails(script', reason) => PollInv'
  BY FaultElsewhere DEF Fails, At
<1>d. \A s : Concludes(s, script') => PollInv'
  BY FaultOver
<1>1. CASE Send
  <2>1. At({"send"}) /\ counters' = counters
    BY <1>1 DEF Send
  <2>2. /\ Here /\ script'.step = "wait" /\ script'.before = script.before
        /\ script'.sent = script.sent + 1 /\ script.sent + 1 \in Reading
    BY <1>1, <1>a, SendOutcome DEF Keeps
  <2>3. latest' = script.sent + 1 /\ gateway'[latest'] = "sent"
    BY <1>1, <2>2 DEF Send, latest, TypeOK
  <2>. QED
    BY <2>1, <2>2, <2>3 DEF PollInv, At, Here
<1>2. CASE HearAnswer
  <2>1. /\ At({"wait"}) /\ counters' = counters /\ gateway[latest] \in Answers
        /\ scenario # "gateway-outage"
    BY <1>0, <1>2 DEF HearAnswer, StepsOf, At
  <2>a. gateway[latest] # "sent" /\ (StatusOf(gateway[latest]) = 502 => gateway[latest] = "bad")
    BY <2>1 DEF Answers, StatusOf
  <2> DEFINE status == StatusOf(gateway[latest])
  <2>2. HeardMoves(script', status)
    BY <1>2, HearAnswerOutcome
  <2>3. Here /\ script'.before = script.before
    BY <2>2, <1>b DEF HeardMoves
  <2>4. CASE scenario \in Detection
    <3>1. CASE status = IF scenario = "cloud-outage" THEN 502 ELSE 200
      <4>1. script'.step = "poll"
        BY <2>2, <2>4, <3>1 DEF HeardMoves
      <4>2. scenario \in {"cloud-outage", "sensor-sentinel"}
        BY <1>0, <2>1, <2>4 DEF Detection, StepsOf, At
      <4>3. counters[Watched] > script.before
        BY <2>1, <2>a, <3>1, <4>2 DEF PollInv, Watched, At
      <4>. QED
        BY <2>1, <2>3, <4>1, <4>3 DEF PollInv, At, Here
    <3>2. CASE ~(status = IF scenario = "cloud-outage" THEN 502 ELSE 200)
      <4>1. Fails(script', "unexpected status")
        BY <2>2, <2>4, <3>2 DEF HeardMoves
      <4>. QED
        BY <4>1, <1>c
    <3>. QED
      BY <3>1, <3>2
  <2>5. CASE scenario \notin Detection
    <3>1. ~At({"poll"})'
      <4>1. CASE scenario \in {"delivery", "outage"}
        <5>1. script.n + 1 \in 0 .. Count
          BY <2>1, <4>1, ScenarioType, BoundsAreNaturals DEF ControlInv, At, TypeOK, ScriptState
        <5>2. script'.step = LoopHead(scenario, script.n + 1, Count)
          BY <2>2, <4>1 DEF HeardMoves
        <5>. QED
          BY <4>1, <5>1, <5>2, NextHead DEF At
      <4>2. CASE scenario \in {"latency", "recovery"}
        BY <2>2, <4>2 DEF HeardMoves, At, Fails
      <4>. QED
        BY <1>0, <2>5, <4>1, <4>2 DEF Scenario
    <3>. QED
      BY <1>0, <2>3, <2>5, <3>1, FaultElsewhere DEF Scenario, Here
  <2>. QED
    BY <2>4, <2>5
<1>3. CASE GiveUp \/ ConnectionBreaks
  <2>1. At({"wait"}) /\ HeardMoves(script', None)
    BY <1>3, GiveUpOutcome DEF GiveUp, ConnectionBreaks
  <2>2. Here
    BY <2>1, <1>b DEF HeardMoves
  <2>3. CASE scenario \in Detection
    <3>1. Fails(script', "unexpected status")
      BY <2>1, <2>3, NoneIsNoValue DEF HeardMoves, Status
    <3>. QED
      BY <3>1, <1>c
  <2>4. CASE scenario \notin Detection
    <3>1. ~At({"poll"})'
      <4>1. CASE scenario \in {"delivery", "outage"}
        <5>1. script.n + 1 \in 0 .. Count
          BY <2>1, <4>1, ScenarioType, BoundsAreNaturals DEF ControlInv, At, TypeOK, ScriptState
        <5>2. script'.step = LoopHead(scenario, script.n + 1, Count)
          BY <2>1, <4>1 DEF HeardMoves
        <5>. QED
          BY <4>1, <5>1, <5>2, NextHead DEF At
      <4>2. CASE scenario \in {"latency", "recovery"}
        BY <2>1, <4>2 DEF HeardMoves, At, Fails
      <4>. QED
        BY <1>0, <2>4, <4>1, <4>2 DEF Scenario
    <3>. QED
      BY <1>0, <2>2, <2>4, <3>1, FaultElsewhere DEF Scenario, Here
  <2>. QED
    BY <2>3, <2>4
<1>4. CASE ReadBefore
  <2>1. counters' = counters /\ At({"before"})
    BY <1>4 DEF ReadBefore, LeavesStack
  <2>2. /\ Here /\ script'.before = counters[Watched]
        /\ script'.step \in {"stop", "inject", "send"}
    BY <1>4, <1>a, ReadBeforeOutcome
  <2>. QED
    BY <1>0, <2>1, <2>2 DEF PollInv, At, Here
<1>5. CASE CompareReceipts
  <2>1. CASE Proceeds(script', "before", script.n + 1)
    BY <2>1, FaultElsewhere DEF Proceeds, At
  <2>. QED
    BY <1>5, <1>c, <1>d, <2>1, CompareOutcome
<1>6. CASE TakeSnapshot
  <2>1. scenario = "outage"
    BY <1>0, <1>6 DEF TakeSnapshot, StepsOf, At, Scenario, Detection
  <2>2. Here /\ script'.step = "stop"
    BY <1>6, <1>a, TakeSnapshotOutcome
  <2>. QED
    BY <2>1, <2>2, FaultElsewhere DEF At, Here
<1>7. CASE TakeFinal
  BY <1>7, <1>d, TakeFinalOutcome
<1>8. CASE Look
  <2>1. CASE \/ Proceeds(script', "restart", script.n)
             \/ Proceeds(script', "send", script.n + 1)
    <3>1. Here /\ script'.step \in {"restart", "send"} /\ scenario = "recovery"
      BY <1>8, <2>1, <1>b, LookOutcome DEF Proceeds
    <3>. QED
      BY <3>1, FaultElsewhere DEF At, Here
  <2>. QED
    BY <1>8, <1>c, <1>d, <2>1, LookOutcome
<1>9. CASE InjectInvalidEnvelope
  <2>1. At({"inject"}) /\ scenario = "invalid-envelope"
    BY <1>0, <1>9 DEF InjectInvalidEnvelope, StepsOf, At, Scenario, Detection
  <2>2. script'.step = "poll" /\ Here /\ script'.before = script.before
    BY <1>9, <1>b, InjectOutcome DEF Proceeds
  <2>3. counters'["rejected"] > script.before
    BY <1>0, <1>9, <2>1 DEF InjectInvalidEnvelope, PollInv, Watched, At
  <2>. QED
    BY <2>1, <2>2, <2>3 DEF PollInv, Watched, At, Here
<1>10. CASE Poll
  <2>1. CASE script' = script
    <3>1. counters' = counters /\ At({"poll"})
      BY <1>10 DEF Poll, LeavesStack
    <3>. QED
      BY <2>1, <3>1 DEF PollInv, At, scenario, Watched
  <2>2. CASE Proceeds(script', "restore", script.n)
    BY <2>2, FaultElsewhere DEF Proceeds, At
  <2>. QED
    BY <1>10, <1>c, <1>d, <2>1, <2>2, PollOutcome
<1>11. CASE RequestFails
  BY <1>11, <1>c, RequestFailsOutcome
<1>12. CASE CeilingPasses
  BY <1>12, <1>c, CeilingOutcome
<1>13. CASE Stop
  <2>1. At({"stop"}) /\ scenario \in {"outage", "cloud-outage", "gateway-outage"}
    BY <1>0, <1>13 DEF Stop, StepsOf, At, Scenario, Detection
  <2>2. /\ Here /\ script'.before = script.before
        /\ script'.step = IF scenario = "gateway-outage" THEN "poll" ELSE "send"
    BY <1>13, <1>a, StopOutcome DEF Keeps
  <2>3. CASE scenario = "cloud-outage"
    <3>1. counters'["failures"] = counters["failures"]
      BY <1>0, <1>13, <2>3 DEF Stop, StopService, EndProcess, Outage, CloudCounters
    <3>. QED
      BY <2>1, <2>2, <2>3, <3>1 DEF PollInv, Watched, At, Here
  <2>4. CASE scenario # "cloud-outage"
    BY <2>1, <2>2, <2>4, FaultElsewhere DEF At, Here
  <2>. QED
    BY <2>3, <2>4
<1>14. CASE Start
  BY <1>14, StartOutcome, FaultElsewhere DEF At
<1>15. CASE Restart
  <2>1. scenario = "recovery"
    BY <1>0, <1>15 DEF Restart, StepsOf, At, Scenario, Detection
  <2>2. script'.step = "send" /\ Here
    BY <1>15, <1>b, RestartOutcome DEF Proceeds
  <2>. QED
    BY <2>1, <2>2, FaultElsewhere DEF At, Here
<1>16. CASE Restore
  BY <1>16, RestoreOutcome, FaultElsewhere DEF At, Proceeds
<1>17. CASE BecomesHealthy
  <2>1. CASE At({"healthy"}) /\ Proceeds(script', "send", script.n)
    <3>1. scenario = "outage" /\ Here /\ script'.step = "send"
      BY <1>0, <1>b, <2>1 DEF Proceeds, StepsOf, At, Scenario, Detection
    <3>. QED
      BY <3>1, FaultElsewhere DEF At, Here
  <2>2. CASE script'.step = "ended"
    BY <2>2, FaultElsewhere DEF At
  <2>. QED
    BY <1>17, <1>d, <2>1, <2>2, BecomesHealthyOutcome
<1>18. CASE StaysUnhealthy
  BY <1>18, StaysUnhealthyOutcome, FaultElsewhere DEF At
<1>19. CASE CommandFails
  <2>1. CASE script'.step = "ended"
    BY <2>1, FaultElsewhere DEF At
  <2>. QED
    BY <1>19, <1>c, <2>1, CommandFailsOutcome
<1>. QED
  BY <1>1, <1>2, <1>3, <1>4, <1>5, <1>6, <1>7, <1>8, <1>9, <1>10, <1>11, <1>12, <1>13,
     <1>14, <1>15, <1>16, <1>17, <1>18, <1>19 DEF ScenarioStep

-----------------------------------------------------------------------------
(* What the script notes is in storage.                                      *)

\* A reading in the stack, in storage, and in the notes of the script.
Accounted(r) ==
  /\ cloud[r] \in {"none", "storing"} => rows[r] = 0
  /\ cloud[r] \in {"stored", "counted"} => rows[r] = 1
  /\ rows[r] <= 1
  /\ gateway[r] = "sent" => cloud[r] = "none"
  /\ gateway[r] = "ok" => rows[r] = 1
  /\ r > script.sent => gateway[r] = "none" /\ cloud[r] = "none"
  /\ script.statuses[r] = 200 => rows[r] = 1
  /\ script.before_stop[r] <= rows[r]

\* The recovery has found its marker before it restarts the cloud.
MarkerInv ==
  /\ At({"look"}) => rows[script.sent] = 1
  /\ scenario = "recovery" /\ (At({"restart"}) \/ (script.n > 0 /\ At({"send", "wait", "look"}))) =>
       script.first < script.sent /\ rows[script.first + 1] = 1

DataInv == (\A r \in Reading : Accounted(r)) /\ MarkerInv

\* The notes on readings are kept, completed by a snapshot, or begun anew.
LEMMA NotesStay ==
  ASSUME TypeOK, ControlInv, ScenarioStep, ~Send, ~HearAnswer
  PROVE  /\ script'.sent = script.sent
         /\ \/ script'.statuses = script.statuses
            \/ script'.statuses = [r \in Reading |-> None]
         /\ script'.before_stop \in {script.before_stop, rows, NoRows}
<1> DEFINE Goal ==
         /\ script'.sent = script.sent
         /\ \/ script'.statuses = script.statuses
            \/ script'.statuses = [r \in Reading |-> None]
         /\ script'.before_stop \in {script.before_stop, rows, NoRows}
<1> SUFFICES Goal
  OBVIOUS
<1>a. Keeps(script', {"before"}) \/ Keeps(script', {"stopped"}) \/ Keeps(script', {"error"}) => Goal
  BY DEF Keeps
<1>b. SameScenario(script') /\ script'.statuses = script.statuses => Goal
  BY DEF SameScenario
<1>c. \A s : Concludes(s, script') /\ s.statuses = script.statuses
              /\ s.before_stop = script.before_stop => Goal
  BY DEF Concludes
<1>d. \A s : Keeps(s, {"summary"}) \/ Keeps(s, {"retained"}) \/ Keeps(s, {"stopped"})
              => s.statuses = script.statuses /\ s.before_stop = script.before_stop
  BY DEF Keeps
<1>e. \A step, k : Proceeds(script', step, k) => Goal
  BY DEF Proceeds, SameScenario
<1>f. script' = script => Goal
  OBVIOUS
<1>1. CASE TakeSnapshot
  BY <1>1, TakeSnapshotOutcome DEF Keeps
<1> HIDE DEF Goal
<1>2. CASE Poll
  BY <1>2, <1>b, <1>c, <1>e, <1>f, PollOutcome
<1>3. CASE GiveUp \/ ConnectionBreaks
  BY <1>3, <1>b, GiveUpOutcome DEF HeardMoves
<1>4. CASE StaysUnhealthy \/ Stop \/ Start \/ ReadBefore
  BY <1>4, <1>a, StaysUnhealthyOutcome, StopOutcome, StartOutcome, ReadBeforeOutcome
<1>5. CASE CompareReceipts
  BY <1>5, <1>b, <1>c, <1>e, CompareOutcome
<1>6. CASE TakeFinal
  BY <1>6, <1>c, <1>d, TakeFinalOutcome
<1>7. CASE Look
  BY <1>7, <1>b, <1>c, <1>d, <1>e, LookOutcome
<1>8. CASE InjectInvalidEnvelope \/ Restart \/ Restore
  BY <1>8, <1>e, InjectOutcome, RestartOutcome, RestoreOutcome
<1>9. CASE RequestFails \/ CeilingPasses
  BY <1>9, <1>b, RequestFailsOutcome, CeilingOutcome
<1>10. CASE BecomesHealthy
  BY <1>10, <1>a, <1>c, <1>d, <1>e, BecomesHealthyOutcome
<1>11. CASE CommandFails
  BY <1>11, <1>a, <1>b, CommandFailsOutcome
<1>. QED
  BY <1>1, <1>2, <1>3, <1>4, <1>5, <1>6, <1>7, <1>8, <1>9, <1>10, <1>11 DEF ScenarioStep

\* The results of the scenarios are kept, or are the one just determined.
LEMMA ResultsStay ==
  ASSUME TypeOK, ControlInv, ScenarioStep
  PROVE  /\ script'.summary = script.summary \/ (TakeFinal /\ script'.summary = FinalCounts)
         /\ \/ script'.retained = script.retained
            \/ Look /\ script.n # 0 /\ script'.retained = (rows[script.first + 1] > 0)
<1> DEFINE Goal == script'.summary = script.summary /\ script'.retained = script.retained
<1>a. \A fields : Keeps(script', fields) /\ "summary" \notin fields /\ "retained" \notin fields
                    => Goal
  BY DEF Keeps
<1>b. SameScenario(script') => Goal
  BY DEF SameScenario
<1>c. \A s : Concludes(s, script') =>
               script'.summary = s.summary /\ script'.retained = s.retained
  BY DEF Concludes
<1>d. \A step, k : Proceeds(script', step, k) => Goal
  BY DEF Proceeds, SameScenario
<1>1. CASE TakeFinal
  BY <1>1, <1>c, TakeFinalOutcome DEF Keeps
<1>2. CASE Look
  <2>1. CASE \E s \in ScriptState : /\ Concludes(s, script') /\ Keeps(s, {"retained"})
                                    /\ s.retained = (rows[script.first + 1] > 0)
                                    /\ script.n # 0
    BY <1>2, <1>c, <2>1 DEF Keeps
  <2>. QED
    BY <1>2, <1>b, <1>d, <2>1, LookOutcome
<1>3. CASE Poll
  BY <1>3, <1>b, <1>c, <1>d, PollOutcome
<1>4. CASE GiveUp \/ ConnectionBreaks \/ HearAnswer
  BY <1>4, <1>b, GiveUpOutcome, HearAnswerOutcome DEF HeardMoves
<1>5. CASE Send \/ TakeSnapshot \/ StaysUnhealthy \/ Stop \/ Start \/ ReadBefore
  BY <1>5, <1>a, SendOutcome, TakeSnapshotOutcome, StaysUnhealthyOutcome, StopOutcome,
     StartOutcome, ReadBeforeOutcome
<1>6. CASE CompareReceipts
  BY <1>6, <1>b, <1>c, <1>d, CompareOutcome
<1>7. CASE InjectInvalidEnvelope \/ Restart \/ Restore
  BY <1>7, <1>d, InjectOutcome, RestartOutcome, RestoreOutcome
<1>8. CASE RequestFails \/ CeilingPasses
  BY <1>8, <1>b, RequestFailsOutcome, CeilingOutcome
<1>9. CASE BecomesHealthy
  <2>1. CASE \E s \in ScriptState : Concludes(s, script') /\ Keeps(s, {"stopped"})
    BY <1>c, <2>1 DEF Keeps
  <2>. QED
    BY <1>9, <1>a, <1>d, <2>1, BecomesHealthyOutcome
<1>10. CASE CommandFails
  BY <1>10, <1>a, <1>b, CommandFailsOutcome
<1>. QED
  BY <1>1, <1>2, <1>3, <1>4, <1>5, <1>6, <1>7, <1>8, <1>9, <1>10 DEF ScenarioStep

\* The stack, and the commands, keep every reading accounted for.
LEMMA AccountedStack ==
  ASSUME TypeOK, \A r \in Reading : Accounted(r), StackStep
  PROVE  \A r \in Reading : Accounted(r)' /\ rows'[r] >= rows[r]
<1> USE DEF Snapshot
<1>0. /\ rows \in [Reading -> Nat] /\ script.before_stop \in [Reading -> Nat]
      /\ script' = script
      /\ gateway \in [Reading -> {"none", "sent", "forwarding", "failing", "ok", "bad", "full"}]
      /\ cloud \in [Reading -> {"none", "storing", "stored", "counted", "ended"}]
  BY StackTypeStep, TypeParts DEF TypeOK, ScriptState
<1>1. CASE \E q \in Reading : Arrive(q) \/ RefuseDevice(q)
  BY <1>0, <1>1 DEF Arrive, RefuseDevice, Accounted
<1>2. CASE \E q \in Reading : Commit(q)
  BY <1>0, <1>2 DEF Commit, Accounted
<1>3. CASE \E q \in Reading : FailStorage(q)
  BY <1>0, <1>3 DEF FailStorage, Accounted
<1>4. CASE \E q \in Reading : CountReceived(q)
  BY <1>0, <1>4 DEF CountReceived, Accounted
<1>5. CASE \E q \in Reading : AnswerStored(q)
  BY <1>0, <1>5 DEF AnswerStored, AnswerFrom, Accounted
<1>6. CASE \E q \in Reading : ForwardFails(q) \/ ForwardTimesOut(q) \/ CountFailure(q)
  BY <1>0, <1>6 DEF ForwardFails, ForwardTimesOut, CountFailure, Accounted
<1>7. CASE \E s \in Service : BecomeReady(s)
  BY <1>0, <1>7 DEF BecomeReady, Accounted
<1>8. CASE \E s \in Service : EndsByItself(s)
  <2>1. /\ rows' = rows
        /\ \A r \in Reading : /\ gateway'[r] = gateway[r] \/ gateway'[r] = "none"
                              /\ \/ cloud'[r] = cloud[r]
                                 \/ cloud[r] # "none" /\ cloud'[r] = "ended"
    BY <1>0, <1>8 DEF EndsByItself, EndProcess
  <2>. QED
    BY <1>0, <2>1 DEF Accounted
<1>. QED
  BY <1>1, <1>2, <1>3, <1>4, <1>5, <1>6, <1>7, <1>8 DEF StackStep

LEMMA CommandedStack ==
  ASSUME TypeOK, Commanded
  PROVE  /\ rows' = rows
         /\ \A r \in Reading :
              /\ gateway'[r] = gateway[r] \/ gateway'[r] = "none"
              /\ \/ cloud'[r] = cloud[r]
                 \/ cloud[r] # "none" /\ cloud'[r] = "ended"
BY DEF Commanded, LeavesStack, StopService, RestartCloud, StartService, EndProcess, TypeOK

LEMMA AccountedScript ==
  ASSUME TypeOK, ControlInv, \A r \in Reading : Accounted(r), ScenarioStep
  PROVE  rows' = rows /\ \A r \in Reading : Accounted(r)'
<1> USE DEF Snapshot
<1>0. /\ rows \in [Reading -> Nat] /\ script.before_stop \in [Reading -> Nat]
      /\ script.sent \in Nat /\ Reading \subseteq Nat
      /\ gateway \in [Reading -> {"none", "sent", "forwarding", "failing", "ok", "bad", "full"}]
      /\ script.statuses \in [Reading -> Status \cup {None}]
  BY BoundsAreNaturals DEF TypeOK, ScriptState, Reading
<1>1. CASE Send
  <2>1. /\ script'.sent = script.sent + 1 /\ script'.statuses = script.statuses
        /\ script'.before_stop = script.before_stop
    BY <1>1, SendOutcome DEF Keeps
  <2>. QED
    BY <1>0, <1>1, <2>1 DEF Send, Accounted
<1>2. CASE HearAnswer
  <2> DEFINE status == StatusOf(gateway[latest])
  <2>1. latest \in Reading /\ SameScenario(script')
        /\ script'.statuses = [script.statuses EXCEPT ![latest] = status]
    BY <1>2, HearAnswerOutcome DEF HeardMoves
  <2>2. /\ gateway[latest] \in Answers
        /\ gateway' = [gateway EXCEPT ![latest] = "none"] /\ UNCHANGED <<rows, cloud>>
    BY <1>2 DEF HearAnswer
  <2>3. status = 200 => gateway[latest] = "ok"
    BY <2>2, StatusType
  <2> HIDE DEF status
  <2>. QED
    BY <1>0, <2>1, <2>2, <2>3 DEF Accounted, SameScenario
<1>3. CASE ~Send /\ ~HearAnswer
  <2>1. /\ rows' = rows
        /\ \A r \in Reading : /\ gateway'[r] = gateway[r] \/ gateway'[r] = "none"
                              /\ \/ cloud'[r] = cloud[r]
                                 \/ cloud[r] # "none" /\ cloud'[r] = "ended"
    <3>1. CASE InjectInvalidEnvelope
      BY <3>1 DEF InjectInvalidEnvelope
    <3>2. CASE ConnectionBreaks
      BY <1>0, <3>2 DEF ConnectionBreaks
    <3>3. CASE ~InjectInvalidEnvelope /\ ~ConnectionBreaks
      BY <1>3, <3>3, ScriptCommands, CommandedStack DEF ScenarioStep
    <3>. QED
      BY <3>1, <3>2, <3>3
  <2>2. /\ script'.sent = script.sent
        /\ \/ script'.statuses = script.statuses
           \/ script'.statuses = [r \in Reading |-> None]
        /\ script'.before_stop \in {script.before_stop, rows, NoRows}
    BY <1>3, NotesStay
  <2>3. \A r \in Reading : script'.statuses[r] = 200 => script.statuses[r] = 200
    BY <2>2, NoneIsNoValue DEF Status
  <2>4. ASSUME NEW r \in Reading PROVE script'.before_stop[r] <= rows[r]
    <3>1. script.before_stop[r] <= rows[r] /\ NoRows[r] = 0 /\ rows[r] \in Nat
      BY <1>0 DEF Accounted, NoRows
    <3>. QED
      BY <2>2, <3>1
  <2>5. ASSUME NEW r \in Reading PROVE Accounted(r)'
    <3>1. Accounted(r)
      OBVIOUS
    <3>. QED
      BY <1>0, <2>1, <2>2, <2>3, <2>4, <3>1 DEF Accounted
  <2>. QED
    BY <2>1, <2>5
<1>. QED
  BY <1>1, <1>2, <1>3

\* Most steps leave or keep the part of a recovery that has its marker.
LEMMA MarkerElsewhere ==
  ASSUME ~At({"look"})', \/ scenario' # "recovery"
                         \/ ~At({"restart", "send", "wait"})'
                         \/ script'.n = 0 /\ ~At({"restart"})'
  PROVE  MarkerInv'
BY DEF MarkerInv, At

LEMMA MarkerOver ==
  ASSUME TypeOK', NEW s, Concludes(s, script')
  PROVE  MarkerInv'
<1>1. CASE script'.step = "ended"
  BY <1>1, MarkerElsewhere DEF At
<1>2. CASE script'.step # "ended"
  <2>1. script'.step = FirstStep(scenario') /\ script'.n = 0
    BY <1>2 DEF Concludes, scenario
  <2>2. scenario' \in Scenario
    BY ScenarioTypeNext
  <2>3. script'.step = IF scenario' = "gateway-outage" THEN "stop"
                       ELSE IF scenario' \in {"delivery", "outage", "recovery"} THEN "send"
                       ELSE "before"
    BY <2>1, <2>2, Beginning
  <2>. QED
    BY <2>1, <2>3, MarkerElsewhere DEF At
<1>. QED
  BY <1>1, <1>2

LEMMA MarkerStep ==
  ASSUME TypeOK, TypeOK', ControlInv, DataInv, ScenarioStep
  PROVE  MarkerInv'
<1>s. /\ script.n \in Nat /\ script.sent \in Nat /\ script.first \in Nat
      /\ script.first <= script.sent /\ Reading \subseteq Nat
  BY BoundsAreNaturals DEF TypeOK, ScriptState, Reading
<1>0. /\ scenario \in Scenario /\ script.step \in StepsOf(scenario)
      /\ script.n \in Nat /\ script.sent \in Nat /\ script.first \in Nat
      /\ script.first <= script.sent /\ Reading \subseteq Nat
  BY <1>s, ScenarioType DEF ControlInv
<1>r. rows' = rows
  BY AccountedScript DEF DataInv
<1> DEFINE Here == scenario' = scenario
<1>a. \A fields : Keeps(script', fields) => Here
  BY ScenarioStays DEF Keeps
<1>b. SameScenario(script') => Here
  BY ScenarioStays DEF SameScenario
<1> HIDE DEF Here
<1>c. \A reason : Fails(script', reason) => MarkerInv'
  BY MarkerElsewhere DEF Fails, At
<1>d. \A s : Concludes(s, script') => MarkerInv'
  BY MarkerOver
<1>1. CASE Send
  <2>1. /\ Here /\ script'.step = "wait" /\ script'.n = script.n /\ At({"send"})
        /\ script'.first = script.first /\ script'.sent = script.sent + 1
    BY <1>1, <1>a, SendOutcome DEF Keeps, Send
  <2>. QED
    BY <1>0, <1>r, <2>1 DEF DataInv, MarkerInv, At, Here
<1>2. CASE HearAnswer \/ GiveUp \/ ConnectionBreaks
  <2>1. At({"wait"})
    BY <1>2 DEF HearAnswer, GiveUp, ConnectionBreaks
  <2>2. PICK status : HeardMoves(script', status)
                      /\ (status = 200 => latest \in Reading /\ gateway[latest] = "ok")
    <3>1. CASE HearAnswer
      <4>1. gateway[latest] \in Answers
        BY <3>1 DEF HearAnswer
      <4>. QED
        BY <3>1, <4>1, HearAnswerOutcome, StatusType
    <3>2. CASE GiveUp \/ ConnectionBreaks
      BY <3>2, GiveUpOutcome, NoneIsNoValue DEF Status
    <3>. QED
      BY <1>2, <3>1, <3>2
  <2>3. Here /\ SameScenario(script')
    BY <2>2, <1>b DEF HeardMoves
  <2>4. CASE scenario = "recovery"
    <3>1. CASE status = 200
      <4>1. script'.step = "look" /\ script'.n = script.n
        BY <2>2, <2>4, <3>1 DEF HeardMoves
      <4>2. rows[latest] = 1
        BY <2>2, <3>1 DEF DataInv, Accounted
      <4>. QED
        BY <1>r, <2>1, <2>3, <4>1, <4>2 DEF DataInv, MarkerInv, At, Here, SameScenario, latest
    <3>2. CASE status # 200 /\ script.n = 0
      BY <1>c, <2>2, <2>4, <3>2 DEF HeardMoves
    <3>3. CASE status # 200 /\ script.n # 0
      <4>1. script'.step = "send" /\ script'.n = script.n + 1
        BY <2>2, <2>4, <3>3 DEF HeardMoves
      <4>. QED
        BY <1>0, <1>r, <2>1, <2>3, <3>3, <4>1 DEF DataInv, MarkerInv, At, Here, SameScenario
    <3>. QED
      BY <3>1, <3>2, <3>3
  <2>5. CASE scenario # "recovery"
    <3>1. ~At({"look"})'
      <4>1. CASE scenario \in {"delivery", "outage"}
        <5>1. script.n + 1 \in 0 .. Count
          BY <1>0, <2>1, <4>1, ScenarioType, BoundsAreNaturals DEF ControlInv, At
        <5>2. script'.step = LoopHead(scenario, script.n + 1, Count)
          BY <2>2, <4>1 DEF HeardMoves
        <5>. QED
          BY <4>1, <5>1, <5>2, NextHead DEF At
      <4>2. CASE scenario = "latency" \/ scenario \in Detection
        BY <2>2, <4>2 DEF HeardMoves, At, Fails
      <4>. QED
        BY <1>0, <2>5, <4>1, <4>2 DEF Scenario
    <3>. QED
      BY <2>3, <2>5, <3>1, MarkerElsewhere DEF Here
  <2>. QED
    BY <2>4, <2>5
<1>3. CASE ReadBefore
  <2>1. scenario # "recovery" /\ Here /\ script'.step \in {"stop", "inject", "send"}
    BY <1>0, <1>3, <1>a, ReadBeforeOutcome DEF ReadBefore, At, StepsOf
  <2>. QED
    BY <2>1, MarkerElsewhere DEF At, Here
<1>4. CASE CompareReceipts
  <2>1. CASE Proceeds(script', "before", script.n + 1)
    BY <2>1, MarkerElsewhere DEF Proceeds, At
  <2>. QED
    BY <1>4, <1>c, <1>d, <2>1, CompareOutcome
<1>5. CASE TakeSnapshot
  BY <1>5, TakeSnapshotOutcome, MarkerElsewhere DEF At
<1>6. CASE TakeFinal
  BY <1>6, <1>d, TakeFinalOutcome
<1>7. CASE Look
  <2>1. At({"look"}) /\ scenario = "recovery"
    BY <1>7, LookOutcome DEF Look
  <2>2. CASE script.n = 0 /\ rows[latest] > 0 /\ Proceeds(script', "restart", script.n)
    <3>1. Here /\ SameScenario(script') /\ script'.step = "restart"
      BY <1>b, <2>2 DEF Proceeds
    <3>2. script.sent = script.first + 1 /\ rows[script.sent] = 1
      BY <2>1, <2>2 DEF ControlInv, DataInv, MarkerInv, At
    <3>. QED
      BY <1>0, <1>r, <3>1, <3>2 DEF MarkerInv, At, SameScenario
  <2>3. CASE script.n # 0 /\ Proceeds(script', "send", script.n + 1)
    <3>1. Here /\ SameScenario(script') /\ script'.step = "send"
      BY <1>b, <2>3 DEF Proceeds
    <3>. QED
      BY <1>0, <1>r, <2>1, <2>3, <3>1 DEF DataInv, MarkerInv, At, SameScenario
  <2>. QED
    BY <1>7, <1>c, <1>d, <2>2, <2>3, LookOutcome
<1>8. CASE InjectInvalidEnvelope
  BY <1>8, InjectOutcome, MarkerElsewhere DEF At, Proceeds
<1>9. CASE Poll
  <2>1. CASE script' = script
    BY <1>9, <2>1, MarkerElsewhere DEF At, Poll
  <2>2. CASE Proceeds(script', "restore", script.n)
    BY <2>2, MarkerElsewhere DEF Proceeds, At
  <2>. QED
    BY <1>9, <1>c, <1>d, <2>1, <2>2, PollOutcome
<1>10. CASE RequestFails
  BY <1>10, <1>c, RequestFailsOutcome
<1>11. CASE CeilingPasses
  BY <1>11, <1>c, CeilingOutcome
<1>12. CASE Stop
  <2>1. scenario # "recovery" /\ Here /\ script'.step \in {"poll", "send"}
    BY <1>0, <1>12, <1>a, StopOutcome DEF Stop, At, StepsOf
  <2>. QED
    BY <2>1, MarkerElsewhere DEF At, Here
<1>13. CASE Start
  BY <1>13, StartOutcome, MarkerElsewhere DEF At
<1>14. CASE Restart
  <2>1. /\ At({"restart"}) /\ scenario = "recovery" /\ SameScenario(script')
        /\ script'.step = "send"
    BY <1>0, <1>14, RestartOutcome DEF Restart, StepsOf, At, Scenario, Detection, Proceeds
  <2>. QED
    BY <1>r, <2>1 DEF DataInv, MarkerInv, At, SameScenario
<1>15. CASE Restore
  BY <1>15, RestoreOutcome, MarkerElsewhere DEF At, Proceeds
<1>16. CASE BecomesHealthy
  <2>1. CASE At({"healthy"}) /\ Proceeds(script', "send", script.n)
    <3>1. scenario = "outage" /\ Here /\ script'.step = "send"
      BY <1>0, <1>b, <2>1 DEF Proceeds, StepsOf, At, Scenario, Detection
    <3>. QED
      BY <3>1, MarkerElsewhere DEF At, Here
  <2>2. CASE script'.step = "ended"
    BY <2>2, MarkerElsewhere DEF At
  <2>. QED
    BY <1>16, <1>d, <2>1, <2>2, BecomesHealthyOutcome
<1>17. CASE StaysUnhealthy
  BY <1>17, StaysUnhealthyOutcome, MarkerElsewhere DEF At
<1>18. CASE CommandFails
  <2>1. CASE script'.step = "ended"
    BY <2>1, MarkerElsewhere DEF At
  <2>. QED
    BY <1>18, <1>c, <2>1, CommandFailsOutcome
<1>. QED
  BY <1>1, <1>2, <1>3, <1>4, <1>5, <1>6, <1>7, <1>8, <1>9, <1>10, <1>11, <1>12, <1>13,
     <1>14, <1>15, <1>16, <1>17, <1>18 DEF ScenarioStep

LEMMA DataStep ==
  ASSUME ScenarioInv, ScenarioInv', DataInv, [Next]_vars
  PROVE  DataInv'
<1>1. CASE ScenarioStep
  BY <1>1, AccountedScript, MarkerStep DEF ScenarioInv, DataInv
<1>2. CASE StackStep
  <2>1. \A r \in Reading : Accounted(r)' /\ rows'[r] >= rows[r]
    BY <1>2, AccountedStack DEF ScenarioInv, DataInv
  <2>2. /\ script' = script /\ rows \in [Reading -> Nat] /\ rows' \in [Reading -> Nat]
        /\ script.sent \in Nat /\ script.first \in Nat /\ script.sent <= MaxSends
        /\ MaxSends \in Nat
    BY <1>2, BoundsAreNaturals, StackTypeStep, TypeParts
       DEF ScenarioInv, TypeOK, ScriptState, Snapshot
  <2>3. ASSUME NEW r \in Reading, rows[r] = 1 PROVE rows'[r] = 1
    <3>1. rows'[r] <= 1 /\ rows'[r] >= rows[r]
      BY <2>1 DEF Accounted
    <3>. QED
      BY <2>2, <2>3, <3>1
  <2>4. At({"look"}) => script.sent > script.first
    BY DEF ScenarioInv, ControlInv, At
  <2>5. MarkerInv'
    BY <2>2, <2>3, <2>4 DEF DataInv, MarkerInv, At, scenario, Reading
  <2>. QED
    BY <2>1, <2>5 DEF DataInv
<1>3. CASE UNCHANGED vars
  BY <1>3 DEF vars, DataInv, Accounted, MarkerInv, At, scenario
<1>. QED
  BY <1>1, <1>2, <1>3, ScenarioSteps DEF ScenarioInv

LEMMA AcknowledgedStep ==
  ASSUME ScenarioInv, DataInv, AcknowledgementsAreObserved, [Next]_vars
  PROVE  AcknowledgementsAreObserved'
<1>1. CASE script'.summary = script.summary /\ script'.retained = script.retained
  BY <1>1 DEF AcknowledgementsAreObserved
<1>2. CASE ScenarioStep
  <2>1. /\ script'.summary = script.summary \/ (TakeFinal /\ script'.summary = FinalCounts)
        /\ \/ script'.retained = script.retained
           \/ Look /\ script.n # 0 /\ script'.retained = (rows[script.first + 1] > 0)
    BY <1>2, ResultsStay DEF ScenarioInv
  <2>2. /\ FinalCounts.acknowledged_never_observed = 0
        /\ FinalCounts.lost_across_restart = 0 /\ FinalCounts.duplicates = 0
    <3> DEFINE ids == ScenarioReadings(script)
               acked == Acknowledged(script)
    <3>1. TypeOK /\ rows \in [Reading -> Nat] /\ script.before_stop \in [Reading -> Nat]
      BY DEF ScenarioInv, TypeOK, ScriptState, Snapshot
    <3>2. ids \subseteq Reading /\ acked \subseteq ids
      BY <3>1, ScenarioReadingsType DEF TypeOK
    <3>3. \A r \in ids : /\ rows[r] <= 1
                         /\ script.before_stop[r] > 0 => rows[r] > 0
      BY <3>1, <3>2 DEF DataInv, Accounted
    <3>4. \A r \in acked : rows[r] > 0
      <4>1. \A r \in acked : script.statuses[r] = 200
        BY DEF Acknowledged
      <4>. QED
        BY <3>1, <3>2, <4>1 DEF DataInv, Accounted
    <3> HIDE DEF ids, acked
    <3>. QED
      BY <3>1, <3>3, <3>4, FinalCountsType DEF ids, acked
  <2>3. Look /\ script.n # 0 => rows[script.first + 1] > 0
    <3>1. ASSUME Look, script.n # 0 PROVE rows[script.first + 1] = 1
      <4>1. At({"look"}) /\ scenario = "recovery" /\ script.n > 0
        <5>1. scenario = "recovery" /\ At({"look"})
          BY <3>1, LookOutcome DEF Look, ScenarioInv
        <5>2. script.n \in Nat
          BY BoundsAreNaturals DEF ScenarioInv, TypeOK, ScriptState
        <5>. QED
          BY <3>1, <5>1, <5>2
      <4>. QED
        BY <4>1 DEF DataInv, MarkerInv, At
    <3>. QED
      BY <3>1
  <2>. QED
    BY <2>1, <2>2, <2>3 DEF AcknowledgementsAreObserved
<1>3. CASE StackStep \/ UNCHANGED vars
  <2>1. script' = script
    BY <1>3, StackTypeStep, TypeParts DEF ScenarioInv, vars
  <2>. QED
    BY <1>1, <2>1
<1>. QED
  BY <1>2, <1>3, ScenarioSteps DEF ScenarioInv

-----------------------------------------------------------------------------
(* Verdicts have a cause.                                                    *)

\* The readings whose outcome the script knows.
HeardReadings == {r \in ScenarioReadings(script) : At({"wait"}) => r # latest}

\* No hop has given up waiting, and no process has ended by itself.
Uninterrupted == causes \cap {"timeout", "crash"} = {}

\* Nor has a reading been refused.
Untroubled == causes \cap {"timeout", "crash", "storage", "capacity"} = {}

\* While nothing is interrupted, no handler outlives the wait for its reading,
Settled == \A r \in Reading : (At({"wait"}) => r # latest) =>
             gateway[r] = "none" /\ cloud[r] \in {"none", "ended"}

\* a reading is answered as a failure only if it has not been stored,
InFlight ==
  At({"wait"}) =>
    \/ gateway[latest] = "sent"
    \/ /\ gateway[latest] = "forwarding" /\ cloud[latest] # "none"
       /\ cloud[latest] = "ended" => rows[latest] = 0
    \/ gateway[latest] \in {"failing", "bad"} /\ cloud[latest] = "ended" /\ rows[latest] = 0
    \/ gateway[latest] = "full" /\ cloud[latest] = "none" /\ rows[latest] = 0
    \/ gateway[latest] = "ok" /\ cloud[latest] = "ended"

\* each reading has been answered,
AllHeard == \A r \in HeardReadings :
              script.statuses[r] # None /\ (script.statuses[r] # 200 => rows[r] = 0)

\* the cloud has received what it has acknowledged,
ReceiptsMatch ==
  scenario = "latency" =>
    /\ At({"send"}) => counters["received"] = script.before
    /\ At({"wait"}) => counters["received"] = script.before +
         IF cloud[latest] = "counted" \/ gateway[latest] = "ok" THEN 1 ELSE 0
    /\ At({"after"}) => counters["received"] = script.before +
         IF script.statuses[latest] = 200 THEN 1 ELSE 0

\* and an outage has been noticed.
OutageNoticed ==
  scenario = "outage" /\ script.n > stop_at /\ ~At({"ended"}) =>
    \E r \in HeardReadings : script.statuses[r] # 200

Attended == Settled /\ InFlight /\ AllHeard /\ ReceiptsMatch /\ OutageNoticed

\* While nothing is refused either, only an outage makes a reading fail.
NothingFails ==
  At({"wait"}) /\ ~HasStopped /\ ~CloudComesBack =>
    \/ gateway[latest] \in {"sent", "ok"}
    \/ gateway[latest] = "forwarding" /\ cloud[latest] \in {"storing", "stored", "counted"}

AllAcknowledged ==
  scenario \in {"latency", "delivery"} => \A r \in HeardReadings : script.statuses[r] = 200

\* During an outage nothing is stored.
OutageFails ==
  At({"wait"}) /\ HasStopped => gateway[latest] # "ok" /\ cloud[latest] \in {"none", "ended"}

\* A delivery is cut short only by an error.
OutageRaised == scenario = "outage" /\ At({"restore", "restored"}) => script.error # None

\* The gateway is full only where its registry is.
FullHasCause == \A r \in Reading : gateway[r] = "full" => "capacity" \in causes

\* Receipts go back only with their process.
ReceiptsGrow ==
  "crash" \notin causes /\ scenario = "latency" /\ At({"send", "wait", "after"}) =>
    counters["received"] >= script.before

CauseInv ==
  /\ OutageFails /\ OutageRaised /\ FullHasCause /\ ReceiptsGrow
  /\ Uninterrupted => Attended
  /\ Untroubled => NothingFails /\ AllAcknowledged

\* Sending and waiting apart, a step leaves the readings of the scenario alone, or
\* begins a scenario that has none yet.
SameReadings ==
  /\ script'.plan = script.plan /\ script'.stage = script.stage
  /\ script'.sent = script.sent /\ script'.first = script.first
  /\ script'.statuses = script.statuses
  /\ scenario = "outage" => script'.n = script.n

NoReadings == script'.first = script'.sent /\ script'.n = 0

Quietly ==
  /\ ~At({"wait", "after"})'
  /\ scenario' = "latency" /\ At({"send"})' => ReadBefore
  /\ scenario' = "outage" /\ At({"restore"})' => script'.error # None
  /\ At({"restored"})' => At({"restore"}) /\ scenario' = scenario /\ script'.error = script.error
  /\ SameReadings \/ NoReadings

LEMMA QuietlyOver ==
  ASSUME TypeOK', NEW s, Concludes(s, script'), s.first = script.first,
         s.statuses = script.statuses, s.n = script.n
  PROVE  Quietly
<1>1. CASE script'.step = "ended" /\ script'.stage = script.stage
  <2>0. script'.stage \in Nat
    BY DEF TypeOK, ScriptState
  <2>1. /\ script'.first = script.first /\ script'.statuses = script.statuses
        /\ script'.n = script.n
    BY <1>1, <2>0 DEF Concludes
  <2>. QED
    BY <1>1, <2>1 DEF Concludes, Quietly, SameReadings, At
<1>2. CASE ~(script'.step = "ended" /\ script'.stage = script.stage)
  <2>1. /\ script'.step = FirstStep(scenario') /\ script'.n = 0
        /\ script'.first = script'.sent
    BY <1>2 DEF Concludes, scenario
  <2>2. scenario' \in Scenario
    BY ScenarioTypeNext
  <2>3. script'.step = IF scenario' = "gateway-outage" THEN "stop"
                       ELSE IF scenario' \in {"delivery", "outage", "recovery"} THEN "send"
                       ELSE "before"
    BY <2>1, <2>2, Beginning
  <2>. QED
    BY <2>1, <2>3 DEF Quietly, NoReadings, At
<1>. QED
  BY <1>1, <1>2

LEMMA QuietSteps ==
  ASSUME TypeOK, TypeOK', ControlInv, ScenarioStep,
         ~Send, ~HearAnswer, ~ConnectionBreaks, ~GiveUp
  PROVE  Quietly
<1>0. scenario \in Scenario /\ script.step \in StepsOf(scenario)
  BY ScenarioType DEF ControlInv
<1>a. \A fields : Keeps(script', fields) => scenario' = scenario
  BY ScenarioStays DEF Keeps
<1>b. SameScenario(script') => scenario' = scenario
  BY ScenarioStays DEF SameScenario
<1>c. ASSUME NEW reason \in Errors, SameScenario(script'), Fails(script', reason),
             script'.statuses = script.statuses
      PROVE  Quietly
  <2>1. reason # None
    BY NoneIsNoValue
  <2>. QED
    BY <1>c, <2>1 DEF Quietly, SameReadings, SameScenario, Fails, At
<1>d. \A s : Concludes(s, script') /\ s.first = script.first
              /\ s.statuses = script.statuses /\ s.n = script.n => Quietly
  BY QuietlyOver
<1>e. \A s : Keeps(s, {"summary"}) \/ Keeps(s, {"retained"}) \/ Keeps(s, {"stopped"})
              => s.first = script.first /\ s.statuses = script.statuses /\ s.n = script.n
  BY DEF Keeps
<1>1. CASE ReadBefore
  <2>1. /\ Keeps(script', {"before"}) /\ scenario' = scenario
        /\ script'.step \in {"stop", "inject", "send"}
    BY <1>1, <1>a, ReadBeforeOutcome
  <2>. QED
    BY <1>1, <2>1 DEF Quietly, SameReadings, Keeps, At
<1>2. CASE CompareReceipts
  <2>1. CASE Proceeds(script', "before", script.n + 1) /\ scenario = "latency"
    BY <2>1 DEF Quietly, SameReadings, Proceeds, SameScenario, At
  <2>2. CASE /\ SameScenario(script') /\ script'.statuses = script.statuses
             /\ Fails(script', "counter reset") \/ Fails(script', "receipt delta")
    <3>1. "counter reset" \in Errors /\ "receipt delta" \in Errors
      BY DEF Errors
    <3>. QED
      BY <1>c, <2>2, <3>1
  <2>. QED
    BY <1>2, <1>d, <2>1, <2>2, CompareOutcome
<1>3. CASE TakeSnapshot
  <2>1. Keeps(script', {"before_stop"}) /\ scenario' = scenario /\ script'.step = "stop"
    BY <1>3, <1>a, TakeSnapshotOutcome
  <2>. QED
    BY <2>1 DEF Quietly, SameReadings, Keeps, At
<1>4. CASE TakeFinal
  BY <1>4, <1>d, <1>e, TakeFinalOutcome
<1>5. CASE Look
  <2>1. scenario = "recovery"
    BY <1>5, LookOutcome
  <2>2. CASE \/ Proceeds(script', "restart", script.n)
             \/ Proceeds(script', "send", script.n + 1)
    <3>1. SameScenario(script') /\ scenario' = scenario /\ script'.statuses = script.statuses
          /\ script'.step \in {"restart", "send"}
      BY <1>b, <2>2 DEF Proceeds
    <3>. QED
      BY <2>1, <3>1 DEF Quietly, SameReadings, SameScenario, At
  <2>3. CASE SameScenario(script') /\ Fails(script', "marker not stored")
             /\ script'.statuses = script.statuses
    BY <1>c, <2>3 DEF Errors
  <2>. QED
    BY <1>5, <1>d, <1>e, <2>2, <2>3, LookOutcome
<1>6. CASE InjectInvalidEnvelope
  <2>1. /\ SameScenario(script') /\ script'.statuses = script.statuses
        /\ script'.step = "poll" /\ script'.n = script.n
    BY <1>6, InjectOutcome DEF Proceeds
  <2>. QED
    BY <2>1 DEF Quietly, SameReadings, SameScenario, At
<1>7. CASE Poll
  <2>1. At({"poll"}) /\ scenario # "outage"
    BY <1>0, <1>7 DEF Poll, At, StepsOf
  <2>2. CASE script' = script
    BY <2>1, <2>2 DEF Quietly, SameReadings, At
  <2>3. CASE Proceeds(script', "restore", script.n)
    <3>1. SameScenario(script') /\ scenario' = scenario /\ script'.statuses = script.statuses
          /\ script'.step = "restore"
      BY <1>b, <2>3 DEF Proceeds
    <3>. QED
      BY <2>1, <3>1 DEF Quietly, SameReadings, SameScenario, At
  <2>4. CASE SameScenario(script') /\ Fails(script', "counter reset")
             /\ script'.statuses = script.statuses
    BY <1>c, <2>4 DEF Errors
  <2>. QED
    BY <1>7, <1>d, <2>2, <2>3, <2>4, PollOutcome
<1>8. CASE RequestFails
  BY <1>8, <1>c, RequestFailsOutcome DEF Errors
<1>9. CASE CeilingPasses
  <2>1. "not observed" \in Errors /\ "not recovered" \in Errors
    BY DEF Errors
  <2>. QED
    BY <1>9, <1>c, <2>1, CeilingOutcome
<1>10. CASE Stop
  <2>1. /\ Keeps(script', {"stopped"}) /\ scenario' = scenario
        /\ script'.step = IF scenario = "gateway-outage" THEN "poll" ELSE "send"
    BY <1>10, <1>a, StopOutcome
  <2>2. scenario # "latency"
    BY <1>0, <1>10 DEF Stop, At, StepsOf
  <2>. QED
    BY <2>1, <2>2 DEF Quietly, SameReadings, Keeps, At
<1>11. CASE Start
  <2>1. Keeps(script', {"stopped"}) /\ script'.step = "healthy"
    BY <1>11, StartOutcome
  <2>. QED
    BY <2>1 DEF Quietly, SameReadings, Keeps, At
<1>12. CASE Restart
  <2>1. scenario = "recovery"
    BY <1>0, <1>12 DEF Restart, StepsOf, At, Scenario, Detection
  <2>2. /\ SameScenario(script') /\ scenario' = scenario
        /\ script'.statuses = script.statuses /\ script'.step = "send"
    BY <1>12, <1>b, RestartOutcome DEF Proceeds
  <2>. QED
    BY <2>1, <2>2 DEF Quietly, SameReadings, SameScenario, At
<1>13. CASE Restore
  <2>1. /\ SameScenario(script') /\ scenario' = scenario /\ script'.n = script.n
        /\ script'.statuses = script.statuses /\ script'.step = "restored"
        /\ script'.error = script.error /\ At({"restore"})
    BY <1>13, <1>b, RestoreOutcome DEF Proceeds, Restore
  <2>. QED
    BY <2>1 DEF Quietly, SameReadings, SameScenario, At
<1>14. CASE BecomesHealthy
  <2>1. CASE At({"healthy"}) /\ Proceeds(script', "send", script.n)
    <3>1. /\ SameScenario(script') /\ scenario' = scenario /\ script'.n = script.n
          /\ script'.statuses = script.statuses /\ script'.step = "send"
          /\ scenario = "outage"
      BY <1>0, <1>b, <2>1 DEF Proceeds, StepsOf, At, Scenario, Detection
    <3>. QED
      BY <3>1 DEF Quietly, SameReadings, SameScenario, At
  <2>2. CASE Keeps(script', {"stopped"}) /\ script'.step = "ended"
    BY <2>2 DEF Quietly, SameReadings, Keeps, At
  <2>. QED
    BY <1>14, <1>d, <1>e, <2>1, <2>2, BecomesHealthyOutcome
<1>15. CASE StaysUnhealthy
  <2>1. Keeps(script', {"error"}) /\ script'.step = "ended"
    BY <1>15, StaysUnhealthyOutcome
  <2>. QED
    BY <2>1 DEF Quietly, SameReadings, Keeps, At
<1>16. CASE CommandFails
  <2>1. CASE Keeps(script', {"error"}) /\ script'.step = "ended"
    BY <2>1 DEF Quietly, SameReadings, Keeps, At
  <2>. QED
    BY <1>16, <1>c, <2>1, CommandFailsOutcome DEF Errors
<1>. QED
  BY <1>1, <1>2, <1>3, <1>4, <1>5, <1>6, <1>7, <1>8, <1>9, <1>10, <1>11, <1>12, <1>13,
     <1>14, <1>15, <1>16 DEF ScenarioStep

\* Nor does it touch a stack in which nothing is under way.
Idle == \A r \in Reading : gateway[r] = "none" /\ cloud[r] \in {"none", "ended"}

LEMMA IdleStays ==
  ASSUME TypeOK, ControlInv, ScenarioStep, ~Send, ~HearAnswer, ~ConnectionBreaks, Idle
  PROVE  Idle'
<1>1. CASE InjectInvalidEnvelope
  BY <1>1 DEF InjectInvalidEnvelope, Idle
<1>2. CASE ~InjectInvalidEnvelope
  <2>1. \A r \in Reading : /\ gateway'[r] = gateway[r] \/ gateway'[r] = "none"
                           /\ \/ cloud'[r] = cloud[r]
                              \/ cloud[r] # "none" /\ cloud'[r] = "ended"
    BY <1>2, ScriptCommands, CommandedStack DEF ScenarioStep
  <2>. QED
    BY <2>1 DEF Idle
<1>. QED
  BY <1>1, <1>2

\* The stack, as long as no hop gives up: only the reading waited for moves.
LEMMA AttendedStack ==
  ASSUME TypeOK, ControlInv, DataInv, Attended, StackStep, Uninterrupted'
  PROVE  Attended'
<1>0. /\ rows \in [Reading -> Nat] /\ counters \in [CounterNames -> Nat]
      /\ gateway \in [Reading -> {"none", "sent", "forwarding", "failing", "ok", "bad", "full"}]
      /\ cloud \in [Reading -> {"none", "storing", "stored", "counted", "ended"}]
      /\ script.before \in Nat /\ "received" \in CounterNames
  BY DEF TypeOK, Snapshot, ScriptState, CounterNames, CloudCounters
<1>1. script' = script
  BY StackTypeStep, TypeParts
<1>2. /\ scenario' = scenario /\ latest' = latest /\ HeardReadings' = HeardReadings
      /\ \A steps : At(steps)' <=> At(steps)
  BY <1>1 DEF scenario, latest, HeardReadings, ScenarioReadings, At
<1>3. At({"wait"}) => latest \in Reading
  BY BoundsAreNaturals DEF ControlInv, At, latest, TypeOK, ScriptState, Reading
<1>4. HeardReadings \subseteq Reading
  BY ScenarioReadingsType DEF TypeOK, HeardReadings
<1>5. AllHeard' /\ OutageNoticed' <=>
        /\ \A r \in HeardReadings :
             script.statuses[r] # None /\ (script.statuses[r] # 200 => rows'[r] = 0)
        /\ OutageNoticed
  BY <1>1, <1>2 DEF AllHeard, OutageNoticed
<1>6. CASE \E s \in Service : BecomeReady(s)
  <2>1. UNCHANGED <<gateway, cloud, rows, counters>>
    BY <1>6 DEF BecomeReady
  <2>. QED
    BY <1>1, <1>2, <1>5, <2>1
       DEF Attended, Settled, InFlight, AllHeard, ReceiptsMatch
<1>7. CASE \E r \in Reading : \/ Arrive(r) \/ Commit(r) \/ FailStorage(r) \/ CountReceived(r)
                              \/ AnswerStored(r) \/ ForwardFails(r) \/ CountFailure(r)
                              \/ RefuseDevice(r)
  <2>1. PICK r \in Reading : \/ Arrive(r) \/ Commit(r) \/ FailStorage(r) \/ CountReceived(r)
                             \/ AnswerStored(r) \/ ForwardFails(r) \/ CountFailure(r)
                             \/ RefuseDevice(r)
    BY <1>7
  <2>2. At({"wait"}) /\ r = latest
    <3>1. gateway[r] # "none" \/ cloud[r] \notin {"none", "ended"}
      BY <2>1 DEF RefuseDevice, Arrive, Commit, FailStorage, CountReceived, AnswerStored, AnswerFrom,
         ForwardFails, CountFailure
    <3>. QED
      BY <3>1 DEF Attended, Settled
  <2>3. \A q \in Reading \ {latest} : gateway'[q] = gateway[q] /\ cloud'[q] = cloud[q]
                                      /\ rows'[q] = rows[q]
    BY <1>0, <2>1, <2>2 DEF RefuseDevice, Arrive, Commit, FailStorage, CountReceived, AnswerStored,
       AnswerFrom, ForwardFails, CountFailure
  <2>4. Settled'
    BY <1>2, <2>2, <2>3 DEF Attended, Settled
  <2>5. AllHeard' /\ OutageNoticed'
    <3>1. \A q \in HeardReadings : rows'[q] = rows[q]
      BY <1>4, <2>2, <2>3 DEF HeardReadings
    <3>. QED
      BY <1>5, <3>1 DEF Attended, AllHeard
  <2>6. gateway[latest] = "sent" => cloud[latest] = "none" /\ rows[latest] = 0
    BY <1>3, <2>2 DEF DataInv, Accounted
  <2>7. cloud[latest] = "storing" => rows[latest] = 0
    BY <1>3, <2>2 DEF DataInv, Accounted
  <2>8. InFlight'
    BY <1>0, <1>2, <2>1, <2>2, <2>6, <2>7 DEF Attended, InFlight, RefuseDevice, Arrive, Commit,
       FailStorage, CountReceived, AnswerStored, AnswerFrom, ForwardFails, CountFailure
  <2>9. ReceiptsMatch'
    <3> SUFFICES ASSUME scenario = "latency"
                 PROVE  counters'["received"] = script.before +
                          IF cloud'[latest] = "counted" \/ gateway'[latest] = "ok" THEN 1 ELSE 0
      BY <1>1, <1>2, <2>2 DEF ReceiptsMatch, At
    <3>1. counters["received"] = script.before +
            IF cloud[latest] = "counted" \/ gateway[latest] = "ok" THEN 1 ELSE 0
      BY <2>2 DEF Attended, ReceiptsMatch
    <3>2. CASE CountReceived(latest)
      <4>1. cloud[latest] = "stored" /\ gateway[latest] = "forwarding"
        BY <2>2, <2>6, <3>2 DEF CountReceived, Attended, InFlight
      <4>. QED
        BY <1>0, <1>3, <2>2, <3>1, <3>2, <4>1 DEF CountReceived
    <3>3. CASE AnswerStored(latest)
      <4>1. cloud[latest] = "counted" /\ gateway[latest] = "forwarding"
        BY <2>2, <2>6, <3>3 DEF AnswerStored, AnswerFrom, Attended, InFlight
      <4>. QED
        BY <1>0, <1>3, <2>2, <3>1, <3>3, <4>1 DEF AnswerStored, AnswerFrom
    <3>4. CASE \/ Arrive(latest) \/ Commit(latest) \/ FailStorage(latest)
               \/ ForwardFails(latest) \/ CountFailure(latest) \/ RefuseDevice(latest)
      <4>1. counters'["received"] = counters["received"]
        BY <1>0, <3>4 DEF RefuseDevice, Arrive, Commit, FailStorage, ForwardFails, CountFailure,
           CountFault
      <4>2. ~(cloud[latest] = "counted" \/ gateway[latest] = "ok")
        BY <2>2, <2>6, <3>4 DEF RefuseDevice, Arrive, Commit, FailStorage, ForwardFails, CountFailure,
           Attended, InFlight
      <4>3. ~(cloud'[latest] = "counted" \/ gateway'[latest] = "ok")
        BY <1>0, <1>3, <2>2, <3>4, <4>2 DEF RefuseDevice, Arrive, Commit, FailStorage, ForwardFails,
           CountFailure
      <4>. QED
        BY <3>1, <4>1, <4>2, <4>3
    <3>. QED
      BY <2>1, <2>2, <3>2, <3>3, <3>4
  <2>. QED
    BY <2>4, <2>5, <2>8, <2>9 DEF Attended
<1>8. ~(\E r \in Reading : ForwardTimesOut(r)) /\ ~(\E s \in Service : EndsByItself(s))
  BY DEF ForwardTimesOut, EndsByItself, Uninterrupted
<1>. QED
  BY <1>6, <1>7, <1>8 DEF StackStep

\* While the script waits it commands nothing, so that in an outage the cloud stays down.
LEMMA OutageFailsStack ==
  ASSUME ScenarioInv, OutageFails, OutageRaised, StackStep
  PROVE  OutageFails' /\ OutageRaised'
<1>0. /\ gateway \in [Reading -> {"none", "sent", "forwarding", "failing", "ok", "bad", "full"}]
      /\ cloud \in [Reading -> {"none", "storing", "stored", "counted", "ended"}]
  BY DEF ScenarioInv, TypeOK
<1>1. script' = script
  BY StackTypeStep, TypeParts DEF ScenarioInv
<1>2. /\ latest' = latest /\ (HasStopped' <=> HasStopped)
      /\ OutageRaised' /\ \A steps : At(steps)' <=> At(steps)
  BY <1>1 DEF scenario, latest, HasStopped, OutageRaised, At
<1>3. ASSUME At({"wait"}), HasStopped
      PROVE  gateway'[latest] # "ok" /\ cloud'[latest] \in {"none", "ended"}
  <2>1. services["cloud"] = "down"
    BY <1>3 DEF ScenarioInv, ServicesInv, HasStopped, At, Outage
  <2>2. gateway[latest] # "ok" /\ cloud[latest] \in {"none", "ended"}
    BY <1>3 DEF OutageFails
  <2>3. latest \in Reading
    BY <1>3, BoundsAreNaturals
       DEF ScenarioInv, ControlInv, At, latest, TypeOK, ScriptState, Reading
  <2>4. CASE \E s \in Service : EndsByItself(s)
    <3>1. /\ gateway'[latest] \in {gateway[latest], "none"}
          /\ cloud'[latest] \in {cloud[latest], "none", "ended"}
      BY <2>3, <2>4 DEF EndsByItself, EndProcess
    <3>. QED
      BY <2>2, <3>1
  <2>5. CASE ~\E s \in Service : EndsByItself(s)
    BY <1>0, <2>1, <2>2, <2>3, <2>5 DEF StackStep, RefuseDevice, Arrive, Commit, FailStorage,
       CountReceived, AnswerStored, AnswerFrom, ForwardFails, ForwardTimesOut, CountFailure,
       BecomeReady
  <2>. QED
    BY <2>4, <2>5
<1>. QED
  BY <1>2, <1>3 DEF OutageFails

LEMMA Lasting ==
  ASSUME TypeOK, FullHasCause, ReceiptsGrow, StackStep
  PROVE  FullHasCause' /\ ReceiptsGrow'
<1>0. /\ gateway \in [Reading -> {"none", "sent", "forwarding", "failing", "ok", "bad", "full"}]
      /\ counters \in [CounterNames -> Nat] /\ "received" \in CounterNames
      /\ script.before \in Nat /\ causes \subseteq causes'
  BY CausesStay DEF TypeOK, CounterNames, CloudCounters, ScriptState
<1>1. script' = script /\ counters' \in [CounterNames -> Nat]
  BY StackTypeStep, TypeParts DEF StackType
<1>2. ASSUME NEW r \in Reading, gateway'[r] = "full" PROVE "capacity" \in causes'
  <2>1. gateway[r] = "full" \/ RefuseDevice(r)
    BY <1>0, <1>2 DEF StackStep, RefuseDevice, Arrive, Commit, FailStorage, CountReceived,
       AnswerStored, AnswerFrom, ForwardFails, ForwardTimesOut, CountFailure, BecomeReady,
       EndsByItself, EndProcess
  <2>. QED
    BY <1>0, <2>1 DEF FullHasCause, RefuseDevice
<1>3. ASSUME "crash" \notin causes' PROVE counters'["received"] >= counters["received"]
  <2>1. ~\E s \in Service : EndsByItself(s)
    BY <1>3 DEF EndsByItself
  <2>. QED
    BY <1>0, <2>1, CountersGrow
<1>4. ReceiptsGrow'
  <2>1. counters["received"] \in Nat /\ counters'["received"] \in Nat
    BY <1>0, <1>1
  <2>. QED
    BY <1>0, <1>1, <1>3, <2>1 DEF ReceiptsGrow, At, scenario
<1>. QED
  BY <1>2, <1>4 DEF FullHasCause

LEMMA NothingFailsStack ==
  ASSUME ScenarioInv, DataInv, Attended, NothingFails, AllAcknowledged, StackStep,
         Untroubled'
  PROVE  NothingFails' /\ AllAcknowledged'
<1>0. /\ gateway \in [Reading -> {"none", "sent", "forwarding", "failing", "ok", "bad", "full"}]
      /\ cloud \in [Reading -> {"none", "storing", "stored", "counted", "ended"}]
  BY DEF ScenarioInv, TypeOK
<1>1. script' = script
  BY StackTypeStep, TypeParts DEF ScenarioInv
<1>2. /\ latest' = latest /\ (HasStopped' <=> HasStopped) /\ (CloudComesBack' <=> CloudComesBack)
      /\ AllAcknowledged' /\ \A steps : At(steps)' <=> At(steps)
  BY <1>1 DEF scenario, latest, HasStopped, CloudComesBack, AllAcknowledged, HeardReadings,
     ScenarioReadings, At
<1>3. ASSUME At({"wait"}), ~HasStopped, ~CloudComesBack
      PROVE  \/ gateway'[latest] \in {"sent", "ok"}
             \/ /\ gateway'[latest] = "forwarding"
                /\ cloud'[latest] \in {"storing", "stored", "counted"}
  <2>0. "crash" \notin causes
    BY CausesStay DEF Untroubled
  <2>1. services["cloud"] = "up"
    BY <1>3, <2>0 DEF ScenarioInv, ServicesInv, At, Service
  <2>2. \/ gateway[latest] \in {"sent", "ok"}
        \/ gateway[latest] = "forwarding" /\ cloud[latest] \in {"storing", "stored", "counted"}
    BY <1>3 DEF NothingFails
  <2>3. latest \in Reading
    BY <1>3, BoundsAreNaturals
       DEF ScenarioInv, ControlInv, At, latest, TypeOK, ScriptState, Reading
  <2>4. /\ ~\E r \in Reading : FailStorage(r) \/ ForwardTimesOut(r) \/ RefuseDevice(r)
        /\ ~\E s \in Service : EndsByItself(s)
    BY DEF FailStorage, ForwardTimesOut, RefuseDevice, EndsByItself, Untroubled
  <2>. QED
    BY <1>0, <2>1, <2>2, <2>3, <2>4 DEF StackStep, Arrive, Commit, CountReceived,
       AnswerStored, AnswerFrom, ForwardFails, CountFailure, BecomeReady
<1>. QED
  BY <1>2, <1>3 DEF NothingFails

LEMMA CauseQuiet ==
  ASSUME ScenarioInv, ScenarioInv', DataInv, CauseInv, ScenarioStep,
         ~Send, ~HearAnswer, ~ConnectionBreaks, ~GiveUp
  PROVE  CauseInv'
<1>0. /\ TypeOK /\ TypeOK' /\ ControlInv /\ script.sent \in Nat /\ script'.sent \in Nat
      /\ OutageFails /\ OutageRaised
  BY BoundsAreNaturals DEF ScenarioInv, TypeOK, ScriptState, CauseInv
<1>1. Quietly
  BY <1>0, QuietSteps
<1>2. rows' = rows
  BY <1>0, AccountedScript DEF DataInv
<1>3. ~At({"wait"}) /\ ~At({"ended"})
  BY QuietBegin DEF At
<1>4. causes \subseteq causes'
  BY QuietBegin
<1>5. ~At({"wait", "after"})'
  BY <1>1 DEF Quietly
<1>6. OutageFails' /\ InFlight' /\ NothingFails'
  BY <1>5 DEF OutageFails, InFlight, NothingFails, At
<1>a. ASSUME scenario' = "latency", At({"send"})'
      PROVE  counters'["received"] = script'.before
  <2>1. ReadBefore
    BY <1>1, <1>a DEF Quietly
  <2>2. counters' = counters /\ script'.before = counters[Watched] /\ scenario' = scenario
    BY <1>0, <2>1, ReadBeforeOutcome, ScenarioStays DEF ReadBefore, LeavesStack, Keeps
  <2>. QED
    BY <1>a, <2>2 DEF Watched
<1>b. ReceiptsGrow'
  <2>1. counters'["received"] \in Nat
    BY <1>0 DEF TypeOK, CounterNames, CloudCounters
  <2>. QED
    BY <1>5, <1>a, <2>1 DEF ReceiptsGrow, At
<1>c. FullHasCause'
  <2>1. \A r \in Reading : gateway'[r] = gateway[r] \/ gateway'[r] = "none"
    <3>1. CASE InjectInvalidEnvelope
      BY <3>1 DEF InjectInvalidEnvelope
    <3>2. CASE ~InjectInvalidEnvelope
      BY <1>0, <3>2, ScriptCommands, CommandedStack DEF ScenarioStep
    <3>. QED
      BY <3>1, <3>2
  <2>. QED
    BY <1>4, <2>1 DEF CauseInv, FullHasCause
<1>7. OutageRaised'
  BY <1>0, <1>1 DEF Quietly, OutageRaised, At
<1>8. \/ HeardReadings' = {} /\ script'.n = 0
      \/ /\ HeardReadings' = HeardReadings /\ script'.statuses = script.statuses
         /\ scenario' = scenario /\ (scenario = "outage" => script'.n = script.n)
  <2>1. CASE SameReadings
    BY <1>3, <1>5, <2>1 DEF SameReadings, HeardReadings, ScenarioReadings, scenario, At
  <2>2. CASE NoReadings
    BY <1>0, <2>2 DEF NoReadings, HeardReadings, ScenarioReadings
  <2>. QED
    BY <1>1, <2>1, <2>2 DEF Quietly
<1>9. ASSUME Uninterrupted' PROVE Attended'
  <2>1. Attended
    BY <1>4, <1>9 DEF CauseInv, Uninterrupted
  <2>2. Idle'
    BY <1>0, <1>3, <2>1, IdleStays DEF Attended, Settled, Idle
  <2>3. AllHeard'
    BY <1>2, <1>8, <2>1 DEF Attended, AllHeard
  <2>4. ReceiptsMatch'
    BY <1>5, <1>a DEF ReceiptsMatch, At
  <2>5. OutageNoticed'
    <3> SUFFICES ASSUME scenario' = "outage", script'.n > stop_at, ~At({"ended"})'
                 PROVE  \E r \in HeardReadings' : script'.statuses[r] # 200
      BY OutageInside DEF OutageNoticed, stop_at
    <3>1. script'.n # 0
      BY OutageInside
    <3>. QED
      BY <1>3, <1>8, <2>1, <3>1 DEF Attended, OutageNoticed
  <2>. QED
    BY <1>6, <2>2, <2>3, <2>4, <2>5 DEF Attended, Settled, Idle
<1>10. ASSUME Untroubled' PROVE AllAcknowledged'
  <2>1. AllAcknowledged
    BY <1>4, <1>10 DEF CauseInv, Untroubled
  <2>. QED
    BY <1>8, <2>1 DEF AllAcknowledged
<1>. QED
  BY <1>6, <1>7, <1>9, <1>10, <1>b, <1>c DEF CauseInv

LEMMA CauseSend ==
  ASSUME ScenarioInv, DataInv, CauseInv, Send
  PROVE  CauseInv'
<1>0. /\ TypeOK /\ script.sent \in Nat /\ script.first \in Nat /\ script.first <= script.sent
      /\ gateway \in [Reading -> {"none", "sent", "forwarding", "failing", "ok", "bad", "full"}]
      /\ Reading \subseteq Nat /\ script.before \in Nat
  BY BoundsAreNaturals DEF ScenarioInv, TypeOK, ScriptState, Reading
<1>1. /\ At({"send"}) /\ gateway' = [gateway EXCEPT ![script.sent + 1] = "sent"]
      /\ UNCHANGED <<cloud, rows, counters, causes>>
  BY DEF Send
<1>2. /\ script'.sent = script.sent + 1 /\ script'.step = "wait" /\ script'.n = script.n
      /\ script'.first = script.first /\ script'.statuses = script.statuses
      /\ script'.before = script.before
      /\ script.sent + 1 \in Reading /\ scenario' = scenario
  BY <1>0, SendOutcome, ScenarioStays DEF Keeps
<1>3. latest' = script.sent + 1 /\ gateway'[latest'] = "sent" /\ cloud'[latest'] = "none"
  <2>1. Accounted(script.sent + 1)
    BY <1>2 DEF DataInv
  <2>2. cloud[script.sent + 1] = "none"
    BY <1>0, <2>1 DEF Accounted
  <2>. QED
    BY <1>0, <1>1, <1>2, <2>2 DEF latest
<1>4. HeardReadings' = HeardReadings
  BY <1>0, <1>1, <1>2 DEF HeardReadings, ScenarioReadings, latest, At
<1>5. OutageFails' /\ OutageRaised' /\ InFlight' /\ NothingFails'
  BY <1>2, <1>3 DEF OutageFails, OutageRaised, InFlight, NothingFails, At
<1>a. FullHasCause' /\ ReceiptsGrow'
  <2>1. FullHasCause'
    BY <1>0, <1>1, <1>2 DEF CauseInv, FullHasCause
  <2>2. ReceiptsGrow'
    BY <1>1, <1>2 DEF CauseInv, ReceiptsGrow, At
  <2>. QED
    BY <2>1, <2>2
<1>6. ASSUME Uninterrupted PROVE Attended'
  <2>1. Attended
    BY <1>6 DEF CauseInv
  <2>2. Settled'
    BY <1>0, <1>1, <1>2, <1>3, <2>1 DEF Attended, Settled, At
  <2>3. AllHeard' /\ OutageNoticed'
    BY <1>1, <1>2, <1>4, <2>1 DEF Attended, AllHeard, OutageNoticed, At
  <2>4. ReceiptsMatch'
    BY <1>0, <1>1, <1>2, <1>3, <2>1 DEF Attended, ReceiptsMatch, At
  <2>. QED
    BY <1>5, <2>2, <2>3, <2>4 DEF Attended
<1>7. AllAcknowledged => AllAcknowledged'
  BY <1>2, <1>4 DEF AllAcknowledged
<1>. QED
  BY <1>1, <1>5, <1>6, <1>7, <1>a DEF CauseInv, Uninterrupted, Untroubled

\* An answer, or none, leads away from the wait, and in an outage to no exception.
LEMMA HeardPlace ==
  ASSUME TypeOK, ControlInv, At({"wait"}), NEW status, HeardMoves(script', status)
  PROVE  /\ ~At({"wait"})' /\ scenario' = scenario
         /\ OutageRaised' /\ OutageFails' /\ InFlight' /\ NothingFails'
<1>0. /\ scenario \in Scenario
      /\ scenario \in {"latency", "delivery", "outage"} => script.n < samples
  BY ScenarioType DEF ControlInv, At
<1>1. scenario' = scenario
  BY ScenarioStays DEF HeardMoves, SameScenario
<1>2. CASE scenario \in {"delivery", "outage"}
  <2>1. script.n + 1 \in 0 .. Count
    BY <1>0, <1>2, ScenarioType, BoundsAreNaturals DEF TypeOK, ScriptState
  <2>2. script'.step \in {"final", "snapshot", "start", "send"}
    BY <1>2, <2>1, NextHead DEF HeardMoves
  <2>. QED
    BY <1>1, <2>2 DEF OutageRaised, OutageFails, InFlight, NothingFails, At
<1>3. CASE scenario \notin {"delivery", "outage"}
  <2>1. script'.step \in {"after", "look", "send", "poll", "restore", "ended"}
    <3>1. CASE scenario = "latency"
      BY <3>1 DEF HeardMoves
    <3>2. CASE scenario = "recovery"
      BY <3>2 DEF HeardMoves, Fails
    <3>3. CASE scenario \in Detection
      BY <3>3 DEF HeardMoves, Fails
    <3>. QED
      BY <1>0, <1>3, <3>1, <3>2, <3>3 DEF Scenario
  <2>. QED
    BY <1>1, <1>3, <2>1 DEF OutageRaised, OutageFails, InFlight, NothingFails, At
<1>. QED
  BY <1>2, <1>3

\* Without an answer, a hop has given up or a process has ended.
LEMMA Interrupted ==
  ASSUME ScenarioInv, CauseInv, ConnectionBreaks \/ GiveUp
  PROVE  causes' \cap {"timeout", "crash"} # {}
<1>1. CASE GiveUp
  BY <1>1 DEF GiveUp
<1>2. CASE ConnectionBreaks
  <2>1. /\ At({"wait"}) /\ causes' = causes
        /\ \/ gateway[latest] = "none"
           \/ gateway[latest] = "sent" /\ services["gateway"] # "up"
    BY <1>2 DEF ConnectionBreaks
  <2>2. ASSUME Uninterrupted PROVE FALSE
    <3>1. gateway[latest] # "none"
      BY <2>1, <2>2 DEF CauseInv, Attended, InFlight
    <3>2. "crash" \notin causes /\ scenario # "gateway-outage"
      BY <2>1, <2>2, ScenarioType
         DEF Uninterrupted, ScenarioInv, ControlInv, StepsOf, Scenario, Detection, At
    <3>3. services["gateway"] = "up"
      BY <2>1, <3>2 DEF ScenarioInv, ServicesInv, Service, Outage, At
    <3>. QED
      BY <2>1, <3>1, <3>3
  <2>. QED
    BY <2>1, <2>2 DEF Uninterrupted
<1>. QED
  BY <1>1, <1>2

LEMMA CauseHeard ==
  ASSUME ScenarioInv, DataInv, CauseInv, HearAnswer \/ ConnectionBreaks \/ GiveUp
  PROVE  CauseInv'
<1>0. TypeOK /\ ControlInv /\ At({"wait"})
  BY DEF ScenarioInv, HearAnswer, ConnectionBreaks, GiveUp
<1>a. FullHasCause'
  <2>1. gateway \in [Reading -> {"none", "sent", "forwarding", "failing", "ok", "bad", "full"}]
    BY <1>0 DEF TypeOK
  <2>2. causes \subseteq causes' /\ (gateway' = gateway \/ gateway' = [gateway EXCEPT ![latest] = "none"])
    BY DEF HearAnswer, ConnectionBreaks, GiveUp, LeavesStack
  <2>. QED
    BY <2>1, <2>2 DEF CauseInv, FullHasCause
<1>b. ReceiptsGrow'
  <2>1. counters' = counters /\ causes \subseteq causes'
    BY DEF HearAnswer, ConnectionBreaks, GiveUp, LeavesStack
  <2>2. PICK status : HeardMoves(script', status)
    BY <1>0, HearAnswerOutcome, GiveUpOutcome
  <2>3. script'.before = script.before /\ scenario' = scenario
    BY <2>2, ScenarioStays DEF HeardMoves, SameScenario
  <2>. QED
    BY <1>0, <2>1, <2>3 DEF CauseInv, ReceiptsGrow, At
<1>1. CASE ConnectionBreaks \/ GiveUp
  <2>1. HeardMoves(script', None)
    BY <1>0, <1>1, GiveUpOutcome
  <2>2. OutageRaised' /\ OutageFails'
    BY <1>0, <2>1, HeardPlace
  <2>3. ~Uninterrupted' /\ ~Untroubled'
    BY <1>1, Interrupted DEF Uninterrupted, Untroubled
  <2>. QED
    BY <1>a, <1>b, <2>2, <2>3 DEF CauseInv
<1>2. CASE HearAnswer
  <2> DEFINE status == StatusOf(gateway[latest])
  <2>0. /\ rows' = rows /\ counters' = counters /\ cloud' = cloud /\ causes' = causes
        /\ gateway' = [gateway EXCEPT ![latest] = "none"] /\ gateway[latest] \in Answers
        /\ gateway \in [Reading -> {"none", "sent", "forwarding", "failing", "ok", "bad", "full"}]
        /\ script.statuses \in [Reading -> Status \cup {None}]
        /\ script.sent \in Nat /\ script.first \in Nat /\ script.first < script.sent
        /\ script.n \in Nat
    BY <1>0, <1>2, BoundsAreNaturals DEF HearAnswer, TypeOK, ControlInv, At, ScriptState
  <2>1. /\ latest \in Reading /\ HeardMoves(script', status)
        /\ script'.statuses = [script.statuses EXCEPT ![latest] = status]
    BY <1>0, <1>2, HearAnswerOutcome
  <2>2. /\ OutageRaised' /\ OutageFails' /\ InFlight' /\ NothingFails'
        /\ ~At({"wait"})' /\ scenario' = scenario
    BY <1>0, <2>1, HeardPlace
  <2>3. /\ script'.sent = script.sent /\ script'.first = script.first
        /\ script'.before = script.before
    BY <2>1 DEF HeardMoves, SameScenario
  <2>4. HeardReadings' = HeardReadings \cup {latest} /\ latest \notin HeardReadings
    BY <1>0, <2>0, <2>2, <2>3 DEF HeardReadings, ScenarioReadings, latest
  <2>5. /\ script'.statuses[latest] = status
        /\ \A r \in HeardReadings : script'.statuses[r] = script.statuses[r]
    <3>1. HeardReadings \subseteq Reading
      BY <1>0, ScenarioReadingsType DEF HeardReadings, TypeOK
    <3>. QED
      BY <2>0, <2>1, <2>4, <3>1
  <2>a. status = 200 <=> gateway[latest] = "ok"
    BY <2>0, StatusType
  <2>b. status \in Status
    BY <2>0, StatusType
  <2> HIDE DEF status
  <2>6. ASSUME Uninterrupted PROVE Attended'
    <3>1. Attended
      BY <2>6 DEF CauseInv
    <3>2. /\ cloud[latest] \in {"none", "ended"}
          /\ gateway[latest] # "ok" => rows[latest] = 0
      BY <1>0, <2>0, <3>1 DEF Attended, InFlight, Answers
    <3>3. Settled'
      BY <2>0, <2>2, <3>1, <3>2 DEF Attended, Settled
    <3>4. AllHeard'
      BY <2>0, <2>4, <2>5, <2>a, <2>b, <3>1, <3>2, NoneIsNoValue DEF Attended, AllHeard
    <3>5. ReceiptsMatch'
      <4> SUFFICES ASSUME scenario = "latency"
                   PROVE  ReceiptsMatch'
        BY <2>2 DEF ReceiptsMatch
      <4>1. script'.step = "after" /\ latest' = latest
        BY <2>1, <2>3 DEF HeardMoves, latest
      <4>2. counters["received"] = script.before + IF status = 200 THEN 1 ELSE 0
        BY <1>0, <2>a, <3>1, <3>2 DEF Attended, ReceiptsMatch
      <4>. QED
        BY <2>0, <2>3, <2>5, <4>1, <4>2 DEF ReceiptsMatch, At
    <3>6. OutageNoticed'
      <4> SUFFICES ASSUME scenario = "outage", script'.n > stop_at
                   PROVE  \E r \in HeardReadings' : script'.statuses[r] # 200
        BY <2>2 DEF OutageNoticed, stop_at
      <4>1. script'.n = script.n + 1
        BY <2>1 DEF HeardMoves
      <4>2. CASE script.n > stop_at
        <5>1. PICK r \in HeardReadings : script.statuses[r] # 200
          BY <1>0, <3>1, <4>2 DEF Attended, OutageNoticed, At
        <5>. QED
          BY <2>4, <2>5, <5>1
      <4>3. CASE script.n <= stop_at
        <5>1. script.n \in stop_at .. start_at - 1
          BY <2>0, <4>1, <4>3, OutageInside
        <5>2. gateway[latest] # "ok"
          BY <1>0, <5>1 DEF CauseInv, OutageFails, HasStopped, At
        <5>. QED
          BY <2>4, <2>5, <2>a, <5>2
      <4>. QED
        BY <2>0, <4>2, <4>3, OutageInside
    <3>. QED
      BY <2>2, <3>3, <3>4, <3>5, <3>6 DEF Attended
  <2>7. ASSUME Untroubled PROVE AllAcknowledged'
    <3> SUFFICES ASSUME scenario \in {"latency", "delivery"}
                 PROVE  status = 200
      BY <2>2, <2>4, <2>5, <2>7 DEF AllAcknowledged, CauseInv
    <3>1. ~HasStopped /\ ~CloudComesBack
      BY <1>0 DEF HasStopped, CloudComesBack, At
    <3>. QED
      BY <1>0, <2>0, <2>7, <2>a, <3>1 DEF CauseInv, NothingFails, Answers
  <2>. QED
    BY <1>a, <1>b, <2>0, <2>2, <2>6, <2>7 DEF CauseInv, Uninterrupted, Untroubled
<1>. QED
  BY <1>1, <1>2

LEMMA CauseStep ==
  ASSUME ScenarioInv, ScenarioInv', DataInv, CauseInv, [Next]_vars
  PROVE  CauseInv'
<1>1. CASE ScenarioStep
  BY <1>1, CauseSend, CauseHeard, CauseQuiet
<1>2. CASE StackStep
  <2>1. causes \subseteq causes'
    BY <1>2, CausesStay
  <2>2. OutageFails' /\ OutageRaised'
    BY <1>2, OutageFailsStack DEF CauseInv
  <2>3. Uninterrupted' => Attended'
    <3>1. Uninterrupted' => Uninterrupted
      BY <2>1 DEF Uninterrupted
    <3>. QED
      BY <1>2, <3>1, AttendedStack DEF ScenarioInv, CauseInv
  <2>4. Untroubled' => NothingFails' /\ AllAcknowledged'
    <3>1. Untroubled' => Untroubled /\ Uninterrupted
      BY <2>1 DEF Untroubled, Uninterrupted
    <3>. QED
      BY <1>2, <3>1, NothingFailsStack DEF CauseInv
  <2>5. FullHasCause' /\ ReceiptsGrow'
    BY <1>2, Lasting DEF ScenarioInv, CauseInv
  <2>. QED
    BY <2>2, <2>3, <2>4, <2>5 DEF CauseInv
<1>3. CASE UNCHANGED vars
  BY <1>3 DEF vars, CauseInv, OutageFails, OutageRaised, Attended, Settled, InFlight,
     AllHeard, ReceiptsMatch, OutageNoticed, NothingFails, AllAcknowledged, HeardReadings,
     ScenarioReadings, HasStopped, CloudComesBack, At, latest, scenario, Uninterrupted,
     Untroubled, FullHasCause, ReceiptsGrow
<1>. QED
  BY <1>1, <1>2, <1>3, ScenarioSteps DEF ScenarioInv

\* Where a scenario concludes, its requirements hold unless something has gone wrong.
LEMMA RequirementsHold ==
  ASSUME ScenarioInv, DataInv, CauseInv, Untroubled,
         NEW s, s.first = script.first, s.sent = script.sent, s.statuses = script.statuses,
         scenario = "latency" => At({"after"}),
         scenario \in {"delivery", "outage"} => At({"final"}) /\ s.summary = FinalCounts,
         scenario = "recovery" => s.retained = TRUE
  PROVE  Required(s)
<1> DEFINE ids == ScenarioReadings(script)
           acked == Acknowledged(script)
<1>0. /\ TypeOK /\ scenario \in Scenario
      /\ ScenarioReadings(s) = ids /\ Acknowledged(s) = acked
  BY ScenarioType DEF ScenarioInv, ScenarioReadings, Acknowledged
<1>1. /\ ids \subseteq Reading /\ acked \subseteq ids
      /\ \A r \in ids : r \in acked <=> script.statuses[r] = 200
  BY <1>0, ScenarioReadingsType DEF TypeOK, Acknowledged
<1>2. Attended /\ NothingFails /\ AllAcknowledged
  BY DEF CauseInv, Untroubled, Uninterrupted
<1>3. At({"after"}) \/ At({"final"}) => HeardReadings = ids
  BY DEF HeardReadings, At
<1>4. ~(scenario \in {"latency", "delivery", "outage", "recovery"}) => Required(s)
  BY DEF Required
<1>5. CASE scenario = "latency"
  <2>1. \A r \in ids : script.statuses[r] = 200
    BY <1>2, <1>3, <1>5 DEF AllAcknowledged
  <2>2. acked = ids
    BY <1>1, <2>1
  <2>. QED
    BY <1>0, <1>5, <2>2 DEF Required
<1>6. ASSUME scenario \in {"delivery", "outage"}
      PROVE  s.summary.duplicates = 0
  <2>1. \A r \in ids : rows[r] <= 1
    BY <1>1 DEF DataInv, Accounted
  <2>. QED
    BY <1>0, <1>6, <2>1, FinalCountsType
<1>7. CASE scenario = "delivery"
  <2>1. \A r \in ids : script.statuses[r] = 200
    BY <1>2, <1>3, <1>7 DEF AllAcknowledged
  <2>2. acked = ids
    BY <1>1, <2>1
  <2>3. \A r \in ids : rows[r] > 0
    BY <1>1, <2>1 DEF DataInv, Accounted
  <2>4. s.summary.missing_final = 0 /\ s.summary.not_acknowledged = 0
    BY <1>0, <1>7, <2>2, <2>3, FinalCountsType
  <2>. QED
    BY <1>6, <1>7, <2>4 DEF Required
<1>8. CASE scenario = "outage"
  <2>0. /\ rows \in [Reading -> Nat] /\ script.before_stop \in [Reading -> Nat]
        /\ At({"final"}) /\ s.summary = FinalCounts
    BY <1>0, <1>8 DEF TypeOK, ScriptState, Snapshot
  <2>1. \A r \in ids : script.statuses[r] # None /\ (script.statuses[r] # 200 => rows[r] = 0)
    BY <1>2, <1>3, <2>0 DEF Attended, AllHeard
  <2>2. \A r \in ids \ acked : rows[r] = 0 /\ script.before_stop[r] = 0
    <3>1. \A r \in ids \ acked : rows[r] = 0
      BY <1>0, <1>1, <2>1 DEF TypeOK, ScriptState
    <3>2. \A r \in ids : script.before_stop[r] <= rows[r]
      BY <1>1 DEF DataInv, Accounted
    <3>. QED
      BY <1>1, <2>0, <3>1, <3>2
  <2>3. PICK r \in ids : script.statuses[r] # 200
    <3>1. script.n = Count
      BY <1>8, <2>0 DEF ScenarioInv, ControlInv
    <3>2. script.n > stop_at
      BY <3>1, OutageInside, BoundsAreNaturals
    <3>. QED
      BY <1>2, <1>3, <1>8, <2>0, <3>2 DEF Attended, OutageNoticed, At
  <2>4. r \in ids \ acked
    BY <1>1, <2>3
  <2>5. \A q \in acked : rows[q] > 0
    BY <1>1 DEF DataInv, Accounted
  <2>6. FinalCounts.not_acknowledged # 0 /\ FinalCounts.never_observed # 0
    BY <1>0, <2>2, <2>4, FinalCountsType
  <2>7. FinalCounts.acknowledged_never_observed = 0 /\ FinalCounts.failed_but_observed = 0
    <3>1. \A q \in ids \ acked : ~(rows[q] > 0 \/ script.before_stop[q] > 0)
      BY <2>2
    <3>. QED
      BY <1>0, <2>5, <3>1, FinalCountsType
  <2>8. FinalCounts.not_acknowledged > 0 /\ FinalCounts.never_observed > 0
    <3>1. FinalCounts.not_acknowledged \in Nat /\ FinalCounts.never_observed \in Nat
      BY <1>0, FinalCountsType DEF Counts
    <3>. QED
      BY <2>6, <3>1
  <2>9. \A q \in ScenarioReadings(s) : s.statuses[q] # None
    BY <1>0, <2>1
  <2>. QED
    BY <1>6, <1>8, <2>0, <2>7, <2>8, <2>9 DEF Required
<1>9. CASE scenario = "recovery"
  BY <1>9 DEF Required
<1>. QED
  BY <1>4, <1>5, <1>7, <1>8, <1>9

\* What the script has raised has its cause.
ErrorHasCause ==
  /\ script.error = "receipt delta" => ~Uninterrupted
  /\ script.error = "counter reset" => "crash" \in causes
  /\ script.error \in {"requirement", "unexpected status", "marker not stored"} => ~Untroubled

LEMMA ErrorsAreCaused ==
  ASSUME ScenarioInv, PollInv, DataInv, CauseInv, ErrorHasCause, ScenarioStep
  PROVE  ErrorHasCause'
<1>0. /\ TypeOK /\ ControlInv /\ scenario \in Scenario
      /\ script.step \in StepsOf(scenario)
  BY ScenarioType DEF ScenarioInv, ControlInv
<1>1. /\ causes \subseteq causes'
      /\ Uninterrupted' => Uninterrupted
      /\ Untroubled' => Untroubled
  BY ScenarioCausesStay DEF Uninterrupted, Untroubled
<1>a. script'.error = script.error => ErrorHasCause'
  BY <1>1 DEF ErrorHasCause
<1>b. script'.error \in {"request failed", "command failed", "unhealthy", "not observed",
                         "not recovered"} => ErrorHasCause'
  BY DEF ErrorHasCause
<1>c. ASSUME NEW s, Concludes(s, script'), s.first = script.first, s.sent = script.sent,
             s.statuses = script.statuses, s.error = script.error,
             scenario = "latency" => At({"after"}),
             scenario \in {"delivery", "outage"} => At({"final"}) /\ s.summary = FinalCounts,
             scenario = "recovery" => s.retained = TRUE
      PROVE  ErrorHasCause'
  <2>1. CASE script'.error = script.error
    BY <1>a, <2>1
  <2>2. CASE script'.error = "requirement" /\ ~Required(s)
    <3>1. ~Untroubled
      BY <1>c, <2>2, RequirementsHold
    <3>. QED
      BY <1>1, <2>2, <3>1 DEF ErrorHasCause
  <2>. QED
    BY <1>c, <2>1, <2>2 DEF Concludes
<1>d. \A fields : Keeps(script', fields) /\ "error" \notin fields => ErrorHasCause'
  BY <1>a DEF Keeps
<1>e. \A step, k : Proceeds(script', step, k) => ErrorHasCause'
  BY <1>a DEF Proceeds
<1>2. CASE Send \/ ReadBefore \/ TakeSnapshot \/ Stop \/ Start
  BY <1>0, <1>2, <1>d, SendOutcome, ReadBeforeOutcome, TakeSnapshotOutcome, StopOutcome,
     StartOutcome
<1>3. CASE InjectInvalidEnvelope \/ Restart \/ Restore
  BY <1>0, <1>3, <1>e, InjectOutcome, RestartOutcome, RestoreOutcome
<1>4. CASE RequestFails \/ CeilingPasses \/ StaysUnhealthy \/ CommandFails
  BY <1>0, <1>4, <1>b, RequestFailsOutcome, CeilingOutcome, StaysUnhealthyOutcome,
     CommandFailsOutcome DEF Fails
<1>f. ASSUME NEW status, HeardMoves(script', status)
      PROVE  \/ script'.error = script.error
             \/ script'.error \in {"unexpected status", "marker not stored"}
  <2>1. CASE scenario = "recovery"
    BY <1>f, <2>1 DEF HeardMoves, Fails
  <2>2. CASE scenario \in Detection
    BY <1>f, <2>2 DEF HeardMoves, Fails
  <2>3. CASE scenario \in {"latency", "delivery", "outage"}
    BY <1>f, <2>3 DEF HeardMoves
  <2>. QED
    BY <1>0, <2>1, <2>2, <2>3 DEF Scenario
<1>5. CASE ConnectionBreaks \/ GiveUp
  <2>1. ~Untroubled'
    BY <1>5, Interrupted DEF Untroubled
  <2>2. \/ script'.error = script.error
        \/ script'.error \in {"unexpected status", "marker not stored"}
    BY <1>0, <1>5, <1>f, GiveUpOutcome
  <2>. QED
    BY <1>a, <2>1, <2>2 DEF ErrorHasCause
<1>6. CASE HearAnswer
  <2> DEFINE status == StatusOf(gateway[latest])
  <2>1. HeardMoves(script', status)
    BY <1>0, <1>6, HearAnswerOutcome
  <2>2. At({"wait"}) /\ gateway[latest] \in Answers
    BY <1>6 DEF HearAnswer
  <2>3. CASE script'.error = script.error
    BY <1>a, <2>3
  <2>4. CASE ~Untroubled' /\ script'.error \in {"unexpected status", "marker not stored"}
    BY <2>4 DEF ErrorHasCause
  <2>5. CASE Untroubled' /\ script'.error # script.error
    <3>0. Untroubled /\ latest \in Reading
      BY <1>0, <1>1, <1>6, <2>5, HearAnswerOutcome
    <3>1. ~HasStopped /\ ~CloudComesBack => status = 200
      <4>1. ~HasStopped /\ ~CloudComesBack => gateway[latest] = "ok"
        BY <2>2, <3>0 DEF CauseInv, NothingFails, Answers
      <4>. QED
        BY <2>2, <4>1, StatusType
    <3>2. HasStopped => status = 502
      <4>1. HasStopped => gateway[latest] = "bad"
        BY <2>2, <3>0 DEF CauseInv, OutageFails, FullHasCause, Untroubled, Answers
      <4>. QED
        BY <2>2, <4>1, StatusType
    <3>3. CASE scenario = "recovery"
      <4>1. status # 200 /\ script.n = 0
        BY <2>1, <2>5, <3>3 DEF HeardMoves
      <4>2. ~HasStopped /\ ~CloudComesBack
        BY <2>2, <3>3, <4>1 DEF HasStopped, CloudComesBack, At
      <4>. QED
        BY <3>1, <4>1, <4>2
    <3>4. CASE scenario \in Detection
      <4>1. scenario \in {"cloud-outage", "sensor-sentinel"}
        BY <1>0, <2>2, <3>4 DEF StepsOf, At, Detection
      <4>2. status # IF scenario = "cloud-outage" THEN 502 ELSE 200
        BY <2>1, <2>5, <3>4 DEF HeardMoves
      <4>3. IF scenario = "cloud-outage" THEN HasStopped ELSE ~HasStopped /\ ~CloudComesBack
        BY <2>2, <4>1 DEF HasStopped, CloudComesBack, At
      <4>. QED
        BY <3>1, <3>2, <4>1, <4>2, <4>3
    <3>5. CASE scenario \in {"latency", "delivery", "outage"}
      BY <2>1, <2>5, <3>5 DEF HeardMoves
    <3>. QED
      BY <1>0, <3>3, <3>4, <3>5 DEF Scenario
  <2>. QED
    BY <1>f, <2>1, <2>3, <2>4, <2>5
<1>7. CASE CompareReceipts
  <2>1. scenario = "latency" /\ At({"after"})
    BY <1>0, <1>7, CompareOutcome DEF CompareReceipts
  <2>2. CASE Concludes(script, script')
    BY <1>c, <2>1, <2>2
  <2>3. CASE \/ Fails(script', "counter reset") /\ increase < 0
             \/ /\ Fails(script', "receipt delta") /\ increase # 1
                /\ script.statuses[latest] = 200
    <3>1. counters["received"] \in Nat /\ script.before \in Nat
      BY <1>0 DEF TypeOK, CounterNames, CloudCounters, ScriptState
    <3>2. increase = counters["received"] - script.before
      BY <2>1 DEF increase, Watched
    <3>3. increase < 0 => "crash" \in causes
      BY <2>1, <3>1, <3>2 DEF CauseInv, ReceiptsGrow, At
    <3>4. ASSUME Uninterrupted, increase # 1, script.statuses[latest] = 200 PROVE FALSE
      <4>1. increase = 1
        BY <2>1, <3>1, <3>2, <3>4 DEF CauseInv, Attended, ReceiptsMatch
      <4>. QED
        BY <3>4, <4>1
    <3>. QED
      BY <1>1, <2>3, <3>3, <3>4 DEF ErrorHasCause, Fails
  <2>. QED
    BY <1>0, <1>7, <1>e, <2>2, <2>3, CompareOutcome
<1>8. CASE TakeFinal
  <2>1. PICK s \in ScriptState :
          Concludes(s, script') /\ Keeps(s, {"summary"}) /\ s.summary = FinalCounts
    BY <1>0, <1>8, TakeFinalOutcome
  <2>2. At({"final"}) /\ scenario \in {"delivery", "outage"}
    BY <1>0, <1>8 DEF TakeFinal, StepsOf, At, Scenario, Detection
  <2>3. /\ s.first = script.first /\ s.sent = script.sent
        /\ s.statuses = script.statuses /\ s.error = script.error
    BY <2>1 DEF Keeps
  <2>. QED
    BY <1>c, <2>1, <2>2, <2>3
<1>9. CASE Look
  <2>0. At({"look"}) /\ script.n \in Nat
    <3>1. At({"look"})
      BY <1>9 DEF Look
    <3>. QED
      BY <1>0, <3>1, BoundsAreNaturals DEF TypeOK, ScriptState
  <2>1. rows[latest] > 0
    BY <2>0 DEF DataInv, MarkerInv, latest
  <2>2. CASE \E s \in ScriptState :
               /\ Concludes(s, script') /\ Keeps(s, {"retained"})
               /\ s.retained = (rows[script.first + 1] > 0) /\ script.n # 0
    <3>1. PICK s \in ScriptState :
               /\ Concludes(s, script') /\ Keeps(s, {"retained"})
               /\ s.retained = (rows[script.first + 1] > 0) /\ script.n # 0
      BY <2>2
    <3>2. scenario = "recovery"
      BY <1>0, <1>9, LookOutcome
    <3>3. rows[script.first + 1] = 1
      BY <2>0, <3>1, <3>2 DEF DataInv, MarkerInv, At
    <3>4. s.retained = TRUE
      <4>1. (rows[script.first + 1] > 0) = TRUE
        BY <3>3
      <4>. QED
        BY <3>1, <4>1, Zenon
    <3>5. /\ s.first = script.first /\ s.sent = script.sent
          /\ s.statuses = script.statuses /\ s.error = script.error
      BY <3>1 DEF Keeps
    <3>. QED
      BY <1>c, <3>1, <3>2, <3>4, <3>5
  <2>. QED
    BY <1>0, <1>9, <1>e, <2>1, <2>2, LookOutcome
<1>10. CASE Poll
  <2>1. At({"poll"}) /\ scenario \notin {"latency", "delivery", "outage", "recovery"}
    BY <1>0, <1>10 DEF Poll, StepsOf, At
  <2>2. CASE script' = script
    BY <1>a, <2>2
  <2>3. CASE Concludes(script, script')
    BY <1>c, <2>1, <2>3
  <2>4. scenario # "gateway-outage" /\ increase < 0 => "crash" \in causes
    <3>1. counters[Watched] \in Nat /\ script.before \in Nat
      BY <1>0, WatchedType DEF TypeOK, ScriptState
    <3>. QED
      BY <2>1, <3>1 DEF PollInv, increase
  <2>5. CASE Fails(script', "counter reset") /\ scenario # "gateway-outage" /\ increase < 0
    BY <1>1, <2>4, <2>5 DEF ErrorHasCause, Fails
  <2>. QED
    BY <1>0, <1>10, <1>e, <2>2, <2>3, <2>5, PollOutcome
<1>11. CASE BecomesHealthy
  <2>1. CASE At({"restored"}) /\ script.error = None
    <3>1. scenario \notin {"latency", "delivery", "outage", "recovery"}
      BY <1>0, <2>1 DEF CauseInv, OutageRaised, StepsOf, At
    <3>2. PICK s \in ScriptState :
            Concludes(s, script') /\ Keeps(s, {"stopped"}) /\ s.stopped = None
      BY <1>0, <1>11, <2>1, BecomesHealthyOutcome DEF At
    <3>3. /\ s.first = script.first /\ s.sent = script.sent
          /\ s.statuses = script.statuses /\ s.error = script.error
      BY <3>2 DEF Keeps
    <3>. QED
      BY <1>c, <3>1, <3>2, <3>3
  <2>. QED
    BY <1>0, <1>11, <1>d, <1>e, <2>1, BecomesHealthyOutcome
<1>. QED
  BY <1>2, <1>3, <1>4, <1>5, <1>6, <1>7, <1>8, <1>9, <1>10, <1>11 DEF ScenarioStep

LEMMA VerdictsStep ==
  ASSUME ScenarioInv, ScenarioInv', PollInv, DataInv, CauseInv, VerdictsHaveACause,
         [Next]_vars
  PROVE  VerdictsHaveACause'
<1>0. VerdictsHaveACause <=>
        /\ script.summary # None /\ script.summary.failed_but_observed > 0 =>
             ~Uninterrupted
        /\ ErrorHasCause
  BY DEF VerdictsHaveACause, ErrorHasCause, Uninterrupted, Untroubled
<1>1. causes \subseteq causes' /\ (~Uninterrupted => ~Uninterrupted')
  BY CausesStay, ScenarioCausesStay, ScenarioSteps DEF ScenarioInv, Uninterrupted
<1>p. VerdictsHaveACause' <=>
        /\ script'.summary # None /\ script'.summary.failed_but_observed > 0 =>
             ~Uninterrupted'
        /\ ErrorHasCause'
  BY DEF VerdictsHaveACause, ErrorHasCause, Uninterrupted, Untroubled
<1>2. CASE ScenarioStep
  <2>1. ErrorHasCause'
    BY <1>0, <1>2, ErrorsAreCaused
  <2>2. CASE script'.summary = script.summary
    BY <1>0, <1>1, <1>p, <2>1, <2>2
  <2>3. CASE TakeFinal /\ script'.summary = FinalCounts
    <3>1. TypeOK /\ At({"final"}) /\ causes' = causes
      BY <2>3 DEF ScenarioInv, TakeFinal
    <3>2. ASSUME Uninterrupted PROVE FinalCounts.failed_but_observed = 0
      <4>1. HeardReadings = ScenarioReadings(script)
        BY <3>1 DEF HeardReadings, At
      <4>2. \A r \in ScenarioReadings(script) :
              script.statuses[r] # None /\ (script.statuses[r] # 200 => rows[r] = 0)
        BY <3>2, <4>1 DEF CauseInv, Attended, AllHeard
      <4>3. /\ ScenarioReadings(script) \subseteq Reading
            /\ rows \in [Reading -> Nat] /\ script.before_stop \in [Reading -> Nat]
            /\ script.statuses \in [Reading -> Status \cup {None}]
        BY <3>1, ScenarioReadingsType DEF TypeOK, ScriptState, Snapshot
      <4>4. \A r \in ScenarioReadings(script) : script.before_stop[r] <= rows[r]
        BY <4>3 DEF DataInv, Accounted
      <4>5. \A r \in ScenarioReadings(script) \ Acknowledged(script) : rows[r] = 0
        BY <4>2, <4>3 DEF Acknowledged
      <4>6. \A r \in ScenarioReadings(script) \ Acknowledged(script) :
              ~(rows[r] > 0 \/ script.before_stop[r] > 0)
        BY <4>3, <4>4, <4>5
      <4>. QED
        BY <3>1, <4>6, FinalCountsType
    <3>3. FinalCounts.failed_but_observed > 0 => ~Uninterrupted
      BY <3>2
    <3>. QED
      BY <1>1, <1>p, <2>1, <2>3, <3>3
  <2>. QED
    BY <1>2, <2>2, <2>3, ResultsStay DEF ScenarioInv
<1>3. CASE StackStep \/ UNCHANGED vars
  <2>1. script' = script
    BY <1>3, StackTypeStep, TypeParts DEF ScenarioInv, vars
  <2>. QED
    BY <1>1, <2>1 DEF VerdictsHaveACause
<1>. QED
  BY <1>2, <1>3, ScenarioSteps DEF ScenarioInv

-----------------------------------------------------------------------------
(* Before the first scenario, and from there on.                             *)

\* Nothing has been noted on readings and results.
Fresh ==
  /\ script.stage = 1 /\ script.n = 0 /\ script.sent = 0 /\ script.first = 0
  /\ script.statuses = [r \in Reading |-> None] /\ script.before = 0
  /\ script.before_stop = NoRows
  /\ script.stopped = None /\ script.summary = None /\ script.retained = None

\* No reading is or has been in the stack, and nobody has stopped a service.
Untouched ==
  /\ \A r \in Reading : gateway[r] = "none" /\ cloud[r] = "none" /\ rows[r] = 0
  /\ counters = [c \in CounterNames |-> 0]
  /\ \A s \in Service : services[s] # "down"

Runs(s) == services[s] = "up" \/ "crash" \in causes

\* The preparation changes nothing, and has seen up what it has waited for.
Quiet ==
  /\ At(Preparation) /\ Fresh /\ Untouched /\ script.error = None
  /\ At({"baseline", "settle", "malformed"}) => isolated
  /\ At({"settle"}) => script.baseline = counters
  /\ At({"await gateway"}) => Runs("cloud")
  /\ isolated /\ At({"verify", "baseline", "settle", "malformed"}) =>
       \A s \in Service : Runs(s)

\* It leads to the first scenario, or to an error.
Begun ==
  /\ Fresh /\ Untouched
  /\ \/ /\ script.step = FirstStep(scenario) /\ script.error = None
        /\ \A s \in Service : Runs(s)
     \/ /\ At({"ended"})
        /\ script.error \in {"wrong target", "unhealthy", "request failed"}

\* What the scenarios keep true, once the preparation is over.
MeasureInv ==
  /\ ControlInv /\ ServicesInv /\ PollInv /\ DataInv /\ CauseInv
  /\ AcknowledgementsAreObserved /\ VerdictsHaveACause

EvaluationInv == TypeOK /\ (Quiet \/ MeasureInv)

LEMMA QuietInit == Init => TypeOK /\ Quiet
<1> SUFFICES ASSUME Init PROVE TypeOK /\ Quiet
  OBVIOUS
<1> USE BoundsAreNaturals, EnoughSamples
<1>1. PICK p \in Plans :
        script = [plan |-> p, stage |-> 1, step |-> Opening(p), n |-> 0, sent |-> 0,
                  first |-> 0, statuses |-> [r \in Reading |-> None], before |-> 0,
                  baseline |-> None, before_stop |-> NoRows, stopped |-> None,
                  summary |-> None, retained |-> None, error |-> None]
  BY DEF Init
<1>2. Opening(p) \in {"verify", "await cloud"} /\ (p = IsolatedPlan => Opening(p) = "await cloud")
  BY DEF Opening
<1>3. p \in Seq(Scenario) /\ p # <<>>
  BY PlansAreScenarios
<1>4. 1 \in DOMAIN p
  BY <1>3
<1>5. script \in ScriptState
  <2>1. Opening(p) \in Steps
    BY <1>2 DEF Steps, Preparation
  <2>2. NoRows \in Snapshot
    BY DEF NoRows, Snapshot
  <2>3. 0 \in 0 .. Count + MaxAttempts /\ 0 \in 0 .. MaxSends
    OBVIOUS
  <2>. QED
    BY <1>1, <2>1, <2>2, <2>3 DEF ScriptState
<1>6. ScriptType(script)
  BY <1>1, <1>4, <1>5 DEF ScriptType
<1>7. StackType
  <2>1. registry \in [known : Nat, limit : Nat] /\ registry.known <= registry.limit
    BY RegistriesAreBounded DEF Init
  <2>. QED
    BY <2>1 DEF Init, StackType, NoRows, Snapshot
<1>8. Fresh /\ script.error = None /\ script.step \in {"verify", "await cloud"}
      /\ (isolated => script.step = "await cloud")
  BY <1>1, <1>2 DEF Fresh, isolated
<1>9. Untouched
  BY DEF Init, Untouched, NoRows
<1>. QED
  BY <1>6, <1>7, <1>8, <1>9, TypeParts DEF Quiet, At, Preparation

\* A step of the preparation that goes on.
LEMMA Proceeding ==
  ASSUME TypeOK, Quiet, NEW step \in Steps,
         NEW a, a = script \/ a = [script EXCEPT !.baseline = counters],
         script' = [a EXCEPT !.step = step], LeavesStack, causes' = causes
  PROVE  /\ TypeOK' /\ Fresh' /\ Untouched' /\ script'.error = None /\ script'.step = step
         /\ scenario' = scenario /\ isolated' = isolated
         /\ \A s \in Service : Runs(s)' <=> Runs(s)
<1>1. script \in ScriptState /\ ScriptType(script) /\ counters \in [CounterNames -> Nat]
  BY TypeParts DEF ScriptType, StackType
<1>2. a \in ScriptState
  BY <1>1, Updates
<1>3. /\ a.plan = script.plan /\ a.stage = script.stage /\ a.n = script.n /\ a.sent = script.sent
      /\ a.first = script.first /\ a.statuses = script.statuses /\ a.before = script.before
      /\ a.before_stop = script.before_stop /\ a.stopped = script.stopped
      /\ a.summary = script.summary /\ a.retained = script.retained /\ a.error = script.error
  BY <1>1 DEF ScriptState
<1>4. script' \in ScriptState
  BY <1>2, Updates
<1>5. /\ script'.plan = a.plan /\ script'.stage = a.stage /\ script'.n = a.n /\ script'.sent = a.sent
      /\ script'.first = a.first /\ script'.statuses = a.statuses /\ script'.before = a.before
      /\ script'.before_stop = a.before_stop /\ script'.stopped = a.stopped
      /\ script'.summary = a.summary /\ script'.retained = a.retained /\ script'.error = a.error
      /\ script'.step = step
  BY <1>2 DEF ScriptState
<1>6. Fresh'
  BY <1>3, <1>5 DEF Quiet, Fresh, NoRows
<1>7. StackType'
  BY TypeParts DEF StackType, LeavesStack
<1>8. Untouched'
  BY DEF LeavesStack, Quiet, Untouched
<1>9. TypeOK'
  BY <1>1, <1>3, <1>4, <1>5, <1>7 DEF TypeOK, StackType, ScriptType
<1>. QED
  BY <1>3, <1>5, <1>6, <1>8, <1>9, ScenarioStays DEF Quiet, Runs, LeavesStack

\* An error ends the script: nothing has to be restored.
LEMMA EndsPreparation ==
  ASSUME TypeOK, Quiet, NEW reason \in {"wrong target", "unhealthy", "request failed"},
         \/ script' = Raise(script, reason)
         \/ script' = [script EXCEPT !.error = reason, !.step = "ended"],
         LeavesStack, causes' = causes
  PROVE  TypeOK' /\ Begun'
<1>0. reason \in Errors /\ script \in ScriptState /\ script.stopped = None
  BY DEF Errors, TypeOK, Quiet, Fresh
<1>1. script' = [script EXCEPT !.error = reason, !.step = "ended"]
  BY <1>0 DEF Raise
<1>2. script' \in ScriptState
  BY <1>0, <1>1, EndsWithError
<1>3. /\ script'.plan = script.plan /\ script'.stage = script.stage /\ script'.n = script.n
      /\ script'.sent = script.sent /\ script'.first = script.first
      /\ script'.statuses = script.statuses /\ script'.before = script.before
      /\ script'.before_stop = script.before_stop /\ script'.stopped = script.stopped
      /\ script'.summary = script.summary /\ script'.retained = script.retained
      /\ script'.error = reason /\ script'.step = "ended"
  BY <1>0, <1>1 DEF ScriptState
<1>4. Fresh'
  BY <1>3 DEF Quiet, Fresh, NoRows
<1>5. StackType'
  BY TypeParts DEF StackType, LeavesStack
<1>6. Untouched'
  BY DEF LeavesStack, Quiet, Untouched
<1>7. TypeOK'
  BY <1>2, <1>3, <1>5 DEF TypeOK, StackType
<1>. QED
  BY <1>3, <1>4, <1>6, <1>7 DEF Begun, At

\* In a stack without readings only services come and go.
LEMMA QuietStack ==
  ASSUME TypeOK, Quiet, StackStep
  PROVE  TypeOK' /\ Quiet'
<1>0. /\ StackType /\ ScriptType(script) /\ Untouched
      /\ services \in [Service -> {"up", "starting", "down", "dead"}]
  BY TypeParts DEF Quiet, StackType
<1>1. StackType' /\ script' = script
  BY <1>0, StackTypeStep
<1>2. TypeOK'
  BY <1>0, <1>1 DEF StackType, ScriptType, TypeOK
<1>3. causes \subseteq causes'
  BY CausesStay
<1>4. CASE \E s \in Service : BecomeReady(s)
  <2>1. /\ UNCHANGED <<gateway, cloud, rows, counters, causes>>
        /\ \A s \in Service : /\ services'[s] = services[s] \/ services'[s] = "up"
    BY <1>0, <1>4 DEF BecomeReady
  <2>2. Untouched' /\ \A s \in Service : Runs(s) => Runs(s)'
    BY <1>0, <2>1 DEF Untouched, Runs
  <2>. QED
    BY <1>1, <1>2, <2>1, <2>2 DEF Quiet, Fresh, At, isolated, Service
<1>5. CASE \E s \in Service : EndsByItself(s)
  <2>1. PICK s \in Service : EndsByItself(s)
    BY <1>5
  <2>2. "crash" \in causes' /\ \A q \in Service : services'[q] # "down"
    BY <1>0, <2>1 DEF EndsByItself, Untouched
  <2>3. \A r \in Reading : gateway'[r] = "none" /\ cloud'[r] = "none" /\ rows'[r] = 0
    BY <1>0, <2>1 DEF EndsByItself, EndProcess, Untouched
  <2>4. counters' = counters /\ counters' = [c \in CounterNames |-> 0]
    BY <1>0, <2>1 DEF EndsByItself, EndProcess, Untouched
  <2>5. Untouched' /\ \A q \in Service : Runs(q)'
    BY <2>2, <2>3, <2>4 DEF Untouched, Runs
  <2>. QED
    BY <1>1, <1>2, <2>4, <2>5 DEF Quiet, Fresh, At, isolated, Service
<1>6. ~\E r \in Reading :
         \/ RefuseDevice(r) \/ Arrive(r) \/ Commit(r) \/ FailStorage(r) \/ CountReceived(r)
         \/ AnswerStored(r) \/ ForwardFails(r) \/ ForwardTimesOut(r) \/ CountFailure(r)
  BY <1>0 DEF Untouched, RefuseDevice, Arrive, Commit, FailStorage, CountReceived,
     AnswerStored, AnswerFrom, ForwardFails, ForwardTimesOut, CountFailure
<1>. QED
  BY <1>4, <1>5, <1>6 DEF StackStep

\* The script's requests and waits before the first scenario.
LEMMA QuietScript ==
  ASSUME TypeOK, Quiet, ScriptStep \/ TargetVerified \/ TargetRefused
  PROVE  TypeOK' /\ (Quiet' \/ Begun')
<1>0. /\ script \in ScriptState /\ script.step \in Preparation /\ scenario \in Scenario
      /\ script.stopped = None /\ script.error = None
      /\ At({"baseline", "settle", "malformed"}) => isolated
  BY ScenarioType DEF TypeOK, Quiet, Fresh, At
<1>a. FirstStep(scenario) \in Steps
  BY <1>0, Beginning DEF Steps
<1>b. Preparation \subseteq Steps
  BY DEF Steps
<1>c. \A s \in Service : services[s] = "up" => Runs(s)
  BY DEF Runs
<1>1. CASE StackIsHealthy
  <2> DEFINE step == Following(script.step)
  <2>0. LeavesStack /\ causes' = causes /\ script' = [script EXCEPT !.step = step]
    BY <1>1 DEF StackIsHealthy, Proceed, Goes
  <2>1. CASE At({"await cloud"}) /\ services["cloud"] = "up"
    <3>1. step = "await gateway" /\ step \in Steps
      BY <1>b, <2>1 DEF Following, At, Preparation
    <3> HIDE DEF step
    <3>2. /\ TypeOK' /\ Fresh' /\ Untouched' /\ script'.error = None
          /\ script'.step = "await gateway" /\ Runs("cloud")'
      BY <1>c, <2>0, <2>1, <3>1, Proceeding DEF Service
    <3>. QED
      BY <3>2 DEF Quiet, At, Preparation
  <2>2. CASE At({"await gateway"}) /\ services["gateway"] = "up"
    <3>1. \A s \in Service : Runs(s)
      BY <1>c, <2>2 DEF Quiet, Service, At
    <3>2. step = IF isolated THEN "verify" ELSE FirstStep(scenario)
      BY <2>2 DEF Following, At
    <3>3. step \in Steps
      BY <1>a, <3>2 DEF Steps, Preparation
    <3> HIDE DEF step
    <3>4. /\ TypeOK' /\ Fresh' /\ Untouched' /\ script'.error = None /\ script'.step = step
          /\ scenario' = scenario /\ isolated' = isolated /\ \A s \in Service : Runs(s)'
      BY <2>0, <3>1, <3>3, Proceeding
    <3>5. CASE isolated
      BY <3>2, <3>4, <3>5 DEF Quiet, At, Preparation
    <3>6. CASE ~isolated
      BY <3>2, <3>4, <3>6 DEF Begun
    <3>. QED
      BY <3>5, <3>6
  <2>. QED
    BY <1>1, <2>1, <2>2 DEF StackIsHealthy
<1>2. CASE TargetVerified
  <2> DEFINE step == Following("verify")
  <2>0. LeavesStack /\ causes' = causes /\ script' = [script EXCEPT !.step = step] /\ At({"verify"})
    BY <1>2 DEF TargetVerified, Proceed, Goes
  <2>1. step = IF isolated THEN "baseline" ELSE "await cloud"
    BY DEF Following
  <2>2. step \in Steps
    BY <1>b, <2>1 DEF Preparation
  <2> HIDE DEF step
  <2>3. /\ TypeOK' /\ Fresh' /\ Untouched' /\ script'.error = None /\ script'.step = step
        /\ isolated' = isolated /\ \A s \in Service : Runs(s)' <=> Runs(s)
    BY <2>0, <2>2, Proceeding
  <2>4. isolated => \A s \in Service : Runs(s)
    BY <2>0 DEF Quiet, At
  <2>. QED
    BY <2>1, <2>3, <2>4 DEF Quiet, At, Preparation
<1>3. CASE ReadBaseline
  <2> DEFINE step == Following("baseline")
             a == [script EXCEPT !.baseline = counters]
  <2>0. LeavesStack /\ causes' = causes /\ script' = [a EXCEPT !.step = step] /\ At({"baseline"})
    BY <1>3 DEF ReadBaseline, Goes
  <2>1. step = "settle" /\ step \in Steps
    BY <1>b DEF Following, Preparation
  <2> HIDE DEF step
  <2>2. a = script \/ a = [script EXCEPT !.baseline = counters]
    OBVIOUS
  <2>5. script'.baseline = counters'
    BY <1>0, <2>0 DEF ScriptState, LeavesStack
  <2> HIDE DEF a
  <2>3. /\ TypeOK' /\ Fresh' /\ Untouched' /\ script'.error = None /\ script'.step = step
        /\ isolated' = isolated /\ \A s \in Service : Runs(s)' <=> Runs(s)
    BY <2>0, <2>1, <2>2, Proceeding
  <2>4. isolated /\ \A s \in Service : Runs(s)
    BY <1>0, <2>0 DEF Quiet, At
  <2>. QED
    BY <2>1, <2>3, <2>4, <2>5 DEF Quiet, At, Preparation
<1>4. CASE CompareBaseline
  <2> DEFINE step == Following("settle")
  <2>0. LeavesStack /\ causes' = causes /\ script' = [script EXCEPT !.step = step] /\ At({"settle"})
    BY <1>4 DEF CompareBaseline, Proceed, Goes, Quiet, At
  <2>1. step = "malformed" /\ step \in Steps
    BY <1>b DEF Following, Preparation
  <2> HIDE DEF step
  <2>2. /\ TypeOK' /\ Fresh' /\ Untouched' /\ script'.error = None /\ script'.step = step
        /\ isolated' = isolated /\ \A s \in Service : Runs(s)' <=> Runs(s)
    BY <2>0, <2>1, Proceeding
  <2>3. isolated /\ \A s \in Service : Runs(s)
    BY <1>0, <2>0 DEF Quiet, At
  <2>. QED
    BY <2>1, <2>2, <2>3 DEF Quiet, At, Preparation
<1>9. CASE SendMalformed
  <2> DEFINE step == Following("malformed")
  <2>0. LeavesStack /\ causes' = causes /\ script' = [script EXCEPT !.step = step] /\ At({"malformed"})
    BY <1>9 DEF SendMalformed, Proceed, Goes
  <2>1. step = FirstStep(scenario) /\ step \in Steps
    BY <1>a DEF Following
  <2> HIDE DEF step
  <2>2. /\ TypeOK' /\ Fresh' /\ Untouched' /\ script'.error = None /\ script'.step = step
        /\ scenario' = scenario /\ \A s \in Service : Runs(s)' <=> Runs(s)
    BY <2>0, <2>1, Proceeding
  <2>3. \A s \in Service : Runs(s)
    BY <1>0, <2>0 DEF Quiet, At
  <2>. QED
    BY <2>1, <2>2, <2>3 DEF Begun
<1>5. CASE TargetRefused
  BY <1>5, EndsPreparation DEF TargetRefused, Goes
<1>6. CASE RequestFails
  BY <1>6, EndsPreparation DEF RequestFails, Goes
<1>7. CASE StaysUnhealthy
  BY <1>7, EndsPreparation DEF StaysUnhealthy, Goes
<1>8. ~(\/ Send \/ HearAnswer \/ ConnectionBreaks \/ GiveUp
        \/ ReadBefore \/ CompareReceipts \/ TakeSnapshot \/ TakeFinal \/ Look
        \/ InjectInvalidEnvelope \/ Poll \/ CeilingPasses
        \/ Stop \/ Start \/ Restart \/ Restore \/ BecomesHealthy \/ CommandFails)
  BY <1>0 DEF Preparation, At, Send, HearAnswer, ConnectionBreaks, GiveUp, ReadBefore,
     CompareReceipts, TakeSnapshot, TakeFinal, Look, InjectInvalidEnvelope, Poll, CeilingPasses,
     Stop, Start, Restart, Restore, BecomesHealthy, CommandFails
<1>. QED
  BY <1>1, <1>2, <1>3, <1>4, <1>5, <1>6, <1>7, <1>8, <1>9 DEF ScriptStep

\* The first scenario finds everything as the scenarios expect it.
LEMMA BegunMeasures == TypeOK /\ Begun => MeasureInv
<1> SUFFICES ASSUME TypeOK, Begun PROVE MeasureInv
  OBVIOUS
<1>0. /\ script.n = 0 /\ script.sent = 0 /\ script.first = 0 /\ script.stopped = None
      /\ script.summary = None /\ script.retained = None
      /\ scenario \in Scenario /\ samples \in Nat /\ 3 <= samples
  BY ScenarioType DEF Begun, Fresh
<1>1. \/ script.step = "ended"
      \/ script.step = IF scenario = "gateway-outage" THEN "stop"
                       ELSE IF scenario \in {"delivery", "outage", "recovery"} THEN "send"
                       ELSE "before"
  BY <1>0, Beginning DEF Begun, At
<1>2. ~HasStopped /\ ~CloudComesBack
  BY <1>0, <1>1, OutageInside DEF HasStopped, CloudComesBack, At
<1>3. ControlInv
  <2>1. script.step \in StepsOf(scenario)
    BY <1>0, <1>1 DEF StepsOf, Scenario, Detection
  <2>2. /\ scenario \in {"latency", "delivery", "outage"} => script.n < samples
        /\ scenario = "recovery" => script.n <= MaxAttempts + 1
    BY <1>0, BoundsAreNaturals
  <2>3. ~At({"snapshot", "start", "healthy", "final", "wait", "look", "restart", "after"})
        /\ (scenario = "outage" => ~At({"stop"}))
    BY <1>1 DEF At
  <2>. QED
    BY <1>0, <1>2, <2>1, <2>2, <2>3 DEF ControlInv, At
<1>4. ServicesInv
  BY <1>2 DEF ServicesInv, Begun, Untouched, Runs, At
<1>5. PollInv
  BY <1>1 DEF PollInv, At
<1>6. DataInv
  <2>1. \A r \in Reading : Accounted(r)
    <3>0. None # 200
      BY NoneIsNoValue DEF Status
    <3>1. \A r \in Reading : script.statuses[r] # 200 /\ script.before_stop[r] = 0
      BY <3>0 DEF Begun, Fresh, NoRows
    <3>2. \A r \in Reading : gateway[r] = "none" /\ cloud[r] = "none" /\ rows[r] = 0
      BY DEF Begun, Untouched
    <3>. QED
      BY <3>1, <3>2 DEF Accounted
  <2>2. MarkerInv
    BY <1>0, <1>1 DEF MarkerInv, At
  <2>. QED
    BY <2>1, <2>2 DEF DataInv
<1>7. CauseInv
  <2>1. HeardReadings = {}
    BY <1>0 DEF HeardReadings, ScenarioReadings
  <2>2. ~At({"wait", "after", "restore", "restored"}) /\ (scenario = "latency" => ~At({"send"}))
    BY <1>1 DEF At
  <2>3. Attended
    <3>1. Settled
      BY DEF Settled, Begun, Untouched
    <3>2. OutageNoticed
      BY <1>0, OutageInside DEF OutageNoticed
    <3>. QED
      BY <2>1, <2>2, <3>1, <3>2 DEF Attended, InFlight, AllHeard, ReceiptsMatch, At
  <2>4. FullHasCause
    BY DEF FullHasCause, Begun, Untouched
  <2>. QED
    BY <2>1, <2>2, <2>3, <2>4 DEF CauseInv, OutageFails, OutageRaised, ReceiptsGrow,
       NothingFails, AllAcknowledged, At
<1>8. AcknowledgementsAreObserved
  BY <1>0, NoneIsNoValue DEF AcknowledgementsAreObserved
<1>9. VerdictsHaveACause
  BY <1>0, NoneIsNoValue DEF VerdictsHaveACause, Begun, Errors
<1>. QED
  BY <1>3, <1>4, <1>5, <1>6, <1>7, <1>8, <1>9 DEF MeasureInv

\* Within the scenarios every part keeps the others.
LEMMA MeasureNext ==
  ASSUME TypeOK, MeasureInv, [Next]_vars
  PROVE  TypeOK' /\ MeasureInv'
<1>1. ScenarioInv /\ ScenarioInv'
  BY ScenarioInvNext DEF ScenarioInv, MeasureInv
<1>2. PollInv'
  <2>1. CASE UNCHANGED vars
    BY <2>1 DEF vars, MeasureInv, PollInv, At, scenario, Watched, latest
  <2>. QED
    BY <1>1, <2>1, FaultStack, FaultStep, ScenarioSteps DEF ScenarioInv, MeasureInv
<1>3. DataInv'
  BY <1>1, DataStep DEF MeasureInv
<1>4. AcknowledgementsAreObserved'
  BY <1>1, AcknowledgedStep DEF MeasureInv
<1>5. CauseInv'
  BY <1>1, CauseStep DEF MeasureInv
<1>6. VerdictsHaveACause'
  BY <1>1, VerdictsStep DEF MeasureInv
<1>. QED
  BY <1>1, <1>2, <1>3, <1>4, <1>5, <1>6 DEF MeasureInv, ScenarioInv

LEMMA EvaluationInvariant == Spec => []EvaluationInv
<1>1. Init => EvaluationInv
  BY QuietInit DEF EvaluationInv
<1>2. TypeOK' /\ Begun' => MeasureInv'
  BY BegunMeasures, PTL
<1>3. EvaluationInv /\ [Next]_vars => EvaluationInv'
  <2> SUFFICES ASSUME EvaluationInv, [Next]_vars PROVE EvaluationInv'
    OBVIOUS
  <2>1. CASE MeasureInv
    BY <2>1, MeasureNext DEF EvaluationInv
  <2>2. CASE Quiet
    <3>0. TypeOK
      BY DEF EvaluationInv
    <3>1. CASE UNCHANGED vars
      BY <2>2, <3>0, <3>1 DEF vars, EvaluationInv, TypeOK, Quiet, Fresh, Untouched, Runs, At,
         isolated
    <3>2. CASE StackStep
      BY <2>2, <3>0, <3>2, QuietStack DEF EvaluationInv
    <3>3. CASE ScriptStep \/ TargetVerified \/ TargetRefused
      BY <1>2, <2>2, <3>0, <3>3, QuietScript DEF EvaluationInv
    <3>. QED
      BY <3>1, <3>2, <3>3 DEF Next
  <2>. QED
    BY <2>1, <2>2 DEF EvaluationInv
<1>. QED
  BY <1>1, <1>3, PTL DEF Spec

\* Every run keeps the types, and a script that has prepared only takes the steps of its
\* scenario, in which it has stopped a service exactly when it says so.
THEOREM EvaluationTypeCorrect == Spec => [](TypeOK /\ (~At(Preparation) => ControlInv))
<1>1. EvaluationInv => TypeOK /\ (~At(Preparation) => ControlInv)
  BY DEF EvaluationInv, Quiet, MeasureInv
<1>. QED
  BY <1>1, EvaluationInvariant, PTL

\* However the script ends, no service stays down unless docker compose has refused
\* to start it: what is stopped is known to the script until it runs again, and each
\* failure goes through the finally clause that starts it.
THEOREM StackGetsRestored == Spec => []StackIsRestored
<1>1. EvaluationInv => StackIsRestored
  BY DEF EvaluationInv, Quiet, Preparation, MeasureInv, ServicesInv, StackIsRestored,
         HasStopped, At
<1>. QED
  BY <1>1, EvaluationInvariant, PTL

\* No poll of a detection comes before its fault is counted, or before the gateway is
\* gone: the counter is read before the injection, which is answered only when the
\* stack has counted it, and no command of the scenario resets that counter.
THEOREM PollsSeeTheFault == Spec => []EveryPollSeesTheFault
<1>1. EvaluationInv => EveryPollSeesTheFault
  BY DEF EvaluationInv, Quiet, Preparation, MeasureInv, ServicesInv, HasStopped, PollInv,
         EveryPollSeesTheFault, At, Outage
<1>. QED
  BY <1>1, EvaluationInvariant, PTL

\* What is answered 200 is in storage, and stays there, whatever the cloud is doing
\* when the snapshots are taken, and even if it crashes: the counts of a delivery find
\* nothing acknowledged that was never observed, nothing lost across the restart and
\* nothing twice, and a recovery finds its marker.
THEOREM AcknowledgedIsObserved == Spec => []AcknowledgementsAreObserved
<1>1. EvaluationInv => AcknowledgementsAreObserved
  <2>1. TypeOK /\ Quiet => AcknowledgementsAreObserved
    BY NoneIsNoValue DEF Quiet, Fresh, AcknowledgementsAreObserved
  <2>. QED
    BY <2>1 DEF EvaluationInv, MeasureInv
<1>. QED
  BY <1>1, EvaluationInvariant, PTL

\* The verdicts on the stack are just: while no hop has given up waiting and no process
\* has ended by itself, every reading the script hears of has its final outcome before
\* the next one is sent, an answer of failure means that nothing was stored, and the
\* receipts around a reading agree with its answer; without a storage error and with
\* room in the gateway's registry, only what the script has stopped fails.  So no
\* requirement of run_isolated.py fails and no measurement blames the stack unless one
\* of these has happened.
THEOREM VerdictsAreCaused == Spec => []VerdictsHaveACause
<1>1. EvaluationInv => VerdictsHaveACause
  <2>1. TypeOK /\ Quiet => VerdictsHaveACause
    BY NoneIsNoValue DEF Quiet, Fresh, VerdictsHaveACause, Errors
  <2>. QED
    BY <2>1 DEF EvaluationInv, MeasureInv
<1>. QED
  BY <1>1, EvaluationInvariant, PTL

=============================================================================
