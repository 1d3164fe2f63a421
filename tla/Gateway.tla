------------------------------ MODULE Gateway ------------------------------
(***************************************************************************)
(* The gateway process: the two handlers of gateway/app/main.py, which the  *)
(* server runs in a pool of threads, the counters of gateway/app/metrics.py *)
(* they increment along the way, and the scrape that reads the metrics one  *)
(* after the other while the handlers go on.                                *)
(*                                                                          *)
(* SensorState covers the clock; here it stands still, so the gauge of      *)
(* silent devices is left out of the scrape.  What send_to_cloud does       *)
(* behind the connection is the subject of Cloud and Delivery: here it      *)
(* returns or raises.                                                       *)
(***************************************************************************)
EXTENDS SensorRegistry, Sequences

CONSTANTS
  Handler,        \* the threads of the pool
  MaxRequests     \* bound on the requests of a run, restarts included

VARIABLES
  devices,    \* SENSOR_STATE._devices
  handlers,   \* per thread, the request it serves and the step it is at
  counters,   \* the six counters
  scrape,     \* how many metrics the running scrape has collected, and which values
  answers,    \* history: how many answers of each kind this process has given
  arrived     \* requests so far

vars == <<devices, handlers, counters, scrape, answers, arrived>>

CounterNames ==
  {"messages", "failures", "attempts", "faults", "read_failures", "episodes"}
AnswerNames ==
  {"forwarded", "bad_gateway", "reading_refused", "recorded", "status_refused"}

\* Mutant: the attempts are collected before the failures.
AttemptsFirst ==
  <<"messages", "attempts", "failures", "faults", "read_failures", "episodes",
    "disconnected", "stuck">>

\* prometheus_client collects in the order of declaration.
ScrapeOrder ==
  <<"messages", "failures", "attempts", "faults", "read_failures", "episodes",
    "disconnected", "stuck">>

Steps == {"count_message", "count_fault", "record", "count_episode",
          "count_attempt", "forward", "count_failure", "count_read_failure"}

Idle == [step |-> "idle", device |-> None, report |-> None]

ASSUME MaxRequestsIsNatural == MaxRequests \in Nat

TypeOK ==
  /\ devices \in [Device -> DeviceState \cup {None}]
  /\ handlers \in [Handler ->
       {Idle} \cup [step : Steps, device : Device, report : Report]]
  /\ counters \in [CounterNames -> Nat]
  /\ scrape.collected \in 0 .. Len(ScrapeOrder)
  /\ scrape.sample \in [{ScrapeOrder[i] : i \in 1 .. Len(ScrapeOrder)} -> Nat]
  /\ answers \in [AnswerNames -> Nat]
  /\ arrived \in 0 .. MaxRequests

NoScrape ==
  [collected |-> 0,
   sample |-> [m \in {ScrapeOrder[i] : i \in 1 .. Len(ScrapeOrder)} |-> 0]]

Init ==
  /\ devices = EmptyRegistry
  /\ handlers = [h \in Handler |-> Idle]
  /\ counters = [c \in CounterNames |-> 0]
  /\ scrape = NoScrape
  /\ answers = [a \in AnswerNames |-> 0]
  /\ arrived = 0

-----------------------------------------------------------------------------
(* Moves of one handler.                                                     *)

At(h, step) == handlers[h].step = step

GoTo(h, step) == handlers' = [handlers EXCEPT ![h].step = step]

Count(counter) == counters' = [counters EXCEPT ![counter] = @ + 1]

Answer(h, answer) ==
  /\ handlers' = [handlers EXCEPT ![h] = Idle]
  /\ answers' = [answers EXCEPT ![answer] = @ + 1]

Serve(h, d, report, step) ==
  /\ handlers[h] = Idle
  /\ arrived < MaxRequests
  /\ handlers' = [handlers EXCEPT ![h] =
        [step |-> step, device |-> d, report |-> report]]
  /\ arrived' = arrived + 1
  /\ UNCHANGED <<devices, counters, scrape, answers>>

\* POST /device-data and POST /device-status with a body that validates.
ReceiveDeviceData(h, d) ==
  \E reading \in Normal \cup Sentinel : Serve(h, d, reading, "count_message")

ReceiveDeviceStatus(h, d) == Serve(h, d, Disconnect, "record")

CountMessage(h) ==
  /\ At(h, "count_message")
  /\ Count("messages")
  /\ GoTo(h, IF handlers[h].report \in Sentinel THEN "count_fault" ELSE "record")
  /\ UNCHANGED <<devices, scrape, answers, arrived>>

CountFault(h) ==
  /\ At(h, "count_fault")
  /\ Count("faults")
  /\ GoTo(h, "record")
  /\ UNCHANGED <<devices, scrape, answers, arrived>>

AfterRecording(h, state) ==
  CASE handlers[h].report = Disconnect -> "count_read_failure"
    [] StartsEpisode(state, handlers[h].report) -> "count_episode"
    [] OTHER -> "count_attempt"

\* record_reading or record_disconnect, for a device that is known or fits.
Record(h) ==
  LET d == handlers[h].device
  IN /\ At(h, "record")
     /\ Admits(devices, d)
     /\ devices' = AfterRecord(devices, d, handlers[h].report, 0)
     /\ GoTo(h, AfterRecording(h, Known(devices, d, 0)))
     /\ UNCHANGED <<counters, scrape, answers, arrived>>

\* Mutant: the capacity error is answered, but the reading goes on to the cloud.
RefuseButForward(h) ==
  /\ At(h, "record")
  /\ ~Admits(devices, handlers[h].device)
  /\ GoTo(h, "count_attempt")
  /\ answers' = [answers EXCEPT !["reading_refused"] = @ + 1]
  /\ UNCHANGED <<devices, counters, scrape, arrived>>

\* Mutant: the refusal takes back the attempt that it never counted.
RefuseAndUncount(h) ==
  /\ At(h, "record")
  /\ ~Admits(devices, handlers[h].device)
  /\ counters' = [counters EXCEPT !["attempts"] = @ - 1]
  /\ Answer(h, IF handlers[h].report = Disconnect
                 THEN "status_refused" ELSE "reading_refused")
  /\ UNCHANGED <<devices, scrape, arrived>>

\* SensorStateCapacityError: 503, and nothing is forwarded or counted.
Refuse(h) ==
  /\ At(h, "record")
  /\ ~Admits(devices, handlers[h].device)
  /\ Answer(h, IF handlers[h].report = Disconnect
                 THEN "status_refused" ELSE "reading_refused")
  /\ UNCHANGED <<devices, counters, scrape, arrived>>

CountEpisode(h) ==
  /\ At(h, "count_episode")
  /\ Count("episodes")
  /\ GoTo(h, "count_attempt")
  /\ UNCHANGED <<devices, scrape, answers, arrived>>

CountReadFailure(h) ==
  /\ At(h, "count_read_failure")
  /\ Count("read_failures")
  /\ Answer(h, "recorded")
  /\ UNCHANGED <<devices, scrape, arrived>>

CountAttempt(h) ==
  /\ At(h, "count_attempt")
  /\ Count("attempts")
  /\ GoTo(h, "forward")
  /\ UNCHANGED <<devices, scrape, answers, arrived>>

\* send_to_cloud returns the cloud's answer.
ForwardSucceeds(h) ==
  /\ At(h, "forward")
  /\ Answer(h, "forwarded")
  /\ UNCHANGED <<devices, counters, scrape, arrived>>

\* send_to_cloud raises: raise_for_status, or a connection refused or broken.
ForwardRejected(h) ==
  /\ At(h, "forward")
  /\ GoTo(h, "count_failure")
  /\ UNCHANGED <<devices, counters, scrape, answers, arrived>>

\* Mutant: requests.post without a timeout waits for as long as the cloud does.
ForwardWaits(h) ==
  /\ At(h, "forward")
  /\ UNCHANGED vars

\* send_to_cloud raises: the timeout of requests.post.
ForwardTimesOut(h) ==
  /\ At(h, "forward")
  /\ GoTo(h, "count_failure")
  /\ UNCHANGED <<devices, counters, scrape, answers, arrived>>

CountFailure(h) ==
  /\ At(h, "count_failure")
  /\ Count("failures")
  /\ Answer(h, "bad_gateway")
  /\ UNCHANGED <<devices, scrape, arrived>>

-----------------------------------------------------------------------------
(* The scrape, the process and the cloud.                                    *)

Value(metric) ==
  CASE metric \in CounterNames -> counters[metric]
    [] metric = "disconnected" -> Cardinality(DisconnectedDevices(devices))
    [] metric = "stuck" -> Cardinality(SuspectedDevices(devices))

\* One more metric is read.  A new scrape starts when the last one is complete.
Collect ==
  LET done == scrape.collected = Len(ScrapeOrder)
      i == IF done THEN 1 ELSE scrape.collected + 1
      sample == IF done THEN NoScrape.sample ELSE scrape.sample
      metric == ScrapeOrder[i]
  IN /\ scrape' = [collected |-> i, sample |-> [sample EXCEPT ![metric] = Value(metric)]]
     /\ UNCHANGED <<devices, handlers, counters, answers, arrived>>

\* The process is replaced: registry, counters and running requests are gone.
Restart ==
  /\ devices' = EmptyRegistry
  /\ handlers' = [h \in Handler |-> Idle]
  /\ counters' = [c \in CounterNames |-> 0]
  /\ scrape' = NoScrape
  /\ answers' = [a \in AnswerNames |-> 0]
  /\ UNCHANGED arrived

\* The handler's own steps, and what the cloud does to its forward.
Proceed(h) ==
  \/ CountMessage(h) \/ CountFault(h) \/ Record(h) \/ Refuse(h)
  \/ CountEpisode(h) \/ CountReadFailure(h) \/ CountAttempt(h)
  \/ ForwardTimesOut(h) \/ CountFailure(h)

CloudAnswers(h) == ForwardSucceeds(h) \/ ForwardRejected(h)

Next ==
  \/ \E h \in Handler, d \in Device : ReceiveDeviceData(h, d) \/ ReceiveDeviceStatus(h, d)
  \/ \E h \in Handler : Proceed(h) \/ CloudAnswers(h)
  \/ Collect
  \/ Restart

Spec == Init /\ [][Next]_vars

\* Every thread of the pool is scheduled; the cloud and the scraper owe nothing.
FairSpec == Spec /\ \A h \in Handler : WF_vars(Proceed(h))

-----------------------------------------------------------------------------

Busy(steps) == Cardinality({h \in Handler : handlers[h].step \in steps})
ServingReading(steps) ==
  Cardinality({h \in Handler : /\ handlers[h].step \in steps
                               /\ handlers[h].report # Disconnect})

\* Across all interleavings each reading ends in exactly one of: refused at
\* capacity and never attempted, forwarded, or failed and counted as failed;
\* so refusals dilute neither side of the failure ratio.
ForwardingIsAccounted ==
  /\ counters["attempts"] = answers["forwarded"] + answers["bad_gateway"]
                              + Busy({"forward", "count_failure"})
  /\ counters["failures"] = answers["bad_gateway"]
  /\ counters["messages"] = counters["attempts"] + answers["reading_refused"]
       + ServingReading({"count_fault", "record", "count_episode", "count_attempt"})

\* A scrape overlaps the handlers, yet the sample it returns never shows more
\* failed forwards than attempts: failures are read first, and an attempt is
\* counted before it can fail.
\* It reads sensor_read_failures_total before the disconnected gauge, and a report
\* enters the registry before it is counted: one sample may show a device as
\* disconnected and no failed read.  It is ahead of the counter by no more than the
\* reports that are being counted.
SamplesAreCounted ==
  scrape.collected = Len(ScrapeOrder) =>
    /\ scrape.sample["failures"] <= scrape.sample["attempts"]
    /\ scrape.sample["disconnected"]
         <= counters["read_failures"] + Busy({"count_read_failure"})

\* The episode counter is incremented after the lock is released; together with
\* the handlers about to increment it, it accounts for every suspected device.
SuspectedDevicesHadEpisodes ==
  Cardinality(SuspectedDevices(devices))
    <= counters["episodes"] + Busy({"count_episode"})

\* Whatever the cloud does, a served request ends: the forward has a timeout.
EveryRequestEnds ==
  \A h \in Handler : handlers[h] # Idle ~> handlers[h] = Idle

\* reliability-monitoring.md: sensor_read_failures_total counts "Every explicit
\* disconnected read report".
EveryDisconnectReportIsCounted ==
  counters["read_failures"] = answers["recorded"] + answers["status_refused"]

=============================================================================
