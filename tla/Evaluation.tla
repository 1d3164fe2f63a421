----------------------------- MODULE Evaluation -----------------------------
(***************************************************************************)
(* The measurement scripts of scripts/evaluation against the running stack: *)
(* the scenarios of measure_v3.py, each on its own or in the order of       *)
(* run_isolated.py, which adds requirements on their results.  The script   *)
(* is the only client; it stops and starts services with docker compose and *)
(* draws its conclusions from counters and from snapshots of GET /data.     *)
(*                                                                          *)
(* Gateway and cloud are reduced to what the script can see: modules        *)
(* Gateway, Cloud and Delivery say how they work.  Every reading has a new  *)
(* device_id, so readings are numbered as they are sent.                    *)
(***************************************************************************)
EXTENDS Integers, FiniteSets, Sequences

CONSTANTS
  None,          \* no status, no snapshot, no error
  Plans,         \* the sequences of scenarios the script may be started with
  Count,         \* --samples
  Registries,    \* per gateway the script may find, the devices known and their limit
  MaxAttempts,   \* bound on the readings sent while waiting for a recovery
  MaxSends,      \* bound on the readings of a run
  MaxMishaps     \* bound on what goes wrong in the stack by itself

VARIABLES
  services,   \* per service, "up", "starting" or "down"
  gateway,    \* per reading, the step of its handler in the gateway
  cloud,      \* per reading, the step of its handler in the cloud
  rows,       \* per reading, its rows in the cloud's table
  counters,   \* the counters the script looks at
  registry,   \* the devices the gateway's process knows, and SENSOR_STATE_MAX_DEVICES
  mishaps,    \* history: how often the stack has failed by itself
  script,     \* the script's position and what it has noted
  causes      \* history: the kinds of failure that have happened

vars == <<services, gateway, cloud, rows, counters, registry, mishaps, script, causes>>

ASSUME BoundsAreNaturals ==
  Count \in Nat /\ MaxAttempts \in Nat /\ MaxSends \in Nat /\ MaxMishaps \in Nat
ASSUME EnoughSamples == Count >= 3
ASSUME RegistriesAreBounded ==
  /\ Registries \subseteq [known : Nat, limit : Nat]
  /\ \A g \in Registries : g.known <= g.limit

Reading == 1 .. MaxSends
Service == {"gateway", "cloud"}
CloudCounters == {"received", "rejected"}
CounterNames == CloudCounters \cup {"failures", "faults"}
Command == {"stop", "start", "restart"}
Detection == {"cloud-outage", "gateway-outage", "sensor-sentinel", "invalid-envelope"}
Scenario == {"latency", "delivery", "outage", "recovery"} \cup Detection
Interrupting == {"outage", "recovery", "cloud-outage", "gateway-outage"}

ASSUME PlansAreScenarios == \A p \in Plans : p \in Seq(Scenario) /\ p # <<>>

\* What run_isolated.py runs, one after the other.
IsolatedPlan ==
  <<"latency", "delivery", "outage", "recovery", "sensor-sentinel",
    "invalid-envelope", "cloud-outage", "gateway-outage", "latency">>

\* What comes before the first scenario.
Preparation == {"verify", "await cloud", "await gateway", "baseline", "settle", "malformed"}
Steps == Preparation \cup
         {"before", "send", "wait", "after", "snapshot", "stop", "start", "healthy",
          "final", "restart", "look", "inject", "poll", "restore", "restored", "ended"}
Errors == {"request failed", "command failed", "unhealthy", "wrong target",
           "receipt delta", "counter reset", "marker not stored", "unexpected status",
           "not observed", "not recovered", "requirement"}
Counts == [not_acknowledged : Nat, missing_final : Nat, never_observed : Nat,
           lost_across_restart : Nat, duplicates : Nat,
           acknowledged_never_observed : Nat, failed_but_observed : Nat]
Snapshot == [Reading -> Nat]
Status == {200, 502, 503}
ScriptState ==
  [plan : Plans, stage : Nat, step : Steps, n : 0 .. Count + MaxAttempts,
   sent : 0 .. MaxSends, first : 0 .. MaxSends,
   statuses : [Reading -> Status \cup {None}], before : Nat,
   baseline : [CounterNames -> Nat] \cup {None},
   before_stop : Snapshot, stopped : Service \cup {None},
   summary : Counts \cup {None}, retained : BOOLEAN \cup {None},
   error : Errors \cup {None}]

ASSUME NoneIsNoValue ==
  /\ None \notin Service /\ None \notin Errors
  /\ None \notin Status /\ None \notin BOOLEAN

TypeOK ==
  /\ services \in [Service -> {"up", "starting", "down", "dead"}]
  /\ gateway \in [Reading -> {"none", "sent", "forwarding", "failing", "ok", "bad", "full"}]
  /\ cloud \in [Reading -> {"none", "storing", "stored", "counted", "ended"}]
  /\ rows \in Snapshot
  /\ counters \in [CounterNames -> Nat]
  /\ registry \in [known : Nat, limit : Nat]
  /\ registry.known <= registry.limit
  /\ mishaps \in 0 .. MaxMishaps
  /\ script \in ScriptState
  /\ script.stage \in DOMAIN script.plan
  /\ script.first <= script.sent
  /\ causes \subseteq {"timeout", "storage", "capacity", "crash"} \cup Command

-----------------------------------------------------------------------------
(* The stack.                                                                *)

\* The reading just sent carries a sentinel in one scenario only.
IsSentinel(r) ==
  script.plan[script.stage] = "sensor-sentinel" /\ r > script.first

\* The gateway counts a sentinel before it looks the device up.
CountFault(r) == counters' = [counters EXCEPT !["faults"] = @ + IF IsSentinel(r) THEN 1 ELSE 0]

\* It knows no more devices than its limit, and answers 503 to the next one.
RefuseDevice(r) ==
  /\ gateway[r] = "sent" /\ services["gateway"] = "up"
  /\ registry.known = registry.limit
  /\ CountFault(r)
  /\ gateway' = [gateway EXCEPT ![r] = "full"]
  /\ causes' = causes \cup {"capacity"}
  /\ UNCHANGED <<services, cloud, rows, registry, script, mishaps>>

\* A device it can still remember: it posts to the cloud, or is refused there.
Arrive(r) ==
  /\ gateway[r] = "sent" /\ services["gateway"] = "up"
  /\ registry.known < registry.limit
  /\ CountFault(r)
  /\ registry' = [registry EXCEPT !.known = @ + 1]
  /\ gateway' = [gateway EXCEPT ![r] = "forwarding"]
  /\ cloud' = [cloud EXCEPT ![r] = IF services["cloud"] = "up" THEN "storing" ELSE "ended"]
  /\ UNCHANGED <<services, rows, script, causes, mishaps>>

\* Bounded by MaxMishaps.
Mishap == mishaps < MaxMishaps /\ mishaps' = mishaps + 1

Commit(r) ==
  /\ cloud[r] = "storing"
  /\ cloud' = [cloud EXCEPT ![r] = "stored"]
  /\ rows' = [rows EXCEPT ![r] = @ + 1]
  /\ UNCHANGED <<services, gateway, counters, registry, script, causes, mishaps>>

FailStorage(r) ==
  /\ cloud[r] = "storing"
  /\ cloud' = [cloud EXCEPT ![r] = "ended"]
  /\ counters' = [counters EXCEPT !["rejected"] = @ + 1]
  /\ Mishap
  /\ causes' = causes \cup {"storage"}
  /\ UNCHANGED <<services, gateway, rows, registry, script>>

CountReceived(r) ==
  /\ cloud[r] = "stored"
  /\ cloud' = [cloud EXCEPT ![r] = "counted"]
  /\ counters' = [counters EXCEPT !["received"] = @ + 1]
  /\ UNCHANGED <<services, gateway, rows, registry, script, causes, mishaps>>

\* The cloud's answer, passed on by the gateway if it still waits.
AnswerFrom(r, step) ==
  /\ cloud[r] = step
  /\ gateway' = [gateway EXCEPT ![r] = IF @ = "forwarding" THEN "ok" ELSE @]
  /\ UNCHANGED <<services, rows, counters, registry, script, causes, mishaps>>

\* Mutant: the answer is given, but the receipt is counted in the background.
AnswerUncounted(r) == AnswerFrom(r, "stored") /\ UNCHANGED cloud

\* Mutant: the answer is given, but the commit is left to the background.
AnswerUncommitted(r) == AnswerFrom(r, "storing") /\ UNCHANGED cloud

AnswerStored(r) == AnswerFrom(r, "counted") /\ cloud' = [cloud EXCEPT ![r] = "ended"]

\* Refused, answered with an error, or cut off by the end of the cloud.
ForwardFails(r) ==
  /\ gateway[r] = "forwarding" /\ cloud[r] = "ended"
  /\ gateway' = [gateway EXCEPT ![r] = "failing"]
  /\ UNCHANGED <<services, cloud, rows, counters, registry, script, causes, mishaps>>

\* requests.post gives up; the cloud's handler goes on.
ForwardTimesOut(r) ==
  /\ gateway[r] = "forwarding"
  /\ gateway' = [gateway EXCEPT ![r] = "failing"]
  /\ Mishap
  /\ causes' = causes \cup {"timeout"}
  /\ UNCHANGED <<services, cloud, rows, counters, registry, script>>

\* Mutant: the answer comes first and nothing is counted.
AnswerFailureUncounted(r) ==
  /\ gateway[r] = "failing"
  /\ gateway' = [gateway EXCEPT ![r] = "bad"]
  /\ UNCHANGED <<services, cloud, rows, counters, registry, script, causes, mishaps>>

CountFailure(r) ==
  /\ gateway[r] = "failing"
  /\ gateway' = [gateway EXCEPT ![r] = "bad"]
  /\ counters' = [counters EXCEPT !["failures"] = @ + 1]
  /\ UNCHANGED <<services, cloud, rows, registry, script, causes, mishaps>>

BecomeReady(s) ==
  /\ services[s] = "starting"
  /\ services' = [services EXCEPT ![s] = "up"]
  /\ UNCHANGED <<gateway, cloud, rows, counters, registry, script, causes, mishaps>>

\* The container ends: its handlers and counters are gone, the volume is not.
EndProcess(s) ==
  /\ gateway' = IF s = "gateway" THEN [r \in Reading |-> "none"] ELSE gateway
  /\ cloud' = IF s = "cloud" THEN [r \in Reading |-> IF cloud[r] = "none" THEN "none" ELSE "ended"]
                             ELSE cloud
  /\ counters' = [c \in CounterNames |->
       IF (c \in CloudCounters) = (s = "cloud") THEN 0 ELSE counters[c]]
  /\ registry' = IF s = "gateway" THEN [registry EXCEPT !.known = 0] ELSE registry
  /\ UNCHANGED rows

\* A crash, or a command that is not the script's.  Compose restarts nothing by
\* itself; somebody may.
EndsByItself(s) ==
  /\ services[s] \in {"up", "starting"}
  /\ \E state \in {"dead", "starting"} : services' = [services EXCEPT ![s] = state]
  /\ EndProcess(s)
  /\ Mishap
  /\ causes' = causes \cup {"crash"}
  /\ UNCHANGED script

StackStep ==
  \/ \E r \in Reading :
       \/ RefuseDevice(r) \/ Arrive(r) \/ Commit(r) \/ FailStorage(r) \/ CountReceived(r)
       \/ AnswerStored(r) \/ ForwardFails(r) \/ ForwardTimesOut(r) \/ CountFailure(r)
  \/ \E s \in Service : BecomeReady(s) \/ EndsByItself(s)

-----------------------------------------------------------------------------
(* The accounting of a delivery scenario.                                    *)

Positive(snapshot, ids) == {r \in ids : snapshot[r] > 0}

\* ids, acked: sets of readings; final, earlier: rows per reading.
delivery_counts(ids, acked, final, earlier) ==
  LET failed == ids \ acked
      kept == Positive(final, ids)
      observed == kept \cup Positive(earlier, ids)
  IN [not_acknowledged |-> Cardinality(failed),
      missing_final |-> Cardinality(ids \ kept),
      never_observed |-> Cardinality(ids \ observed),
      lost_across_restart |-> Cardinality(Positive(earlier, ids) \ kept),
      duplicates |-> Cardinality(UNION {{r} \X (2 .. final[r]) : r \in ids}),
      acknowledged_never_observed |-> Cardinality(acked \ observed),
      failed_but_observed |-> Cardinality(failed \cap observed)]

scenario == script.plan[script.stage]
isolated == script.plan = IsolatedPlan
samples == IF isolated /\ script.stage = Len(script.plan) THEN 3 ELSE Count
stop_at == Count \div 3
start_at == (2 * Count) \div 3

ScenarioReadings(s) == s.first + 1 .. s.sent
Acknowledged(s) == {r \in ScenarioReadings(s) : s.statuses[r] = 200}

\* run_isolated.py's requirements on the result of a scenario.
Required(s) ==
  CASE scenario = "latency" -> Acknowledged(s) = ScenarioReadings(s)
    [] scenario = "delivery" ->
         /\ s.summary.missing_final = 0 /\ s.summary.duplicates = 0
         /\ s.summary.not_acknowledged = 0
    [] scenario = "outage" ->
         /\ s.summary.not_acknowledged > 0 /\ s.summary.never_observed > 0
         /\ s.summary.acknowledged_never_observed = 0 /\ s.summary.duplicates = 0
         /\ s.summary.failed_but_observed = 0
         /\ \A r \in ScenarioReadings(s) : s.statuses[r] # None
    [] scenario = "recovery" -> s.retained
    [] OTHER -> TRUE

-----------------------------------------------------------------------------
(* Control flow of the script, as operators on its state s.                  *)

NoRows == [r \in Reading |-> 0]

LoopHead(kind, k, count) ==
  CASE kind = "latency" -> IF k = count THEN "ended" ELSE "before"
    [] kind # "latency" /\ k = count -> "final"
    [] kind = "outage" /\ k = stop_at /\ k < count -> "snapshot"
    [] kind = "outage" /\ k = start_at /\ k < count -> "start"
    [] OTHER -> "send"

FirstStep(kind) ==
  CASE kind = "gateway-outage" -> "stop"
    [] kind \in {"delivery", "outage"} -> LoopHead(kind, 0, Count)
    [] kind = "recovery" -> "send"
    [] OTHER -> "before"

\* Mutant: no finally clause.
RaiseAtOnce(s, reason) == [s EXCEPT !.error = reason, !.step = "ended"]

\* An exception leaves through the finally clause, which restores what is stopped.
Raise(s, reason) ==
  [s EXCEPT !.error = reason, !.step = IF s.stopped = None THEN "ended" ELSE "restore"]

NextScenario(s) ==
  [s EXCEPT !.stage = @ + 1, !.step = FirstStep(s.plan[s.stage + 1]), !.n = 0,
            !.first = s.sent, !.statuses = [r \in Reading |-> None], !.before = 0,
            !.before_stop = NoRows]

\* A scenario has its result: the next one of the plan, if the requirements hold.
Finish(s) ==
  IF isolated /\ ~Required(s) THEN [s EXCEPT !.error = "requirement", !.step = "ended"]
  ELSE IF s.stage = Len(s.plan) THEN [s EXCEPT !.step = "ended"]
  ELSE NextScenario(s)

NextSample(s) ==
  LET step == LoopHead(scenario, s.n + 1, samples)
  IN IF step = "ended" THEN Finish(s) ELSE [s EXCEPT !.n = @ + 1, !.step = step]

At(steps) == script.step \in steps
Goes(s) == script' = s
LeavesStack == UNCHANGED <<services, gateway, cloud, rows, counters, registry, mishaps>>

-----------------------------------------------------------------------------
(* Readings.                                                                 *)

latest == script.sent

\* The recovery loop sends until its ceiling; MaxAttempts bounds it here.
Send ==
  /\ At({"send"}) /\ script.sent < MaxSends
  /\ scenario = "recovery" => script.n <= MaxAttempts
  /\ gateway' = [gateway EXCEPT ![script.sent + 1] = "sent"]
  /\ Goes([script EXCEPT !.sent = @ + 1, !.step = "wait"])
  /\ UNCHANGED <<services, cloud, rows, counters, registry, causes, mishaps>>

\* What each scenario does with the status of the reading.
Heard(s, status) ==
  CASE scenario = "latency" -> [s EXCEPT !.step = "after"]
    [] scenario \in {"delivery", "outage"} -> NextSample(s)
    [] scenario = "recovery" ->
         IF status = 200 THEN [s EXCEPT !.step = "look"]
         ELSE IF s.n = 0 THEN Raise(s, "marker not stored")
         ELSE [s EXCEPT !.n = @ + 1, !.step = "send"]
    [] scenario \in Detection ->
         IF status = IF scenario = "cloud-outage" THEN 502 ELSE 200
           THEN [s EXCEPT !.step = "poll"] ELSE Raise(s, "unexpected status")

Answers == {"ok", "bad", "full"}
StatusOf(answer) == CASE answer = "ok" -> 200 [] answer = "bad" -> 502 [] answer = "full" -> 503

HearAnswer ==
  /\ At({"wait"}) /\ gateway[latest] \in Answers
  /\ LET status == StatusOf(gateway[latest])
     IN Goes(Heard([script EXCEPT !.statuses[latest] = status], status))
  /\ gateway' = [gateway EXCEPT ![latest] = "none"]
  /\ UNCHANGED <<services, cloud, rows, counters, registry, causes, mishaps>>

\* The gateway's process has ended, or takes no connection.
ConnectionBreaks ==
  /\ At({"wait"})
  /\ \/ gateway[latest] = "none"
     \/ gateway[latest] = "sent" /\ services["gateway"] # "up"
  /\ Goes(Heard(script, None))
  /\ gateway' = [gateway EXCEPT ![latest] = "none"]
  /\ UNCHANGED <<services, cloud, rows, counters, registry, causes, mishaps>>

\* Mutant: no timeout.
WaitForAnswer ==
  /\ At({"wait"}) /\ gateway[latest] \notin Answers
  /\ UNCHANGED vars

\* The script's own timeout; the handlers of the reading go on.
GiveUp ==
  /\ At({"wait"})
  /\ Goes(Heard(script, None))
  /\ causes' = causes \cup {"timeout"}
  /\ LeavesStack

-----------------------------------------------------------------------------
(* Snapshots and counters.                                                   *)

Watched ==
  CASE scenario = "latency" -> "received"
    [] scenario = "invalid-envelope" -> "rejected"
    [] scenario = "cloud-outage" -> "failures"
    [] OTHER -> "faults"

WatchedUp == services[IF Watched \in CloudCounters THEN "cloud" ELSE "gateway"] = "up"

\* A counter that has gone down was reset during the measurement.
increase == counters[Watched] - script.before
WithIncrease(next) == IF increase < 0 THEN Raise(script, "counter reset") ELSE next

ReadBefore ==
  /\ At({"before"}) /\ WatchedUp
  /\ Goes([script EXCEPT !.before = counters[Watched],
             !.step = CASE scenario = "cloud-outage" -> "stop"
                        [] scenario = "invalid-envelope" -> "inject"
                        [] OTHER -> "send"])
  /\ LeavesStack /\ UNCHANGED causes

\* The receipts around one reading of the latency scenario.
CompareReceipts ==
  /\ At({"after"}) /\ WatchedUp
  /\ Goes(WithIncrease(IF script.statuses[latest] = 200 /\ increase # 1
                         THEN Raise(script, "receipt delta") ELSE NextSample(script)))
  /\ LeavesStack /\ UNCHANGED causes

TakeSnapshot ==
  /\ At({"snapshot"}) /\ services["cloud"] = "up"
  /\ Goes([script EXCEPT !.before_stop = rows, !.step = "stop"])
  /\ LeavesStack /\ UNCHANGED causes

TakeFinal ==
  /\ At({"final"}) /\ services["cloud"] = "up"
  /\ Goes(Finish([script EXCEPT !.summary =
       delivery_counts(ScenarioReadings(script), Acknowledged(script), rows,
                       script.before_stop)]))
  /\ LeavesStack /\ UNCHANGED causes

\* Of the recovery's readings the first is the marker, sent before the restart.
Look ==
  /\ At({"look"}) /\ services["cloud"] = "up"
  /\ LET found == rows[latest] > 0
     IN Goes(IF script.n = 0
               THEN IF found THEN [script EXCEPT !.step = "restart"]
                             ELSE Raise(script, "marker not stored")
               ELSE IF found THEN Finish([script EXCEPT !.retained = rows[script.first + 1] > 0])
                             ELSE [script EXCEPT !.n = @ + 1, !.step = "send"])
  /\ LeavesStack /\ UNCHANGED causes

InjectInvalidEnvelope ==
  /\ At({"inject"}) /\ services["cloud"] = "up"
  /\ counters' = [counters EXCEPT !["rejected"] = @ + 1]
  /\ Goes([script EXCEPT !.step = "poll"])
  /\ UNCHANGED <<services, gateway, cloud, rows, registry, causes, mishaps>>

\* The fault is detected; what was stopped is started again first.
Detected == IF script.stopped # None THEN [script EXCEPT !.step = "restore"] ELSE Finish(script)

\* gateway-outage polls /health, the others their counter.
Poll ==
  /\ At({"poll"})
  /\ IF scenario = "gateway-outage"
       THEN Goes(IF services["gateway"] = "up" THEN script ELSE Detected)
       ELSE WatchedUp /\ Goes(WithIncrease(IF increase >= 1 THEN Detected ELSE script))
  /\ LeavesStack /\ UNCHANGED causes

\* A request of the script that is refused, times out or is answered with an error.
RequestFails ==
  /\ \/ At({"baseline", "settle", "malformed"})
     \/ At({"before", "after", "snapshot", "final", "look", "inject"})
     \/ At({"poll"}) /\ scenario # "gateway-outage"
  /\ Goes(Raise(script, "request failed"))
  /\ LeavesStack /\ UNCHANGED causes

\* The ceilings: 10 s for a detection, 30 s for a recovery, the commands included.
CeilingPasses ==
  /\ \/ At({"poll"}) /\ Goes(Raise(script, "not observed"))
     \/ /\ At({"send"}) /\ scenario = "recovery" /\ script.n > 0
        /\ Goes(Raise(script, "not recovered"))
  /\ LeavesStack /\ UNCHANGED causes

-----------------------------------------------------------------------------
(* Stopping and starting services.                                           *)

Outage == IF scenario = "gateway-outage" THEN "gateway" ELSE "cloud"
AfterStop == CASE scenario = "gateway-outage" -> "poll" [] OTHER -> "send"

\* The service the script acts on, and the containers after the command.
StopService ==
  /\ services' = [services EXCEPT ![Outage] = "down"]
  /\ EndProcess(Outage) /\ UNCHANGED mishaps
StartService(s) ==
  /\ services' = [services EXCEPT ![s] = IF @ \in {"down", "dead"} THEN "starting" ELSE @]
  /\ UNCHANGED <<gateway, cloud, rows, counters, registry, mishaps>>
RestartCloud ==
  /\ services' = [services EXCEPT !["cloud"] = "starting"]
  /\ EndProcess("cloud") /\ UNCHANGED mishaps

Stop ==
  /\ At({"stop"}) /\ StopService
  /\ Goes([script EXCEPT !.stopped = Outage, !.step = AfterStop])
  /\ UNCHANGED causes

Start ==
  /\ At({"start"}) /\ StartService("cloud")
  /\ Goes([script EXCEPT !.stopped = None, !.step = "healthy"])
  /\ UNCHANGED causes

Restart ==
  /\ At({"restart"}) /\ RestartCloud
  /\ Goes([script EXCEPT !.n = 1, !.step = "send"])
  /\ UNCHANGED causes

\* The finally clause.
Restore ==
  /\ At({"restore"}) /\ StartService(script.stopped)
  /\ Goes([script EXCEPT !.step = "restored"])
  /\ UNCHANGED causes

Awaited == IF At({"restored"}) THEN script.stopped ELSE "cloud"

\* wait_healthy; what was raised before goes on being raised.
BecomesHealthy ==
  /\ At({"healthy", "restored"}) /\ services[Awaited] = "up"
  /\ Goes(IF At({"healthy"}) THEN [script EXCEPT !.step = "send"]
          ELSE IF script.error # None THEN [script EXCEPT !.step = "ended", !.stopped = None]
          ELSE Finish([script EXCEPT !.stopped = None]))
  /\ LeavesStack /\ UNCHANGED causes

StaysUnhealthy ==
  /\ At({"await cloud", "await gateway", "healthy", "restored"})
  /\ Goes([script EXCEPT !.error = "unhealthy", !.step = "ended"])
  /\ LeavesStack /\ UNCHANGED causes

\* docker compose fails or takes 60 s, with all, some or none of its effect.  The
\* script notes what it stops before it stops it.
CommandFails ==
  /\ \/ /\ At({"stop"}) /\ causes' = causes \cup {"stop"}
        /\ StopService \/ LeavesStack
        /\ Goes(Raise([script EXCEPT !.stopped = Outage], "command failed"))
     \/ /\ At({"start"}) /\ causes' = causes \cup {"start"}
        /\ StartService("cloud") \/ LeavesStack
        /\ Goes(Raise(script, "command failed"))
     \/ /\ At({"restart"}) /\ causes' = causes \cup {"restart"}
        /\ RestartCloud \/ StopService \/ LeavesStack
        /\ Goes(Raise(script, "command failed"))
     \/ /\ At({"restore"}) /\ causes' = causes \cup {"start"}
        /\ StartService(script.stopped) \/ LeavesStack
        /\ Goes([script EXCEPT !.error = "command failed", !.step = "ended"])

-----------------------------------------------------------------------------
(* Before the first scenario.                                                *)

\* The control target is verified by measure_v3.py before it interrupts, and by
\* run_isolated.py always, once the stack is healthy.
Opening(plan) ==
  IF plan # IsolatedPlan /\ plan[1] \in Interrupting THEN "verify" ELSE "await cloud"

Following(step) ==
  CASE step = "verify" -> IF isolated THEN "baseline" ELSE "await cloud"
    [] step = "await cloud" -> "await gateway"
    [] step = "await gateway" -> IF isolated THEN "verify" ELSE FirstStep(scenario)
    [] step = "baseline" -> "settle"
    [] step = "settle" -> "malformed"
    [] step = "malformed" -> FirstStep(scenario)

Proceed(step) == Goes([script EXCEPT !.step = Following(step)])

\* wait_healthy for both.
StackIsHealthy ==
  /\ \/ At({"await cloud"}) /\ services["cloud"] = "up"
     \/ At({"await gateway"}) /\ services["gateway"] = "up"
  /\ Proceed(script.step)
  /\ LeavesStack /\ UNCHANGED causes

\* docker lists one running container for each service.
TargetVerified ==
  /\ At({"verify"}) /\ \A s \in Service : services[s] \in {"up", "starting"}
  /\ Proceed("verify")
  /\ LeavesStack /\ UNCHANGED causes

\* It lists none or another project's, or fails.
TargetRefused ==
  /\ At({"verify"})
  /\ Goes(Raise(script, "wrong target"))
  /\ LeavesStack /\ UNCHANGED causes

\* run_isolated.py's observation of a stack at rest: nothing is counted in 0.25 s.
ReadBaseline ==
  /\ At({"baseline"}) /\ \A s \in Service : services[s] = "up"
  /\ Goes([script EXCEPT !.baseline = counters, !.step = Following("baseline")])
  /\ LeavesStack /\ UNCHANGED causes

CompareBaseline ==
  /\ At({"settle"}) /\ \A s \in Service : services[s] = "up"
  /\ IF counters = script.baseline THEN Proceed("settle") ELSE Goes(Raise(script, "requirement"))
  /\ LeavesStack /\ UNCHANGED causes

\* A reading the gateway refuses with 422 before its handler runs.
SendMalformed ==
  /\ At({"malformed"}) /\ services["gateway"] = "up"
  /\ Proceed("malformed")
  /\ LeavesStack /\ UNCHANGED causes

-----------------------------------------------------------------------------

\* run_isolated.py has a stack of its own, just started; the readings measure_v3.py
\* finds in another one are not counted.
Init ==
  /\ services = [s \in Service |-> "starting"]
  /\ gateway = [r \in Reading |-> "none"]
  /\ cloud = [r \in Reading |-> "none"]
  /\ rows = NoRows
  /\ counters = [c \in CounterNames |-> 0]
  /\ \E p \in Plans :
       script = [plan |-> p, stage |-> 1, step |-> Opening(p), n |-> 0, sent |-> 0,
                 first |-> 0, statuses |-> [r \in Reading |-> None], before |-> 0,
                 baseline |-> None, before_stop |-> NoRows, stopped |-> None,
                 summary |-> None, retained |-> None, error |-> None]
  /\ registry \in Registries /\ (isolated => registry.known = 0)
  /\ mishaps = 0 /\ causes = {}

ScriptStep ==
  \/ StackIsHealthy \/ ReadBaseline \/ CompareBaseline \/ SendMalformed
  \/ Send \/ HearAnswer \/ ConnectionBreaks \/ GiveUp
  \/ ReadBefore \/ CompareReceipts \/ TakeSnapshot \/ TakeFinal \/ Look
  \/ InjectInvalidEnvelope \/ Poll \/ RequestFails \/ CeilingPasses
  \/ Stop \/ Start \/ Restart \/ Restore
  \/ BecomesHealthy \/ StaysUnhealthy \/ CommandFails

\* What the stack does after the script is not followed.
Next ==
  \/ StackStep /\ ~At({"ended"})
  \/ ScriptStep \/ TargetVerified \/ TargetRefused

Spec == Init /\ [][Next]_vars

\* Only the script owes anything: its waits have timeouts and its loops ceilings,
\* but not the docker calls that verify the control target.
FairSpec == Spec /\ WF_vars(ScriptStep)

-----------------------------------------------------------------------------

\* What delivery_counts calls an agreement of acknowledgements with storage: a
\* reading answered 200 was in a snapshot, and nothing observed before the outage
\* is missing after it.  It holds although statuses, snapshots and the cloud's
\* restart are three separate observations, and late handlers go on between them.
\* Neither is the marker of a recovery missing that has been measured.
AcknowledgementsAreObserved ==
  /\ script.summary # None =>
       /\ script.summary.acknowledged_never_observed = 0
       /\ script.summary.lost_across_restart = 0
       /\ script.summary.duplicates = 0
  /\ script.retained # FALSE

\* The scripts blame the stack only when something has gone wrong in it.  A reading
\* reported as failed is stored nevertheless, and a receipt delta is not one, only if
\* a hop has given up waiting or a process has ended; a counter goes back only with
\* its process; and a failed requirement or an unexpected status needs one of these,
\* a storage error, or a gateway that knows as many devices as it may.
VerdictsHaveACause ==
  /\ script.summary # None /\ script.summary.failed_but_observed > 0 =>
       causes \cap {"timeout", "crash"} # {}
  /\ script.error = "receipt delta" => causes \cap {"timeout", "crash"} # {}
  /\ script.error = "counter reset" => "crash" \in causes
  /\ script.error \in {"requirement", "unexpected status", "marker not stored"} =>
       causes \cap {"timeout", "crash", "storage", "capacity"} # {}

\* However the script ends, what it has stopped is started again, unless docker
\* compose has refused to.  (run_isolated.py then removes its stack.)
StackIsRestored ==
  script.step = "ended" =>
    \/ \A s \in Service : services[s] # "down"
    \/ causes \cap {"start", "restart"} # {}

\* Every fault is counted before its injection is answered: no poll that is answered
\* comes too early, and detection_seconds is the duration of the injection and one
\* poll.  Only a process that ends by itself takes the count with it.
EveryPollSeesTheFault ==
  At({"poll"}) =>
    IF scenario = "gateway-outage"
      THEN services["gateway"] # "up"
      ELSE counters[Watched] > script.before \/ "crash" \in causes

\* Whatever the stack does, and however docker compose stops, starts and restarts
\* it, the scenarios come to an end: the script can hang only where it asks docker,
\* without a timeout, for the containers it is going to control.
ScriptEnds == <>[](At({"ended", "verify"}))

=============================================================================
