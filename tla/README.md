# Verification of the edge-to-cloud sensor system

TLA+ models, TLC configurations and TLAPS proofs for the system in this
repository: a simulated DS18B20 sensor posts readings to an edge gateway; the
gateway watches the health of the sensors, encrypts each reading and posts it to
a cloud service; the cloud stores it in SQLite; Prometheus scrapes both services
and Alertmanager delivers alerts to a local inbox.

## 1. Inventory

| Part | State it keeps | Operations | Talks to |
|---|---|---|---|
| Device (`device/device.py`) | current temperature, remaining stuck reads | `read_sensor`, `send_data`, loop with 5 s sleep | gateway, HTTP, 5 s timeout, no retry |
| Sensor state (`gateway/app/sensor_state.py`) | registry: per device last contact, disconnected flag, run of identical readings, stuck flag | `record_reading`, `record_disconnect`, three gauge counts, `clear` | called by handlers and by the scrape; one lock |
| Gateway handlers (`gateway/app/main.py`, `metrics.py`) | six counters | `POST /device-data`, `POST /device-status`, `/metrics` | sensor state, cloud client |
| Cloud client (`gateway/app/cloud_client.py`, `crypto.py`, `keys.py`) | the public key, read once | `send_to_cloud` | cloud, HTTP, 5 s timeout, no retry |
| Cloud ingestion (`cloud/app/main.py`, `metrics.py`) | counters per outcome, the private key, the legacy policy | `POST /data/secure`, `POST /data`, `GET /data` | storage |
| Cloud storage (`cloud/app/storage.py`) | table `readings` | `save_sensor_data`, `get_all_data` | SQLite, 5 s busy timeout per statement |
| Alert rules (`monitoring/prometheus/alerts.yml`), routing (`alertmanager.yml`) | pending and firing alerts | evaluation, `for`, grouping, repeats | both services' `/metrics`, the inbox |
| Alert inbox (`monitoring/alert-inbox/server.py`) | tables `notifications`, `readiness` | `POST /alerts`, `GET /alerts`, `GET /health` | SQLite |
| Key generation (`scripts/generate_keys.py`) | `.env` | write or refuse, `--force` | read by both services when they start |
| Evaluation (`scripts/evaluation/*.py`) | what has been sent, answered, observed and stopped | scenarios of `measure_v3.py`, their sequence in `run_isolated.py`, delivery accounting, polls, stop and start of services | `docker compose`, both services, HTTP |
| CI summary (`.github/scripts/junit_summary.py`) | none | XML to Markdown | CI |

Behaviours that are hard to test, each listed with its line and its properties
under `hazards` in `PROJECT.json`:

* **Threads.** FastAPI runs the (synchronous) handlers in a thread pool. The
  tracker reads its clock *before* it takes its lock, handlers increment counters
  after the lock is released, and a scrape reads metric after metric meanwhile.
* **One writer.** Cloud handlers open one SQLite connection per request and wait
  for each other's write lock, each statement up to the busy timeout.
* **Timeouts without retries.** Three timeouts of 5 s are nested: device over
  gateway over cloud over SQLite. A caller that gives up does not stop the callee.
* **Crashes.** Rows survive a restart of the cloud, counters and the gateway's
  registry do not, and compose (no `restart:` policy) starts nothing by itself.
* **Repetition.** Alertmanager posts again what was not acknowledged, while the
  first post may still be running and other groups of alerts post theirs; a read of
  the device may be recorded after a younger one.
* **Keys in four places.** `.env`, the containers' environments and the two
  processes each hold a key pair, and scripts, `docker compose` and restarts move
  them one at a time.
* **Observation from outside.** Prometheus and the evaluation scripts conclude from
  counters that start again at 0, scrapes that fail and snapshots taken one after
  the other, while late handlers go on.
* **Limits.** The registry holds a bounded number of devices, and each reading of the
  evaluation scripts is a new one; a stuck episode
  starts at a threshold; an envelope is accepted within a window of time; the inbox
  lists the newest hundred rows.

## 2. Modules and how they correspond to the code

```
SensorReports   <-- refines --  SensorState  --EXTENDS-->  SensorRegistry
                                Gateway      --EXTENDS-->  SensorRegistry
                                DeviceSensor --EXTENDS-->  SensorRegistry
ReadingDelivery <-- refines --  Delivery     --EXTENDS-->  Cloud
                                AlertInbox
                                Evaluation
AlertRules  <--EXTENDS--        Monitoring   --EXTENDS-->  KeyRotation
```

**SensorRegistry** is `sensor_state.py` without time and threads: the record of a
device and what one report makes of it. All of it runs under `_lock`, so the other
modules use each operator within one action. A device that `_devices.get` does
not find is `None`. Temperatures are model values, split into `Normal` and the
`Sentinel` values of `main.py`; only equality matters to the tracker. `Disconnect`
is the report of `record_disconnect`.

**SensorReports** is the abstract specification of the tracker: what the gauges
and the episode counter are, as functions of the sequence of reports of each
device. It knows no registry, no run length and no flags.

**SensorState** is the tracker with its callers. A call is two actions,
`BeginReport` (the clock is read) and `RecordReport` or `RefuseReport` (the locked
region), so another thread and the clock may move in between; `silent_count` is
`BeginSilentCount` and `CountSilent` for the same reason. `Clear` and `Restart`
empty the registry. `log`, `heard` and `episodes` are history variables.

**Gateway** is `main.py` and `metrics.py`: one action per statement that changes
something shared, in the order of the code, so a handler can be interrupted between
a counter and the next step. `Collect` reads one metric more for a scrape, in the
order in which `metrics.py` declares them, which is the order in which
`prometheus_client` collects them. The clock stands still here: the silence gauge
is in `SensorState`. The two series of `sensor_fault_readings_total` are one
counter.

**Cloud** is `cloud/app/main.py` with `storage.py`. `Verdict` is the chain of
checks of `receive_secure_data`. `save_sensor_data` is `Connect`, `Insert`,
`Commit`, each of which may wait and may fail (`FailWrite`); `Insert` takes the
write lock. `Commit` makes the row durable; answer and counter follow in a step of
their own. `Crash` loses the handlers and the counters and keeps the rows. The legacy
policy is read from the environment once per process, so it is a function of the
number of restarts (`LegacyPolicy`).

**ReadingDelivery** is what a device may rely on: the number of rows of a reading goes
from none to one, after it was sent, and stays one, and "ok" is told of a reading with its row. **Delivery** is the way of
its readings through gateway and cloud, with `Cloud` as it is; its rows are counted per
reading (`RowCounts`), so that a second row would be a step `ReadingDelivery` has not. The gateway is
reduced to the steps that matter for one reading; that its 503 comes from a full
registry is in `Gateway`.

**DeviceSensor** is `device.py` against one record of the gateway: `read_sensor` is
`ReadFault`, `StartStuck`, `ReadStuck` and `ReadDrift`, one per branch, each with the
post of what it returns; `send_data` ends with `Answered` or `GiveUp`. What is on its
way stays there until it is recorded or lost, in any order. Temperatures are counted
in steps of the drift, all of them ordinary; the rates of the faults are left out.
The assumption `StuckThreshold <= MinStuck` is the code's: `SENSOR_STUCK_THRESHOLD`
is 3 unless configured otherwise, and an episode takes `randint(3, 8)` reads.

**AlertInbox** is `server.py`: one action per SQLite statement, because the file
appears with the connection, the table with a statement that commits by itself, and
a row with the commit. `BodyTimesOut` is the socket's timeout, `LockTimesOut` that of
SQLite. Alertmanager is external: `alertmanager.yml` groups alerts by name and job, and
a group posts (`Notify`), hears the answer (`HearAnswer`) or gives up (`StopListening`,
while the inbox may go on) before it posts again, but waits for no other group. So posts of
several groups are under way at once, and their rows may come in another order than
they were sent. Which group sends when is `Schedules`: any schedule for the proofs.

**KeyRotation** follows a key pair from `generate_keys.py` to the processes. Key
pairs are numbered in the order of their generation. `GenerateKeys` truncates `.env`
(0 means a file without keys), `WriteKeys` fills it, `GenerationDies` is the death in
between. `Up` reads `.env` once, `DeployNext` creates or starts one container after
the other in the order of `depends_on`, `DeployEnds` may come before the last one.
`Stop` and `Start` keep the container and so its environment. `Seal` and `Arrive` are
`send_to_cloud` and the check of the cloud, reduced to whether the pairs fit.

**AlertRules** holds the two forms of the alert rules as operators on samples:
`increase()` over a range in which scrapes may be missing and counters may have
been reset, and a condition that must hold for some time. **Monitoring** puts them on
top of `KeyRotation`: `Round` is one scrape of the cloud (`Scrape` or `ScrapeFails`)
and the evaluation after it. The samples are kept as gains, which is what
`increase()` adds up: `Gains` is a set because Prometheus sees of a new process
either a reset or, if the new value is not below the old one, a difference. The
gateway posts at most one reading in a round; in the repository it is one in 5 s
against one scrape in 15 s, and only whether the counter has moved matters to the rule.
`MonitoringProofs` shows that this composition implements `KeyRotation`. A range adds
up with `TotalGain`, which counts pairs of a scrape and a rejection, so that the proofs
need no recursion.

**Evaluation** is `measure_v3.py` and `run_isolated.py` as one process against a small
stack. The script is a record with a position (`plan`, `stage`, `step`, `n`) and its
notes; `Raise` is an exception on its way through the `finally` clauses, `Finish` the
end of a scenario with the requirements of `run_isolated.py`, `delivery_counts` the
function of that name. Each request, snapshot, read of a counter and docker command is
an action, which may fail; a command that fails may have had its effect. `Following` is
what comes before the first scenario, in the order of the script it is (`Preparation`): the
health waits, the check of the control target, and for `run_isolated.py` the comparison of counters at rest and the
malformed reading. The gateway
and the cloud are reduced to the steps at which a reading is stored, counted and
answered; the gateway answers 503 (`RefuseDevice`) once it knows as many devices as it may,
and each reading is a new device. `EndsByItself` is a crash of either process, or a
command of somebody else: its handlers, counters and registry are gone, and it is either
dead or starting again. History `causes` is what has gone wrong: a timeout, a storage
error, a full registry, such an end, a failed command. What the stack does after the script has
ended is not followed.

Of the type invariants the runs check those whose record fields a step could leave
(`SensorState`, `Gateway`, `Cloud`, `DeviceSensor`, `AlertInbox`); those of `Monitoring`
and `Evaluation` are proved; that of `Delivery` documents the states.

The `MC` modules define constants and symmetry sets for TLC. A definition whose comment begins with
"Mutant" is a plausible bug of the definition below it; no specification uses it.

## 3. Runs

| Run | What it shows | Bounds |
|---|---|---|
| `sensor_state_reports` | The tracker implements `SensorReports`; the registry keeps its limit and refuses new devices only. | 3 devices for 2 places, 2 normal values and a sentinel, threshold 2, 3 reports per device, 2 threads. Runs can start, break and start again. The clock stands still: no formula of this run reads it. |
| `sensor_state_time` | How wrong `last_contact` and the silence gauge can be, and that quiet devices are counted in the end. | Timeout 3, calls stand at most 1 tick, reports until tick 3, clock until 8: every device is quiet long before the end. |
| `gateway` | Every reading is accounted for; what a sample can and cannot show, read failures and the disconnected gauge included; each request is answered though the cloud may stay silent. | 2 threads, 2 devices for 1 place, 3 requests (an episode needs 2). |
| `cloud` | Answers, counters and rows agree; replays are bounded; served rows stay; each handler ends. | 2 requests of all kinds, envelope times 0..3, clock until 5, window 1, busy timeout 1, 1 crash, after which the legacy endpoint is disabled. An envelope time may be ahead, in the window or behind; two requests with one timestamp are an envelope and its replay. |
| `delivery` | `Delivery` implements `ReadingDelivery`; the device gets on, whatever the servers do. | 3 readings, one crash of each server, an envelope time inside and one outside the window. The clock stands still: timeouts of callers are possible at any moment. |
| `device_sensor` | Injected episodes are long enough to be detected, and are counted once unless reads overtake each other. | 3 temperatures, threshold 3, episodes of 3 or 4 reads, 6 reads, one of which may be late. An episode of either length fits, with reads before it to be late. |
| `alert_inbox` | Answers and rows agree; what was acknowledged is listed, within a group in the order sent; a healthy inbox can be read; every request ends. | 2 threads, 3 posts, a list of 2 rows, 1 crash, and one group or two that take turns (`OneOrTwoGroups`). Three posts overfill the list; a late one and its repetition, or two groups at once, need two threads; an order within a group that another group's post comes between needs three posts. |
| `evaluation` | The scripts' verdicts on the stack are justified: acknowledged readings are observed; a stored reading reported as failed and a wrong number of receipts need a timeout or a process that ended by itself, a counter that went back needs such an end, other errors one of these, a storage error or a full registry; each poll sees its fault unless its process has ended. What was stopped is started again unless docker compose refuses, and the script ends, unless it hangs where it verifies its control target. | Each scenario alone and the isolated sequence of nine; 3 samples (the least that puts one before, into and after an outage), 1 attempt at recovery, 16 readings, which is what the sequence sends. Three registries: full at once, full within the first scenario, and with room for the 13 devices of the sequence up to its last restart of the gateway. Two things go wrong in the stack by themselves (`MaxMishaps`: a storage error, a forward that times out, a process that ends), on top of any number of the script's own timeouts, failing requests and failing commands; two, so that the crash of one process can meet a timeout, an error or a crash of the other. |
| `monitoring` | The cloud has the newer keys of the two; one generation always fits. Every rejection between two samples is alerted, an alert is never older than the range; mismatches and outages are reported in the end, and the reports end after the repair. | 3 key pairs (one in each container and one in `.env`), a range of 3 samples, a hold-down of 2 rounds, 1 missed scrape in a row: a gap, a reset and the edge of the range fit into one range. |

Three runs show where the code and a document disagree (`findings` in
`PROJECT.json`):

* `sensor_state_latest`: the disconnected gauge follows the report that was
  *applied* last, which need not be the latest contact.
* `gateway_read_failures`: a disconnect report refused at capacity is not counted.
* `delivery_failed_is_not_stored`: a delivery reported as failed may be stored.

**Fairness.** Handler threads are scheduled and locks are granted (weak fairness of
each handler's next step); time passes; Prometheus keeps scraping. In `gateway`
only the handlers' own steps are fair, in `evaluation` only the script (its requests
have timeouts and its loops ceilings; the stack owes nothing), in `monitoring` the
rounds, the gateway's posts and the end of a request: nobody has to generate, deploy
or restart, and the properties about repair speak of keys that fit from some point
on. Nothing is
assumed of clients, of the cloud as seen by the gateway, or of failures. For the
forward this is enough because `requests.post` has a timeout, for SQLite because
of the busy timeout, and for the device because of its own timeout: each of these
is a mutant that breaks the liveness property.

One wait of the scripts has neither a timeout nor fairness: `verify_control_target`
(`measure_v3.py:153,156`) asks docker with `check_output`. `ScriptEnds` therefore says
that a script which does not hang there ends. So it is with `up` before and `down` after the isolated run
(`run_isolated.py:134,149`), which the model leaves out.

Three things are idealised. The timeout of `requests` and that of a socket bound each wait for
the next bytes, not the whole exchange; in the models they bound the exchange, so a peer
that keeps sending a byte now and then is not covered by `EveryRequestEnds` and
`DeviceNeverBlocks`. And weak fairness of a waiting handler grants it SQLite's lock
eventually, which SQLite does not promise; there the busy timeout is what ends the wait in the code.

`CHECK_DEADLOCK FALSE` is set for the `Delivery` runs and for `evaluation`: a finite set of
readings and a script come to an end.

Two disagreements have no run, because they are about settings and about one poll of a
script: `generate_keys.py:28` offers `--force` "to replace its keys", but
`write_text` replaces the whole file, with the `GRAFANA_ADMIN_PASSWORD` that
`reliability-monitoring.md` says to keep there; and `verify_reliability.py:163` takes the
failure counter to be 1 as soon as the disconnected gauge is, though
one sample may have the gauge and not yet the counter (`SamplesAreCounted` says
by how much).

## 4. Proofs

All theorems hold for every value of the constants that the named assumptions
admit: any number of threads, devices, requests, any threshold, window or limit. What the
assumptions ask beyond natural numbers and a `None` of its own is what the code ensures:
a threshold of at least 2 and a registry of at least one place (`TrackerSettings`),
episodes not shorter than the threshold (`SensorSettings`, see `DeviceSensor` above), at
least 3 samples (`EnoughSamples`, `measure_v3.py:310`), a gateway that knows no more devices
than its limit (`RegistriesAreBounded`, `sensor_state.py:138-142`); or a limit to what is claimed: a
range longer than the scrapes missed in a row (`WindowSpansMissedScrapes`) and a hold-down
that spans them (`MissedScrapesAreNoOutage`).

`SensorStateProofs`:

* `TypeCorrect`: the type invariant.
* `CapacityIsKept`: `WithinCapacity` is not inductive without finiteness of the
  tracked set (`CapacityInv`), as `Cardinality` says nothing of infinite sets.
* `ContactIsRecent`, `SilenceCountIsAccurate`: `StallInv` adds that no waiting call
  is older than `MaxStall` and that no clock value kept anywhere is in the future.
* `TrackerImplementsReports`: a refinement. `ReportInv` says that the record of each
  device *summarises* its log: the run length is the length of the longest equal
  suffix, up to the report that cleared it, and the flag says whether it reached the
  threshold. The gauges agree with the logs in every such state (`GaugesAgree`);
  each action then is a step of `SensorReports` or a stutter.
* `KnownDevicesAreAdmitted`: the tracked devices are those with a log.

`CloudProofs`:

* `CloudTypeCorrect`: the type invariant.
* `StorageAgreesWithAnswers`: `StorageInv` relates the step of each handler with
  its rows: none before the commit, exactly one from the commit on, and a lost
  handler may have left one or none.
* `ServedReadingsArePermanent`: rows are appended to and nothing else, so what has been
  served stays a beginning of the table.
* `ReceiptsAreCommits`: `CountInv` counts the commits of the running process, which are
  the increments made and the handlers that have committed and not yet counted.
* `ReplaysStayInWindow`: `ReplayInv` bounds the time at each step of a handler: its
  envelope was checked within the window, and each statement it has waited for since then
  adds at most a busy timeout. The property alone says nothing of a handler under way.
* `DeliveryImplementsPromise`: a refinement, for `Delivery` with the `Cloud` it extends.
  `DeliveryRunsCloud` lifts the invariants of `Cloud` (every step of `Delivery` is one of
  `Cloud` or leaves it alone), `HopsInv` says how far the device and the gateway can
  be when the cloud's handler is at a step, and that nothing but a 200 is passed on as a
  success; by `AnswersAreFinal` no later step takes an answer back. Rows are counted, so
  the commit of a reading has to be its first, which is `StorageInv`'s "no row before the
  commit". Each step then is a step of `ReadingDelivery` or a stutter (`PromiseSteps`).

`DeviceSensorProofs`:

* `DeviceTypeCorrect`: the type invariant; the simulated temperature stays in range.
* `EpisodesAreSuspected`, `EpisodesAreLongEnough`: `EpisodeInv` says, for every k, that
  the gateway's run length is at least k if the last k reads it recorded belong to the
  running episode, that every read of the episode still on its way repeats the
  temperature, and that the reads of the episode and those still to come are together
  at least `MinStuck`. The properties speak of one k only, which is not inductive.
* `EpisodesAreCountedAtMostOnce`: `CountInv` says that once the running episode is counted
  and no read has overtaken another, the gateway suspects the sensor for the very
  temperature that the rest of the episode repeats, so that no later read of it can
  start another run.

`AlertInboxProofs`:

* `InboxTypeCorrect`: the type invariant.
* `AnswersAgreeWithRows`: `RowInv` follows the thread that serves a post: no row before
  its commit, one after it, no answer before it ends, and no other thread with the
  same post.
* `HealthImpliesTable`: `StorageInv`, a call past its CREATE TABLE knows of a table.
* `ListIsInOrder`, `ListIsComplete`: `ListInv` says that the list is a mirrored end of
  a beginning of the table which held what its reader knew, and that of two posts of one
  group, the earlier acknowledged and the later acknowledged or awaited, the earlier has
  the older row: a group sends nothing before it has heard or given up, so the row of
  what it acknowledges was there when it sent its next. Between groups there is no
  such order.

`MonitoringProofs`, on `KeyRotation` and `Monitoring`:

* `KeysReachTheCloudFirst`, `FirstKeysFit`: `KeysInv` adds to `CloudLeads` what a
  deployment in progress has seen: its pair is not older than the cloud's and not newer
  than the last generation, and once the gateway is next the cloud has it. `.env` never
  holds an old pair, so a later `up` cannot go back.
* `MonitoringRotatesKeys`: `Monitoring` implements `KeyRotation`, step by step; with it
  `CloudLeadsInStack` and `FirstKeysFitInStack` need no proof of their own.
* `MonitoringTypeCorrect`: the bound on the rejections between two samples is not
  inductive; `MonitorInv` counts with them the reading on its way and the one the
  gateway may still post in this round.
* `AlertsHaveRejections`, `SampledRejectionsAreAlerted`: `AlertInv` places every gain in
  the range: what was sampled before a gain, or before rejections not yet sampled, is
  older than the last rejection. A positive sum over the range (`TotalGain`) has a gain
  with an older sample before it, so the rejection lies within the range.

`EvaluationProofs`, where each operation first gets a lemma that says what it does to the
script's notes (`SendOutcome`, `HearAnswerOutcome`, ...), for any number of samples,
attempts and readings and any sequence of scenarios:

* Before the first scenario the script only observes. `Quiet` says that during this
  preparation no reading and no counter exists and nothing is stopped, and that what the
  script has waited for is up unless it crashed; `Begun`, that the first scenario (or an
  error) starts from there. Then `MeasureInv` holds, the conjunction of the invariants
  below, and `EvaluationInv`, one or the other, is inductive.
* `EvaluationTypeCorrect`: with the types `ControlInv`, the position in the scenario: which
  steps belong to it, how far the rounds are, and that `stopped` names a service exactly
  between stop and start. Nothing else in this list is inductive without it.
* `StackGetsRestored`: `ServicesInv`, that only what the script has stopped is down; what is dead has
  died by itself.
* `PollsSeeTheFault`: `PollInv`, that the counter of the fault does not fall below what was
  read before, and is above it as soon as the answer to the injection exists, as long as no
  process has ended by itself.
* `AcknowledgedIsObserved`: `DataInv` accounts for each reading in gateway, cloud, table,
  status and snapshot, and for the marker of a recovery. `CountsOf` turns the counts of
  `delivery_counts` into statements about sets of readings. A crash takes handlers away and
  leaves the rows, so this holds through all of them.
* `VerdictsAreCaused`: `CauseInv` has three layers. Always: while the script has stopped the
  cloud, a reading is not answered "ok", the finally clause of an outage is reached by an
  error only, the gateway answers 503 only when full (`FullHasCause`), and receipts go back
  only with a process (`ReceiptsGrow`). As long as nothing has timed out or ended by itself
  (`Uninterrupted`): no handler outlives the wait for its
  reading (`Settled`), a failure is answered of what is not stored (`InFlight`), every
  reading of the scenario has a status (`AllHeard`), receipts agree with statuses
  (`ReceiptsMatch`), and an outage has been noticed (`OutageNoticed`). As long as the storage
  has not failed and the registry has not been full either (`Untroubled`): with everything up,
  nothing fails. `RequirementsHold` derives the requirements of `run_isolated.py` from it.

`GatewayProofs`:

* `GatewayTypeCorrect`: the type invariant.
* `EveryReadingIsAccounted`, `SamplesAgreeWithCounters`, `EpisodesCoverSuspicions`:
  `GatewayInv` adds to the types that the threads in service and the tracked devices
  stay finite (so that they can be counted), which step serves which kind of report
  (`BranchInv`), and the equations between counters, answers and the threads under way
  (`CountInv`). A sample is followed metric by metric: from the moment failures are
  read they stay below the live attempts, and below the sampled attempts from there on.
  Each step moves one thread, so each number changes by at most one (`OneThreadMoves`);
  what a report adds to a gauge, its thread is about to count (`RecordMovesGauges`).

`SensorRegistryProofs` holds the lemmas about one report that `SensorStateProofs`,
`DeviceSensorProofs` and `GatewayProofs` share.

Every invariant and every action property that a passing run checks is thus a theorem, and
so are the refinements. Only model-checked is liveness (`QuietDevicesAreCounted`,
`EveryRequestEnds`, `DeviceNeverBlocks`, `ScriptEnds`, `MismatchesAreReported`,
`OutagesAreReported`): it rests on fairness and `ENABLED`, out of the prover's reach. The
three disagreements of section 3 are counterexamples TLC finds.

## 5. Not modelled

* Cryptography: ML-KEM and AES-GCM are libraries; whether an envelope decrypts is
  an input, in `KeyRotation` whether the pairs fit.
* Validation messages, logging, formatting, the CI summary: no state.
* Grafana, networks, volumes as such: configuration.
* The two ratio rules (`CloudDeliveryFailures`, `SensorFaultRate`): quotients of
  extrapolated rates say nothing on instances small enough to check. The other rules
  have the forms of the two that are modelled.
* Alertmanager's intervals and Prometheus itself, beyond what the inbox and the rules
  see of them.
* `verify_reliability.py`: a straight sequence of requirements on the behaviour of
  `Gateway`, `Cloud`, `Monitoring` and `AlertInbox`; what it expects of them is checked
  there, and where its expectation races with a scrape is said above.
* In the evaluation scripts: parsing of metrics, latency percentiles, what
  `verify_control_target` compares (it proceeds, refuses or hangs), and the building and
  removal of the isolated stack in `main` of `run_isolated.py`.
* Settings other than the keys in `.env`.

## 6. Plan

Done: sensor state, gateway, cloud, delivery, device, alert inbox; key rotation,
alert rules and their composition; the evaluation scripts; proofs of their safety. Left:

1. Proofs about the operators on their own: that `delivery_counts` and `TotalGain` agree
   with the sums the code forms, for windows and readings of any number.
2. The cloud of `Evaluation` as an abstraction of `Cloud`, by a refinement like that of
   `Delivery`.
3. Alertmanager between `Monitoring` and `AlertInbox`: its intervals, repeats and resolved
   notifications.
