---------------------------- MODULE SensorState ----------------------------
(***************************************************************************)
(* The SensorStateTracker of gateway/app/sensor_state.py as its callers see *)
(* it.  Request handlers run in a thread pool; each call of record_reading  *)
(* or record_disconnect reads the monotonic clock first and takes the lock  *)
(* afterwards, so calls may be applied in another order than their clock    *)
(* readings.  The /metrics thread evaluates silent_count the same way.      *)
(***************************************************************************)
EXTENDS SensorRegistry, Sequences

CONSTANTS
  Handler,      \* the threads that serve requests
  MaxStall,     \* bound: ticks between a call's clock reading and its end
  LastCall,     \* bound: the last tick at which a device reports
  MaxTime,      \* bound on the clock
  MaxReports    \* bound on the reports of one device

VARIABLES
  clock,        \* time.monotonic()
  devices,      \* self._devices
  calls,        \* per handler, the call that waits for the lock, or None
  silent_call,  \* the clock value silent_count has read, or None
  silent,       \* the devices silent_count counted last
  log,          \* history: per device, the reports recorded in this process
  heard,        \* history: per device, its report with the newest clock value
  episodes      \* history: per device, how often record_reading returned True

vars == <<clock, devices, calls, silent_call, silent, log, heard, episodes>>
history == <<log, heard, episodes>>

Call == [device : Device, report : Report, now : Nat]
Contact == [report : Report, at : Nat]

ASSUME BoundsAreNaturals ==
  MaxStall \in Nat /\ LastCall \in Nat /\ MaxTime \in Nat /\ MaxReports \in Nat

ASSUME NoneIsNoRecord == None \notin Call /\ None \notin Contact

TypeOK ==
  /\ clock \in Nat
  /\ devices \in [Device -> DeviceState \cup {None}]
  /\ calls \in [Handler -> Call \cup {None}]
  /\ silent_call \in Nat \cup {None}
  /\ silent \in SUBSET Device
  /\ log \in [Device -> Seq(Report)]
  /\ heard \in [Device -> Contact \cup {None}]
  /\ episodes \in [Device -> Nat]

Init ==
  /\ clock = 0
  /\ calls = [h \in Handler |-> None]
  /\ silent_call = None
  /\ silent = {}
  /\ devices = EmptyRegistry
  /\ log = [d \in Device |-> <<>>]
  /\ heard = [d \in Device |-> None]
  /\ episodes = [d \in Device |-> 0]

-----------------------------------------------------------------------------

\* record_reading or record_disconnect starts: now = self._clock().
BeginReport(h, d, report) ==
  /\ calls[h] = None
  /\ clock <= LastCall /\ Len(log[d]) < MaxReports
  /\ calls' = [calls EXCEPT ![h] = [device |-> d, report |-> report, now |-> clock]]
  /\ UNCHANGED <<clock, devices, silent_call, silent, history>>

NewestContact(contact, call) ==
  IF contact = None \/ call.now >= contact.at
    THEN [report |-> call.report, at |-> call.now]
    ELSE contact

\* The locked region, for a device that is known or fits.
RecordReport(h) ==
  LET call == calls[h]
      d == call.device
  IN /\ call # None
     /\ Admits(devices, d)
     /\ devices' = AfterRecord(devices, d, call.report, call.now)
     /\ log' = [log EXCEPT ![d] = Append(@, call.report)]
     /\ heard' = [heard EXCEPT ![d] = NewestContact(@, call)]
     /\ episodes' = [episodes EXCEPT ![d] =
           IF StartsEpisode(Known(devices, d, call.now), call.report)
             THEN @ + 1 ELSE @]
     /\ calls' = [calls EXCEPT ![h] = None]
     /\ UNCHANGED <<clock, silent_call, silent>>

\* The locked region raises SensorStateCapacityError.
RefuseReport(h) ==
  /\ calls[h] # None
  /\ ~Admits(devices, calls[h].device)
  /\ calls' = [calls EXCEPT ![h] = None]
  /\ UNCHANGED <<clock, devices, silent_call, silent, history>>

\* Mutant: silence is evaluated only while a request is served.
BeginSilentCountOnRequest ==
  /\ silent_call = None
  /\ \E h \in Handler : calls[h] # None
  /\ silent_call' = clock
  /\ UNCHANGED <<clock, devices, calls, silent, history>>

\* silent_count: the clock, then the locked sum.  Prometheus scrapes at any time.
BeginSilentCount ==
  /\ silent_call = None
  /\ silent_call' = clock
  /\ UNCHANGED <<clock, devices, calls, silent, history>>

CountSilent ==
  /\ silent_call # None
  /\ silent' = SilentDevices(devices, silent_call)
  /\ silent_call' = None
  /\ UNCHANGED <<clock, devices, calls, history>>

ForgetReports ==
  /\ devices' = EmptyRegistry
  /\ log' = [d \in Device |-> <<>>]
  /\ heard' = [d \in Device |-> None]
  /\ episodes' = [d \in Device |-> 0]

Clear ==
  /\ ForgetReports
  /\ UNCHANGED <<clock, calls, silent_call, silent>>

\* The gateway process is replaced: the registry and every running call are lost.
Restart ==
  /\ ForgetReports
  /\ calls' = [h \in Handler |-> None]
  /\ silent_call' = None
  /\ silent' = {}
  /\ UNCHANGED clock

\* Time passes, but never leaves a running call more than MaxStall behind.
Tick ==
  /\ clock < MaxTime
  /\ \A h \in Handler : calls[h] # None => clock - calls[h].now < MaxStall
  /\ silent_call # None => clock - silent_call < MaxStall
  /\ clock' = clock + 1
  /\ UNCHANGED <<devices, calls, silent_call, silent, history>>

Next ==
  \/ \E h \in Handler, d \in Device, report \in Report : BeginReport(h, d, report)
  \/ \E h \in Handler : RecordReport(h) \/ RefuseReport(h)
  \/ BeginSilentCount
  \/ CountSilent
  \/ Clear
  \/ Restart
  \/ Tick

Spec == Init /\ [][Next]_vars

\* Threads that wait for a lock get it, scrapes keep coming, time passes.
Fairness ==
  /\ \A h \in Handler : WF_vars(RecordReport(h) \/ RefuseReport(h))
  /\ WF_vars(BeginSilentCount)
  /\ WF_vars(CountSilent)
  /\ WF_vars(Tick)

FairSpec == Spec /\ Fairness

-----------------------------------------------------------------------------

Reports == INSTANCE SensorReports WITH
  disconnected <- DisconnectedDevices(devices),
  stuck <- SuspectedDevices(devices)

\* The tracker keeps the promise of SensorReports: whatever the interleaving
\* of calls, the two gauges and the returned episode starts are those of the
\* order in which the reports went through the lock.
ImplementsReports == Reports!Spec

\* Checking for room and inserting are one locked step, so concurrent first
\* reports of several devices never push the registry past its limit.
WithinCapacity == Cardinality(Tracked(devices)) <= MaxTrackedDevices

\* A late call may move last_contact back behind a contact that was recorded
\* before it, but only by the time a call can stand between its clock reading
\* and the lock; and it never invents a contact newer than the newest one.
ContactWithinStall ==
  \A d \in Tracked(devices) :
    /\ devices[d].last_contact <= heard[d].at
    /\ heard[d].at - devices[d].last_contact <= MaxStall

\* When silent_count finishes, a device it counted has really sent nothing
\* for SilenceTimeout, and one it did not count has been heard within
\* SilenceTimeout, each to within the stall of the calls involved.
SilenceIsAccurate ==
  [][CountSilent =>
       \A d \in Tracked(devices) :
         IF d \in silent'
           THEN clock - heard[d].at >= SilenceTimeout - MaxStall
           ELSE clock - heard[d].at < SilenceTimeout + MaxStall]_vars

\* Without any further request, time and the scrapes alone bring every tracked
\* device that stopped reporting into sensor_silent_devices, and keep it there.
QuietDevicesAreCounted ==
  <>[](\A d \in Tracked(devices) : d \in silent)

\* A known device is never refused: room is needed for new devices only.
OnlyNewDevicesAreRefused ==
  [][\A h \in Handler : RefuseReport(h) =>
       /\ log[calls[h].device] = <<>>
       /\ Cardinality(Reports!Heard(log)) = MaxTrackedDevices]_vars

\* reliability-monitoring.md says of sensor_disconnected_devices that it counts
\* the devices "whose latest contact reports disconnect".
DisconnectedFollowsLatestContact ==
  \A d \in Tracked(devices) :
    devices[d].disconnected <=> heard[d].report = Disconnect

=============================================================================
