--------------------------- MODULE SensorRegistry ---------------------------
(***************************************************************************)
(* The data of gateway/app/sensor_state.py: what the gateway remembers of   *)
(* one device, and what one report does to it.  Every operator here runs    *)
(* under SensorStateTracker._lock in the code, so the modules that extend   *)
(* this one use each of them inside a single action.                        *)
(*                                                                          *)
(* A registry is a function on all devices; None stands for a device that   *)
(* _devices.get(device_id) does not find.                                   *)
(***************************************************************************)
EXTENDS Integers, FiniteSets

CONSTANTS
  Device,             \* device ids
  Normal,             \* temperatures that are ordinary measurements
  Sentinel,           \* temperatures the DS18B20 returns for a failed read
  Disconnect,         \* the report that the sensor did not answer at all
  None,               \* Python's None
  StuckThreshold,     \* SENSOR_STUCK_THRESHOLD
  SilenceTimeout,     \* SENSOR_SILENCE_TIMEOUT_SECONDS, in clock ticks
  MaxTrackedDevices   \* SENSOR_STATE_MAX_DEVICES

Report == Normal \cup Sentinel \cup {Disconnect}

DeviceState ==
  [last_contact : Nat,
   disconnected : BOOLEAN,
   last_normal_temperature : Normal \cup {None},
   identical_normal_readings : Nat,
   suspected_stuck : BOOLEAN]

\* What SensorStateTracker.__init__ accepts.
ASSUME TrackerSettings ==
  /\ StuckThreshold \in Nat /\ StuckThreshold >= 2
  /\ SilenceTimeout \in Nat \ {0}
  /\ MaxTrackedDevices \in Nat \ {0}

ASSUME ReportsDiffer ==
  /\ Normal \cap Sentinel = {}
  /\ Disconnect \notin Normal \cup Sentinel

ASSUME NoneIsNoValue ==
  /\ None \notin Normal
  /\ None \notin DeviceState
  /\ None \notin Nat

-----------------------------------------------------------------------------

Tracked(registry) == {d \in Device : registry[d] # None}

\* Mutants of Admits: room for one too many; room asked of known devices too.
AdmitsOneMore(registry, d) ==
  registry[d] # None \/ Cardinality(Tracked(registry)) <= MaxTrackedDevices

AdmitsByRoomOnly(registry, d) == Cardinality(Tracked(registry)) < MaxTrackedDevices

\* _check_capacity runs only for a device that is not yet known.
Admits(registry, d) ==
  registry[d] # None \/ Cardinality(Tracked(registry)) < MaxTrackedDevices

NewDevice(now) ==
  [last_contact |-> now,
   disconnected |-> FALSE,
   last_normal_temperature |-> None,
   identical_normal_readings |-> 0,
   suspected_stuck |-> FALSE]

Known(registry, d, now) ==
  IF registry[d] = None THEN NewDevice(now) ELSE registry[d]

\* Mutant: the count is cleared to None like the temperature.
ClearStuckStateToNone(state) ==
  [state EXCEPT !.last_normal_temperature = None,
                !.identical_normal_readings = None,
                !.suspected_stuck = FALSE]

ClearStuckState(state) ==
  [state EXCEPT !.last_normal_temperature = None,
                !.identical_normal_readings = 0,
                !.suspected_stuck = FALSE]

Repeats(state, temperature) == state.last_normal_temperature = temperature

\* Mutant: the count starts at 0 with another temperature.
RunLengthFromZero(state, temperature) ==
  IF Repeats(state, temperature) THEN state.identical_normal_readings + 1 ELSE 0

RunLength(state, temperature) ==
  IF Repeats(state, temperature) THEN state.identical_normal_readings + 1 ELSE 1

\* Mutant: another temperature does not reset suspected_stuck.
StillSuspectedAnyway(state, temperature) == state.suspected_stuck

StillSuspected(state, temperature) ==
  Repeats(state, temperature) /\ state.suspected_stuck

AfterNormal(state, temperature) ==
  [state EXCEPT
     !.last_normal_temperature = temperature,
     !.identical_normal_readings = RunLength(state, temperature),
     !.suspected_stuck = \/ StillSuspected(state, temperature)
                         \/ RunLength(state, temperature) >= StuckThreshold]

\* Mutant: a disconnect report is not taken as contact.
AfterContactUnlessDisconnect(state, report, now) ==
  [state EXCEPT !.last_contact = IF report = Disconnect THEN @ ELSE now,
                !.disconnected = (report = Disconnect)]

AfterContact(state, report, now) ==
  [state EXCEPT !.last_contact = now,
                !.disconnected = (report = Disconnect)]

\* The state record_reading or record_disconnect leaves, with now the clock
\* value the call read before it took the lock.
AfterReport(state, report, now) ==
  IF report \in Normal
    THEN AfterNormal(AfterContact(state, report, now), report)
    ELSE ClearStuckState(AfterContact(state, report, now))

\* Mutants: an episode starts with every reading at the threshold; only above it.
StartsEpisodeAgain(state, report) ==
  /\ report \in Normal
  /\ RunLength(state, report) >= StuckThreshold

StartsEpisodeAbove(state, report) ==
  /\ report \in Normal
  /\ RunLength(state, report) > StuckThreshold
  /\ ~StillSuspected(state, report)

\* record_reading returns True.
StartsEpisode(state, report) ==
  /\ report \in Normal
  /\ RunLength(state, report) >= StuckThreshold
  /\ ~StillSuspected(state, report)

AfterRecord(registry, d, report, now) ==
  [registry EXCEPT ![d] = AfterReport(Known(registry, d, now), report, now)]

-----------------------------------------------------------------------------
(* The gauges count these devices, each under the lock.                      *)

DisconnectedDevices(registry) == {d \in Tracked(registry) : registry[d].disconnected}

SuspectedDevices(registry) == {d \in Tracked(registry) : registry[d].suspected_stuck}

\* Mutant: silent only after the timeout has passed, not when it is reached.
SilentDevicesLate(registry, now) ==
  {d \in Tracked(registry) : now - registry[d].last_contact > SilenceTimeout}

SilentDevices(registry, now) ==
  {d \in Tracked(registry) : now - registry[d].last_contact >= SilenceTimeout}

EmptyRegistry == [d \in Device |-> None]

=============================================================================
