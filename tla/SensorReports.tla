--------------------------- MODULE SensorReports ---------------------------
(***************************************************************************)
(* What the gateway's sensor gauges promise, said without the registry:     *)
(* the gauges are a function of the reports each device has sent since the  *)
(* process started.  A device is disconnected when its last report says so; *)
(* it is stuck when its last StuckThreshold reports are one and the same    *)
(* normal temperature; an episode is counted each time it becomes stuck.    *)
(***************************************************************************)
EXTENDS Integers, Sequences, FiniteSets

CONSTANTS Device, Normal, Report, Disconnect, StuckThreshold, MaxTrackedDevices

VARIABLES
  log,            \* per device, its reports in the order they were recorded
  disconnected,   \* the devices counted by sensor_disconnected_devices
  stuck,          \* the devices counted by sensor_suspected_stuck_devices
  episodes        \* per device, its share of sensor_stuck_episodes_total

vars == <<log, disconnected, stuck, episodes>>

IsDisconnected(reports) ==
  reports # <<>> /\ reports[Len(reports)] = Disconnect

IsStuck(reports) ==
  /\ Len(reports) >= StuckThreshold
  /\ reports[Len(reports)] \in Normal
  /\ \A i \in Len(reports) - StuckThreshold + 1 .. Len(reports) :
        reports[i] = reports[Len(reports)]

Heard(logs) == {d \in Device : logs[d] # <<>>}

\* The gauges read what the logs say.
Gauges(logs) ==
  /\ disconnected' = {d \in Device : IsDisconnected(logs[d])}
  /\ stuck' = {d \in Device : IsStuck(logs[d])}

Init ==
  /\ log = [d \in Device |-> <<>>]
  /\ disconnected = {}
  /\ stuck = {}
  /\ episodes = [d \in Device |-> 0]

\* A report of d is recorded; a new device only while there is room for it.
Receive(d, report) ==
  /\ d \in Heard(log) \/ Cardinality(Heard(log)) < MaxTrackedDevices
  /\ log' = [log EXCEPT ![d] = Append(@, report)]
  /\ Gauges(log')
  /\ episodes' = [episodes EXCEPT ![d] =
        IF IsStuck(log'[d]) /\ ~IsStuck(log[d]) THEN @ + 1 ELSE @]

\* The registry is cleared, or the process restarts.
Forget ==
  /\ log' = [d \in Device |-> <<>>]
  /\ Gauges(log')
  /\ episodes' = [d \in Device |-> 0]

Next == Forget \/ \E d \in Device, report \in Report : Receive(d, report)

Spec == Init /\ [][Next]_vars

=============================================================================
