---------------------------- MODULE DeviceSensor ----------------------------
(***************************************************************************)
(* The simulated sensor of device/device.py against the stuck detection of  *)
(* the gateway.  read_sensor injects faults; send_data posts each read and  *)
(* waits for the answer, but at most for its timeout, and goes on.  A read  *)
(* it has given up on may still be recorded, after a younger one.           *)
(*                                                                          *)
(* Temperatures are counted in steps of the drift.  The gateway keeps one   *)
(* record of SensorRegistry for this device; time does not matter here.     *)
(***************************************************************************)
EXTENDS SensorRegistry, Sequences

CONSTANTS
  Low, High,              \* the range of ordinary temperatures
  MinStuck, MaxStuck,     \* bounds of the length of a stuck episode
  MaxReads,               \* bound on the reads of a run
  MaxLate                 \* bound on the reads the device has given up on

VARIABLES
  temperature,            \* _current_temperature
  stuck_reads_remaining,  \* _stuck_reads_remaining
  waiting,                \* the device waits for the answer to its last post
  wire,                   \* reads posted and not yet recorded
  sensor,                 \* what the gateway keeps of this device, or None
  episodes,               \* the reads that were counted as sensor_stuck_episodes_total
  reads,                  \* history: number of reads
  stuck_since,            \* history: the read that began the stuck episode the
                          \* last read belongs to, or None
  recorded                \* history: the reads the gateway has recorded, in order

vars == <<temperature, stuck_reads_remaining, waiting, wire, sensor, episodes,
          reads, stuck_since, recorded>>
device_vars == <<temperature, stuck_reads_remaining, waiting, reads, stuck_since>>
gateway_vars == <<sensor, episodes, recorded>>

Temperatures == Low .. High

\* Ordinary temperatures are the normal reports of SensorRegistry, and
\* randint(3, 8) never makes an episode shorter than the gateway's threshold.
ASSUME SensorSettings ==
  /\ Low \in Int /\ High \in Int /\ Low <= High
  /\ Normal = Temperatures
  /\ MinStuck \in Nat /\ MaxStuck \in Nat /\ MinStuck <= MaxStuck
  /\ StuckThreshold <= MinStuck
ASSUME ReadBounds == MaxReads \in Nat /\ MaxLate \in Nat

Message == [read : Nat, report : Report]

TypeOK ==
  /\ temperature \in Temperatures
  /\ stuck_reads_remaining \in 0 .. MaxStuck
  /\ waiting \in BOOLEAN
  /\ wire \in SUBSET Message
  /\ sensor \in DeviceState \cup {None}
  /\ episodes \in SUBSET Nat
  /\ reads \in Nat
  /\ stuck_since \in Nat \cup {None}
  /\ recorded \in Seq(Nat)

Init ==
  /\ temperature \in Temperatures
  /\ stuck_reads_remaining = 0
  /\ waiting = FALSE
  /\ wire = {}
  /\ sensor = None
  /\ episodes = {}
  /\ reads = 0
  /\ stuck_since = None
  /\ recorded = <<>>

-----------------------------------------------------------------------------
(* read_sensor and the post of what it returns.                              *)

Post(report) ==
  /\ ~waiting
  /\ reads < MaxReads
  /\ reads' = reads + 1
  /\ wire' = wire \cup {[read |-> reads + 1, report |-> report]}
  /\ waiting' = TRUE
  /\ UNCHANGED gateway_vars

\* The roll decides: no response, an error sentinel, a stuck episode, drift.
ReadFault ==
  /\ stuck_reads_remaining = 0
  /\ \E report \in Sentinel \cup {Disconnect} : Post(report)
  /\ stuck_since' = None
  /\ UNCHANGED <<temperature, stuck_reads_remaining>>

\* Mutant: the first read of the episode is taken off twice.
StartStuckShort ==
  /\ stuck_reads_remaining = 0
  /\ Post(temperature)
  /\ \E length \in MinStuck .. MaxStuck : stuck_reads_remaining' = length - 2
  /\ stuck_since' = reads + 1
  /\ UNCHANGED temperature

StartStuck ==
  /\ stuck_reads_remaining = 0
  /\ Post(temperature)
  /\ \E length \in MinStuck .. MaxStuck : stuck_reads_remaining' = length - 1
  /\ stuck_since' = reads + 1
  /\ UNCHANGED temperature

ReadStuck ==
  /\ stuck_reads_remaining > 0
  /\ stuck_reads_remaining' = stuck_reads_remaining - 1
  /\ Post(temperature)
  /\ UNCHANGED <<temperature, stuck_since>>

Clamp(t) == IF t < Low THEN Low ELSE IF t > High THEN High ELSE t

\* Mutant: the drift is not kept in the range.
ReadDriftUnclamped ==
  /\ stuck_reads_remaining = 0
  /\ \E step \in {-1, 0, 1} : temperature' = temperature + step
  /\ Post(temperature')
  /\ stuck_since' = None
  /\ UNCHANGED stuck_reads_remaining

ReadDrift ==
  /\ stuck_reads_remaining = 0
  /\ \E step \in {-1, 0, 1} : temperature' = Clamp(temperature + step)
  /\ Post(temperature')
  /\ stuck_since' = None
  /\ UNCHANGED stuck_reads_remaining

\* The answer arrives, or the connection breaks: the read is no longer on its way.
Answered ==
  /\ waiting
  /\ \A m \in wire : m.read # reads
  /\ waiting' = FALSE
  /\ UNCHANGED <<temperature, stuck_reads_remaining, wire, gateway_vars, reads,
                 stuck_since>>

\* The timeout of requests.post, with the read still on its way.
GiveUp ==
  /\ waiting
  /\ Cardinality(wire) <= MaxLate
  /\ waiting' = FALSE
  /\ UNCHANGED <<temperature, stuck_reads_remaining, wire, gateway_vars, reads,
                 stuck_since>>

\* The device container is replaced.  What it has posted stays on its way.
RestartDevice ==
  /\ temperature' \in Temperatures
  /\ stuck_reads_remaining' = 0
  /\ waiting' = FALSE
  /\ Cardinality(wire) <= MaxLate
  /\ stuck_since' = None
  /\ UNCHANGED <<wire, gateway_vars, reads>>

-----------------------------------------------------------------------------
(* The gateway.                                                              *)

Current == IF sensor = None THEN NewDevice(0) ELSE sensor

RecordRead ==
  \E m \in wire :
    /\ wire' = wire \ {m}
    /\ sensor' = AfterReport(Current, m.report, 0)
    /\ episodes' =
         IF StartsEpisode(Current, m.report) THEN episodes \cup {m.read} ELSE episodes
    /\ recorded' = Append(recorded, m.read)
    /\ UNCHANGED device_vars

\* The connection is refused, or the registry is.
LoseRead ==
  /\ \E m \in wire : wire' = wire \ {m}
  /\ UNCHANGED <<device_vars, gateway_vars>>

RestartGateway ==
  /\ sensor' = None
  /\ episodes' = {}
  /\ recorded' = <<>>
  /\ UNCHANGED <<temperature, stuck_reads_remaining, waiting, wire, reads, stuck_since>>

Next ==
  \/ ReadFault \/ StartStuck \/ ReadStuck \/ ReadDrift
  \/ Answered \/ GiveUp \/ RestartDevice
  \/ RecordRead \/ LoseRead \/ RestartGateway

Spec == Init /\ [][Next]_vars

-----------------------------------------------------------------------------

Last(n) == {recorded[i] : i \in Len(recorded) - n + 1 .. Len(recorded)}
EpisodeReads == stuck_since .. reads

\* Whatever was lost or overtaken before, the gateway suspects the sensor as soon
\* as the last StuckThreshold reads it recorded belong to the running episode.
RunningEpisodesAreSuspected ==
  /\ stuck_since # None
  /\ Len(recorded) >= StuckThreshold
  /\ Last(StuckThreshold) \subseteq EpisodeReads
  => sensor # None /\ sensor.suspected_stuck

\* No injected episode is too short to be seen: once all its reads have been
\* recorded, in any order but with nothing between, the sensor is suspected.
InjectedEpisodesAreDetected ==
  /\ stuck_since # None
  /\ stuck_reads_remaining = 0
  /\ Len(recorded) >= Cardinality(EpisodeReads)
  /\ Last(Cardinality(EpisodeReads)) = EpisodeReads
  => sensor # None /\ sensor.suspected_stuck

InOrder == \A i, j \in DOMAIN recorded : i < j => recorded[i] < recorded[j]

\* While no read overtakes another, one injected episode is one event of
\* sensor_stuck_episodes_total, however long it lasts and whatever is lost.
EpisodesAreCountedOnce ==
  stuck_since # None /\ InOrder => Cardinality(episodes \cap EpisodeReads) <= 1

=============================================================================
