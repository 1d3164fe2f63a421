------------------------- MODULE DeviceSensorProofs -------------------------
(***************************************************************************)
(* Proofs about DeviceSensor: for every range of temperatures, every length *)
(* of the stuck episodes and every threshold that is not longer, and for    *)
(* any number of reads that are late, lost or overtaken.                    *)
(***************************************************************************)
EXTENDS DeviceSensor, SensorRegistryProofs, FiniteSetTheorems, TLAPS

\* What RecordRead hands to AfterReport.
LEMMA CurrentType ==
  ASSUME sensor \in DeviceState \cup {None}
  PROVE  Current \in DeviceState
BY DEF Current, NewDevice, DeviceState

\* The sensor's values stay in their ranges and the gateway's record keeps its type.
THEOREM DeviceTypeCorrect == Spec => []TypeOK
<1> USE SensorSettings, ReadBounds
<1>1. Init => TypeOK
  <2> SUFFICES ASSUME Init PROVE TypeOK
    OBVIOUS
  <2>1. /\ temperature \in Temperatures
        /\ stuck_reads_remaining \in 0 .. MaxStuck
        /\ recorded \in Seq(Nat)
    BY DEF Init
  <2>2. /\ waiting \in BOOLEAN
        /\ wire \in SUBSET Message
        /\ sensor \in DeviceState \cup {None}
        /\ episodes \in SUBSET Nat
        /\ reads \in Nat
        /\ stuck_since \in Nat \cup {None}
    BY DEF Init
  <2>. QED
    BY <2>1, <2>2 DEF TypeOK
<1>2. TypeOK /\ [Next]_vars => TypeOK'
  <2> SUFFICES ASSUME TypeOK, [Next]_vars
               PROVE  TypeOK'
    OBVIOUS
  <2> USE DEF TypeOK, device_vars, gateway_vars
  <2>1. CASE ReadFault
    BY <2>1 DEF ReadFault, Post, Message, Report
  <2>2. CASE StartStuck
    BY <2>2, TrackerSettings DEF StartStuck, Post, Message, Report
  <2>3. CASE ReadStuck
    BY <2>3 DEF ReadStuck, Post, Message, Report
  <2>4. CASE ReadDrift
    <3>1. temperature' \in Temperatures
      BY <2>4 DEF ReadDrift, Clamp, Temperatures
    <3>. QED
      BY <2>4, <3>1 DEF ReadDrift, Post, Message, Report
  <2>5. CASE Answered \/ GiveUp
    BY <2>5 DEF Answered, GiveUp
  <2>6. CASE RestartDevice
    <3>1. /\ temperature' \in Temperatures /\ stuck_reads_remaining' = 0
          /\ waiting' = FALSE /\ stuck_since' = None
          /\ UNCHANGED <<wire, sensor, episodes, recorded, reads>>
      BY <2>6 DEF RestartDevice
    <3>2. stuck_reads_remaining' \in 0 .. MaxStuck
      BY <3>1
    <3>. QED
      BY <3>1, <3>2
  <2>7. CASE RecordRead
    <3>1. PICK m \in wire :
            /\ wire' = wire \ {m}
            /\ sensor' = AfterReport(Current, m.report, 0)
            /\ episodes' = IF StartsEpisode(Current, m.report)
                             THEN episodes \cup {m.read} ELSE episodes
            /\ recorded' = Append(recorded, m.read)
            /\ UNCHANGED device_vars
      BY <2>7 DEF RecordRead
    <3>2. m.read \in Nat /\ m.report \in Report
      BY DEF Message
    <3>3. sensor' \in DeviceState
      BY <3>1, <3>2, CurrentType, AfterReportContact
    <3>4. recorded' \in Seq(Nat)
      BY <3>1, <3>2
    <3>5. episodes' \in SUBSET Nat /\ wire' \in SUBSET Message
      BY <3>1, <3>2
    <3>6. UNCHANGED <<temperature, stuck_reads_remaining, waiting, reads, stuck_since>>
      BY <3>1
    <3>. QED
      BY <3>3, <3>4, <3>5, <3>6
  <2>8. CASE LoseRead
    BY <2>8 DEF LoseRead
  <2>9. CASE RestartGateway
    BY <2>9 DEF RestartGateway
  <2>10. CASE UNCHANGED vars
    BY <2>10 DEF vars
  <2>. QED
    BY <2>1, <2>2, <2>3, <2>4, <2>5, <2>6, <2>7, <2>8, <2>9, <2>10 DEF Next
<1>. QED
  BY <1>1, <1>2, PTL DEF Spec

-----------------------------------------------------------------------------
(* Detection.                                                                *)

\* The last k reads recorded are reads of the running episode.
FromEpisode(k) ==
  \A i \in Len(recorded) - k + 1 .. Len(recorded) : recorded[i] >= stuck_since

\* The property speaks of the threshold only.  To be inductive, the run length
\* has to be known for every number of episode reads recorded last, and what is
\* on the wire has to be known to repeat the temperature.
EpisodeInv ==
  /\ \A m \in wire : m.read <= reads
  /\ \A i \in DOMAIN recorded : recorded[i] <= reads
  /\ stuck_reads_remaining > 0 => stuck_since # None
  /\ stuck_since # None =>
       /\ stuck_since <= reads
       /\ reads - stuck_since + 1 + stuck_reads_remaining >= MinStuck
       /\ \A m \in wire : m.read >= stuck_since => m.report = temperature
       /\ \A k \in 1 .. Len(recorded) :
            FromEpisode(k) => /\ sensor # None
                              /\ sensor.last_normal_temperature = temperature
                              /\ sensor.identical_normal_readings >= k
  /\ sensor # None /\ sensor.identical_normal_readings >= StuckThreshold
       => sensor.suspected_stuck

\* A read that belongs to no episode.
LEMMA NoEpisode ==
  ASSUME TypeOK, EpisodeInv, NEW report \in Report, Post(report),
         stuck_since' = None, stuck_reads_remaining' = 0
  PROVE  EpisodeInv'
BY DEF EpisodeInv, TypeOK, Post, gateway_vars, Message

\* Nothing changes but messages that disappear.
LEMMA FewerMessages ==
  ASSUME TypeOK, EpisodeInv, wire' \subseteq wire,
         UNCHANGED <<temperature, stuck_reads_remaining, reads, stuck_since, gateway_vars>>
  PROVE  EpisodeInv'
<1>1. \A k \in 1 .. Len(recorded) : FromEpisode(k)' = FromEpisode(k)
  BY DEF FromEpisode, gateway_vars
<1>. QED
  BY <1>1 DEF EpisodeInv, gateway_vars

\* A read of an episode: the first, or the next one.
LEMMA EpisodeRead ==
  ASSUME TypeOK, EpisodeInv, Post(temperature), temperature' = temperature,
         stuck_since' \in Nat,
         \/ stuck_since' = reads + 1
         \/ stuck_since' = stuck_since,
         reads' - stuck_since' + 1 + stuck_reads_remaining' >= MinStuck
  PROVE  EpisodeInv'
<1> USE NoneIsNoValue
<1>1. /\ reads \in Nat /\ reads' = reads + 1
      /\ wire' = wire \cup {[read |-> reads + 1, report |-> temperature]}
      /\ sensor' = sensor /\ recorded' = recorded
      /\ stuck_since' # None
  BY DEF Post, gateway_vars, TypeOK
<1>2. \A m \in wire : m \in Message /\ m.read \in Nat /\ m.read <= reads
  BY DEF TypeOK, Message, EpisodeInv
<1>3. \A i \in DOMAIN recorded : recorded[i] \in Nat /\ recorded[i] <= reads
  BY DEF TypeOK, EpisodeInv
<1>4. stuck_since' <= reads'
  <2>1. CASE stuck_since' = reads + 1
    BY <1>1, <2>1
  <2>2. CASE stuck_since' = stuck_since
    BY <1>1, <2>2 DEF EpisodeInv
  <2>. QED
    BY <2>1, <2>2
<1>5. \A m \in wire' : m.read >= stuck_since' => m.report = temperature'
  <2>1. CASE stuck_since' = reads + 1
    BY <1>1, <1>2, <2>1
  <2>2. CASE stuck_since' = stuck_since
    BY <1>1, <1>2, <2>2 DEF EpisodeInv
  <2>. QED
    BY <2>1, <2>2
<1>6. ASSUME NEW k \in 1 .. Len(recorded'), FromEpisode(k)'
      PROVE  /\ sensor' # None
             /\ sensor'.last_normal_temperature = temperature'
             /\ sensor'.identical_normal_readings >= k
  <2>1. Len(recorded) \in Nat /\ Len(recorded) \in DOMAIN recorded
    BY <1>1 DEF TypeOK
  <2>2. recorded[Len(recorded)] >= stuck_since'
    BY <1>1, <1>6, <2>1 DEF FromEpisode
  <2>3. stuck_since' = stuck_since
    BY <1>1, <1>3, <2>1, <2>2
  <2>4. FromEpisode(k)
    BY <1>1, <1>6, <2>3 DEF FromEpisode
  <2>. QED
    BY <1>1, <1>6, <2>3, <2>4 DEF EpisodeInv
<1>7. \A m \in wire' : m.read <= reads'
  BY <1>1, <1>2
<1>8. \A i \in DOMAIN recorded' : recorded'[i] <= reads'
  BY <1>1, <1>3
<1>. QED
  BY <1>1, <1>4, <1>5, <1>6, <1>7, <1>8 DEF EpisodeInv

LEMMA RecordedRead ==
  ASSUME TypeOK, EpisodeInv, RecordRead
  PROVE  EpisodeInv'
<1> USE NoneIsNoValue
<1>1. PICK m \in wire :
        /\ wire' = wire \ {m}
        /\ sensor' = AfterReport(Current, m.report, 0)
        /\ recorded' = Append(recorded, m.read)
        /\ UNCHANGED device_vars
  BY DEF RecordRead
<1>2. m.read \in Nat /\ m.report \in Report /\ m.read <= reads /\ Len(recorded) \in Nat
  BY DEF TypeOK, Message, EpisodeInv
<1>3. Current \in DeviceState
  BY CurrentType DEF TypeOK
<1>4. sensor' \in DeviceState /\ sensor' # None
  BY <1>1, <1>2, <1>3, AfterReportContact
<1>5. 0 \in Nat
  OBVIOUS
<1>6. /\ m.report \in Normal =>
           /\ sensor'.last_normal_temperature = m.report
           /\ sensor'.identical_normal_readings = RunLength(Current, m.report)
      /\ m.report \notin Normal => sensor'.identical_normal_readings = 0
  <2>1. /\ m.report \in Normal =>
             /\ AfterReport(Current, m.report, 0).last_normal_temperature = m.report
             /\ AfterReport(Current, m.report, 0).identical_normal_readings
                  = RunLength(Current, m.report)
        /\ m.report \notin Normal =>
             AfterReport(Current, m.report, 0).identical_normal_readings = 0
    BY <1>2, <1>3, <1>5, AfterReportFields, Zenon
  <2>. QED
    BY <1>1, <2>1, Zenon
<1>7. sensor'.identical_normal_readings >= StuckThreshold => sensor'.suspected_stuck
  <2>1. CASE m.report \in Normal
    <3>1. RunLength(Current, m.report) >= StuckThreshold => sensor'.suspected_stuck
      BY <1>1, <1>2, <1>3, <1>5, <2>1, AfterReportFields, Zenon
    <3>. QED
      BY <1>6, <2>1, <3>1
  <2>2. CASE m.report \notin Normal
    BY <1>6, <2>2, TrackerSettings
  <2>. QED
    BY <2>1, <2>2
<1>8. ASSUME stuck_since # None,
             NEW k \in 1 .. Len(recorded'), FromEpisode(k)'
      PROVE  /\ sensor'.last_normal_temperature = temperature'
             /\ sensor'.identical_normal_readings >= k
  <2>1. /\ Len(recorded') = Len(recorded) + 1
        /\ recorded'[Len(recorded) + 1] = m.read
        /\ \A i \in 1 .. Len(recorded) : recorded'[i] = recorded[i]
    BY <1>1, <1>2 DEF TypeOK
  <2>2. stuck_since' = stuck_since /\ temperature' = temperature
    BY <1>1 DEF device_vars
  <2>3. m.read >= stuck_since
    BY <1>2, <1>8, <2>1, <2>2 DEF FromEpisode
  <2>4. m.report = temperature /\ temperature \in Normal
    BY <1>8, <2>3, SensorSettings DEF EpisodeInv, TypeOK
  <2>5. CASE k = 1
    <3>1. RunLength(Current, temperature) >= 1
      BY <1>3 DEF RunLength, DeviceState
    <3>. QED
      BY <1>6, <2>2, <2>4, <2>5, <3>1
  <2>6. CASE k # 1
    <3>1. k - 1 \in 1 .. Len(recorded)
      BY <1>2, <2>1, <2>6
    <3>2. FromEpisode(k - 1)
      <4> SUFFICES ASSUME NEW i \in Len(recorded) - (k - 1) + 1 .. Len(recorded)
                   PROVE  recorded[i] >= stuck_since
        BY DEF FromEpisode
      <4>1. i \in 1 .. Len(recorded) /\ i \in Len(recorded') - k + 1 .. Len(recorded')
        BY <1>2, <2>1, <3>1
      <4>2. recorded'[i] >= stuck_since'
        BY <1>8, <4>1 DEF FromEpisode
      <4>. QED
        BY <2>1, <2>2, <4>1, <4>2
    <3>3. /\ sensor # None /\ sensor.last_normal_temperature = temperature
          /\ sensor.identical_normal_readings >= k - 1
      BY <1>8, <3>1, <3>2 DEF EpisodeInv
    <3>4. RunLength(Current, temperature) >= k
      BY <1>3, <3>1, <3>3 DEF Current, RunLength, Repeats, DeviceState
    <3>. QED
      BY <1>6, <2>2, <2>4, <3>4
  <2>. QED
    BY <2>5, <2>6
<1>9. \A i \in DOMAIN recorded' : recorded'[i] <= reads'
  BY <1>1, <1>2 DEF TypeOK, EpisodeInv, device_vars
<1>. QED
  BY <1>1, <1>4, <1>7, <1>8, <1>9 DEF EpisodeInv, device_vars

LEMMA EpisodeInvariant == Spec => []EpisodeInv
<1> USE NoneIsNoValue, SensorSettings
<1>1. Init => EpisodeInv
  BY DEF Init, EpisodeInv
<1>2. TypeOK /\ EpisodeInv /\ [Next]_vars => EpisodeInv'
  <2> SUFFICES ASSUME TypeOK, EpisodeInv, [Next]_vars
               PROVE  EpisodeInv'
    OBVIOUS
  <2>1. CASE ReadFault
    BY <2>1, NoEpisode DEF ReadFault, Report
  <2>2. CASE StartStuck
    <3>1. /\ Post(temperature) /\ temperature' = temperature
          /\ stuck_since' = reads + 1 /\ reads \in Nat /\ reads' = reads + 1
      BY <2>2 DEF StartStuck, Post, TypeOK
    <3>2. PICK length \in MinStuck .. MaxStuck : stuck_reads_remaining' = length - 1
      BY <2>2 DEF StartStuck
    <3>3. reads' - stuck_since' + 1 + stuck_reads_remaining' >= MinStuck
      BY <3>1, <3>2
    <3>. QED
      BY <3>1, <3>3, EpisodeRead
  <2>3. CASE ReadStuck
    <3>1. /\ Post(temperature) /\ temperature' = temperature
          /\ stuck_since' = stuck_since /\ reads \in Nat /\ reads' = reads + 1
          /\ stuck_reads_remaining \in Nat
          /\ stuck_reads_remaining' = stuck_reads_remaining - 1
      BY <2>3 DEF ReadStuck, Post, TypeOK
    <3>2. /\ stuck_since # None /\ stuck_since \in Nat
          /\ reads - stuck_since + 1 + stuck_reads_remaining >= MinStuck
      BY <2>3 DEF ReadStuck, EpisodeInv, TypeOK
    <3>3. reads' - stuck_since' + 1 + stuck_reads_remaining' >= MinStuck
      BY <3>1, <3>2
    <3>. QED
      BY <3>1, <3>2, <3>3, EpisodeRead
  <2>4. CASE ReadDrift
    <3>1. temperature' \in Report
      BY <2>4 DEF ReadDrift, Clamp, Temperatures, Report, TypeOK
    <3>2. Post(temperature') /\ stuck_since' = None /\ stuck_reads_remaining' = 0
      BY <2>4 DEF ReadDrift
    <3>. QED
      BY <3>1, <3>2, NoEpisode
  <2>5. CASE Answered \/ GiveUp \/ LoseRead
    <3>1. /\ wire' \subseteq wire
          /\ UNCHANGED <<temperature, stuck_reads_remaining, reads, stuck_since, gateway_vars>>
      BY <2>5 DEF Answered, GiveUp, LoseRead, device_vars
    <3>. QED
      BY <3>1, FewerMessages
  <2>6. CASE RestartDevice
    BY <2>6 DEF RestartDevice, EpisodeInv, TypeOK, gateway_vars
  <2>7. CASE RecordRead
    BY <2>7, RecordedRead
  <2>8. CASE RestartGateway
    BY <2>8 DEF RestartGateway, EpisodeInv
  <2>9. CASE UNCHANGED vars
    <3>1. /\ wire' \subseteq wire
          /\ UNCHANGED <<temperature, stuck_reads_remaining, reads, stuck_since, gateway_vars>>
      BY <2>9 DEF vars, gateway_vars
    <3>. QED
      BY <3>1, FewerMessages
  <2>. QED
    BY <2>1, <2>2, <2>3, <2>4, <2>5, <2>6, <2>7, <2>8, <2>9 DEF Next
<1>. QED
  BY <1>1, <1>2, DeviceTypeCorrect, PTL DEF Spec

LEMMA SuspicionFollows ==
  ASSUME TypeOK, EpisodeInv, stuck_since # None,
         NEW k \in 1 .. Len(recorded), k >= StuckThreshold,
         Last(k) \subseteq EpisodeReads
  PROVE  sensor # None /\ sensor.suspected_stuck
<1>1. FromEpisode(k)
  BY DEF Last, EpisodeReads, FromEpisode, TypeOK
<1>2. /\ sensor # None /\ sensor \in DeviceState
      /\ sensor.identical_normal_readings >= k
  BY <1>1 DEF EpisodeInv, TypeOK
<1>3. sensor.identical_normal_readings >= StuckThreshold
  BY <1>2, TrackerSettings DEF DeviceState
<1>. QED
  BY <1>2, <1>3 DEF EpisodeInv

\* Whatever is lost, late or overtaken: StuckThreshold episode reads in a row at
\* the gateway, in whatever order, make it suspect the sensor.
THEOREM EpisodesAreSuspected == Spec => []RunningEpisodesAreSuspected
<1>1. TypeOK /\ EpisodeInv => RunningEpisodesAreSuspected
  <2> SUFFICES ASSUME TypeOK, EpisodeInv, stuck_since # None,
                      Len(recorded) >= StuckThreshold,
                      Last(StuckThreshold) \subseteq EpisodeReads
               PROVE  sensor # None /\ sensor.suspected_stuck
    BY DEF RunningEpisodesAreSuspected
  <2>1. StuckThreshold \in 1 .. Len(recorded) /\ StuckThreshold >= StuckThreshold
    BY TrackerSettings DEF TypeOK
  <2>. QED
    BY <2>1, SuspicionFollows
<1>. QED
  BY <1>1, DeviceTypeCorrect, EpisodeInvariant, PTL

\* The device never injects an episode too short for the gateway's threshold.
THEOREM EpisodesAreLongEnough == Spec => []InjectedEpisodesAreDetected
<1>1. TypeOK /\ EpisodeInv => InjectedEpisodesAreDetected
  <2> DEFINE size == Cardinality(EpisodeReads)
  <2> SUFFICES ASSUME TypeOK, EpisodeInv, stuck_since # None,
                      stuck_reads_remaining = 0, Len(recorded) >= size,
                      Last(size) = EpisodeReads
               PROVE  sensor # None /\ sensor.suspected_stuck
    BY DEF InjectedEpisodesAreDetected
  <2>1. stuck_since \in Nat /\ reads \in Nat /\ stuck_since <= reads
    BY DEF TypeOK, EpisodeInv
  <2>2. size = reads - stuck_since + 1
    BY <2>1, FS_Interval DEF EpisodeReads
  <2>3. reads - stuck_since + 1 >= MinStuck
    BY <2>1, SensorSettings DEF EpisodeInv
  <2> HIDE DEF size
  <2>4. size \in 1 .. Len(recorded) /\ size >= StuckThreshold
    BY <2>1, <2>2, <2>3, SensorSettings, TrackerSettings DEF TypeOK
  <2>. QED
    BY <2>4, SuspicionFollows
<1>. QED
  BY <1>1, DeviceTypeCorrect, EpisodeInvariant, PTL

-----------------------------------------------------------------------------
(* Counting.                                                                 *)

Recorded == {recorded[i] : i \in DOMAIN recorded}

\* What is counted was recorded; and as long as nothing overtakes, the gateway still
\* suspects the sensor for the temperature of the running episode once it has counted
\* it, so that no later read of the episode can start another one.
CountInv ==
  /\ episodes \subseteq Recorded
  /\ stuck_since # None /\ InOrder =>
       \/ episodes \cap EpisodeReads = {}
       \/ /\ \E e \in episodes : episodes \cap EpisodeReads = {e}
          /\ sensor # None /\ sensor.suspected_stuck
          /\ sensor.last_normal_temperature = temperature

\* One more read is recorded, as the youngest one if nothing overtakes.
LEMMA AppendedRead ==
  ASSUME TypeOK, NEW r \in Nat, recorded' = Append(recorded, r)
  PROVE  /\ Recorded' = Recorded \cup {r}
         /\ InOrder' => InOrder /\ \A q \in Recorded : q < r
<1>1. /\ recorded \in Seq(Nat) /\ Len(recorded) \in Nat
      /\ DOMAIN recorded = 1 .. Len(recorded)
      /\ DOMAIN recorded' = 1 .. Len(recorded) + 1
      /\ \A i \in DOMAIN recorded : recorded'[i] = recorded[i]
      /\ recorded'[Len(recorded) + 1] = r
  BY DEF TypeOK
<1>2. Recorded' = Recorded \cup {r}
  BY <1>1 DEF Recorded
<1>3. ASSUME InOrder' PROVE InOrder /\ \A q \in Recorded : q < r
  BY <1>1, <1>3 DEF InOrder, Recorded
<1>. QED
  BY <1>2, <1>3

\* The device reads: a new episode has no read counted yet, and neither has the new
\* read of the running one.
LEMMA CountedWhileReading ==
  ASSUME TypeOK, EpisodeInv, CountInv, UNCHANGED gateway_vars,
         \/ stuck_since' = None
         \/ stuck_since' = reads + 1 /\ reads' = reads + 1
         \/ /\ stuck_since' = stuck_since /\ temperature' = temperature
            /\ reads' \in {reads, reads + 1}
  PROVE  CountInv'
<1>1. /\ UNCHANGED <<sensor, episodes, recorded>> /\ reads \in Nat
      /\ Recorded' = Recorded /\ InOrder' = InOrder
  BY DEF gateway_vars, TypeOK, Recorded, InOrder
<1>2. \A e \in episodes : e \in Nat /\ e <= reads
  BY DEF CountInv, EpisodeInv, Recorded, TypeOK
<1>3. CASE stuck_since' = None
  BY <1>1, <1>3 DEF CountInv
<1>4. CASE stuck_since' = reads + 1 /\ reads' = reads + 1
  <2>1. episodes \cap (reads + 1 .. reads + 1) = {}
    BY <1>1, <1>2
  <2>. QED
    BY <1>1, <1>4, <2>1 DEF CountInv, EpisodeReads
<1>5. CASE stuck_since' = stuck_since /\ stuck_since # None /\ temperature' = temperature
           /\ reads' \in {reads, reads + 1}
  <2>1. stuck_since \in Nat
    BY <1>5 DEF TypeOK
  <2>2. episodes \cap (stuck_since .. reads') = episodes \cap (stuck_since .. reads)
    BY <1>1, <1>2, <1>5, <2>1
  <2>. QED
    BY <1>1, <1>5, <2>2 DEF CountInv, EpisodeReads
<1>. QED
  BY <1>3, <1>4, <1>5

LEMMA CountedWhenRecorded == TypeOK /\ EpisodeInv /\ CountInv /\ RecordRead => CountInv'
<1> SUFFICES ASSUME TypeOK, EpisodeInv, CountInv, RecordRead
             PROVE  CountInv'
  OBVIOUS
<1> USE NoneIsNoValue
<1>1. PICK m \in wire :
        /\ sensor' = AfterReport(Current, m.report, 0)
        /\ episodes' = IF StartsEpisode(Current, m.report)
                         THEN episodes \cup {m.read} ELSE episodes
        /\ recorded' = Append(recorded, m.read)
        /\ UNCHANGED <<temperature, reads, stuck_since>>
  BY DEF RecordRead, device_vars
<1>2. /\ m.read \in Nat /\ m.read <= reads /\ m.report \in Report
      /\ Current \in DeviceState
  BY CurrentType DEF TypeOK, Message, EpisodeInv
<1>3. /\ Recorded' = Recorded \cup {m.read}
      /\ InOrder' => InOrder /\ \A q \in Recorded : q < m.read
  BY <1>1, <1>2, AppendedRead
<1>4. episodes' \subseteq Recorded'
  BY <1>1, <1>3 DEF CountInv
<1>5. EpisodeReads' = EpisodeReads
  BY <1>1 DEF EpisodeReads
<1>6. sensor' \in DeviceState /\ sensor' # None
  BY <1>1, <1>2, AfterReportContact
<1>7. ASSUME stuck_since # None, InOrder'
      PROVE  \/ episodes' \cap EpisodeReads = {}
             \/ /\ \E e \in episodes' : episodes' \cap EpisodeReads = {e}
                /\ sensor'.suspected_stuck /\ sensor'.last_normal_temperature = temperature
  <2>1. stuck_since \in Nat /\ InOrder /\ reads \in Nat
    BY <1>3, <1>7 DEF TypeOK
  <2>2. CASE m.read < stuck_since
    <3>1. m.read \notin EpisodeReads
      BY <1>2, <2>1, <2>2 DEF EpisodeReads
    <3>2. episodes \cap EpisodeReads = {}
      <4> SUFFICES ASSUME NEW e \in episodes, e \in EpisodeReads PROVE FALSE
        OBVIOUS
      <4>1. e \in Recorded /\ e \in Nat /\ stuck_since <= e
        BY <2>1 DEF CountInv, TypeOK, EpisodeReads
      <4>2. e < m.read
        BY <1>3, <1>7, <4>1
      <4>3. m.read \in Nat /\ stuck_since \in Nat /\ m.read < stuck_since
        BY <1>2, <2>1, <2>2
      <4>. QED
        BY <4>1, <4>2, <4>3
    <3>. QED
      BY <1>1, <3>1, <3>2
  <2>3. CASE m.read >= stuck_since
    <3>1. m.report = temperature /\ temperature \in Normal
      BY <1>7, <2>3, SensorSettings DEF EpisodeInv, TypeOK
    <3>2. /\ sensor'.last_normal_temperature = temperature
          /\ sensor'.suspected_stuck
               = (\/ StillSuspected(Current, temperature)
                  \/ RunLength(Current, temperature) >= StuckThreshold)
      <4>1. temperature \in Report /\ 0 \in Nat /\ sensor' = AfterReport(Current, temperature, 0)
        BY <1>1, <1>2, <3>1
      <4>. QED
        BY <1>2, <3>1, <4>1, AfterReportFields
    <3>3. m.read \in EpisodeReads
      BY <1>2, <2>1, <2>3 DEF EpisodeReads
    <3>4. CASE episodes \cap EpisodeReads = {}
      <4>1. CASE StartsEpisode(Current, temperature)
        <5>1. sensor'.suspected_stuck
          BY <3>2, <4>1 DEF StartsEpisode
        <5>2. m.read \in episodes' /\ episodes' \cap EpisodeReads = {m.read}
          BY <1>1, <3>1, <3>3, <3>4, <4>1
        <5>. QED
          BY <3>2, <5>1, <5>2
      <4>2. CASE ~StartsEpisode(Current, temperature)
        BY <1>1, <3>1, <3>4, <4>2
      <4>. QED
        BY <4>1, <4>2
    <3>5. CASE episodes \cap EpisodeReads # {}
      <4>1. /\ \E e \in episodes : episodes \cap EpisodeReads = {e}
            /\ sensor # None /\ sensor.suspected_stuck
            /\ sensor.last_normal_temperature = temperature
        BY <1>7, <2>1, <3>5 DEF CountInv
      <4>2. StillSuspected(Current, temperature)
        BY <4>1 DEF StillSuspected, Repeats, Current
      <4>3. episodes' = episodes
        BY <1>1, <3>1, <4>2 DEF StartsEpisode
      <4>4. sensor'.suspected_stuck
        BY <3>2, <4>2
      <4>. QED
        BY <3>2, <4>1, <4>3, <4>4
    <3>. QED
      BY <3>4, <3>5
  <2>. QED
    BY <1>2, <2>1, <2>2, <2>3
<1>. QED
  BY <1>1, <1>4, <1>5, <1>6, <1>7 DEF CountInv

LEMMA CountInvariant == Spec => []CountInv
<1>1. Init => CountInv
  BY DEF Init, CountInv
<1>2. TypeOK /\ EpisodeInv /\ CountInv /\ [Next]_vars => CountInv'
  <2> SUFFICES ASSUME TypeOK, EpisodeInv, CountInv, [Next]_vars
               PROVE  CountInv'
    OBVIOUS
  <2>1. CASE ReadFault \/ ReadDrift
    BY <2>1, CountedWhileReading DEF ReadFault, ReadDrift, Post
  <2>2. CASE StartStuck \/ ReadStuck
    BY <2>2, CountedWhileReading DEF StartStuck, ReadStuck, Post
  <2>3. CASE Answered \/ GiveUp
    BY <2>3, CountedWhileReading DEF Answered, GiveUp, gateway_vars
  <2>4. CASE LoseRead
    BY <2>4, CountedWhileReading DEF LoseRead, device_vars, gateway_vars
  <2>5. CASE RestartDevice
    BY <2>5, CountedWhileReading DEF RestartDevice
  <2>6. CASE RecordRead
    BY <2>6, CountedWhenRecorded
  <2>7. CASE RestartGateway
    BY <2>7 DEF RestartGateway, CountInv
  <2>8. CASE UNCHANGED vars
    BY <2>8, CountedWhileReading DEF vars, gateway_vars
  <2>. QED
    BY <2>1, <2>2, <2>3, <2>4, <2>5, <2>6, <2>7, <2>8 DEF Next
<1>. QED
  BY <1>1, <1>2, DeviceTypeCorrect, EpisodeInvariant, PTL DEF Spec

\* However long an episode lasts and whatever is lost: unless reads overtake each other
\* it is one event of sensor_stuck_episodes_total.
THEOREM EpisodesAreCountedAtMostOnce == Spec => []EpisodesAreCountedOnce
<1>1. CountInv => EpisodesAreCountedOnce
  <2> SUFFICES ASSUME CountInv, stuck_since # None, InOrder
               PROVE  Cardinality(episodes \cap EpisodeReads) <= 1
    BY DEF EpisodesAreCountedOnce
  <2>1. CASE episodes \cap EpisodeReads = {}
    <3>1. Cardinality(episodes \cap EpisodeReads) = 0
      BY <2>1, FS_EmptySet
    <3>. QED
      BY <3>1
  <2>2. CASE \E e \in episodes : episodes \cap EpisodeReads = {e}
    <3>1. Cardinality(episodes \cap EpisodeReads) = 1
      BY <2>2, FS_Singleton
    <3>. QED
      BY <3>1
  <2>. QED
    BY <2>1, <2>2 DEF CountInv
<1>. QED
  BY <1>1, CountInvariant, PTL

=============================================================================
