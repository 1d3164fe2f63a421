-------------------------- MODULE SensorStateProofs --------------------------
(***************************************************************************)
(* Proofs about SensorState, for every set of devices and handlers and      *)
(* every setting SensorStateTracker.__init__ accepts.                       *)
(***************************************************************************)
EXTENDS SensorState, SensorRegistryProofs, FiniteSetTheorems, TLAPS

-----------------------------------------------------------------------------
(* Types.                                                                    *)

\* Nothing in the tracker ever leaves its type: no counter becomes None, no
\* half-built device state is left behind by a refused or a cleared device.
THEOREM TypeCorrect == Spec => []TypeOK
<1>1. Init => TypeOK
  BY DEF Init, TypeOK, EmptyRegistry
<1>2. TypeOK /\ [Next]_vars => TypeOK'
  <2> SUFFICES ASSUME TypeOK, [Next]_vars
               PROVE  TypeOK'
    OBVIOUS
  <2> USE DEF TypeOK
  <2>1. CASE \E h \in Handler, d \in Device, report \in Report :
                BeginReport(h, d, report)
    BY <2>1 DEF BeginReport, history, Call
  <2>2. ASSUME NEW h \in Handler, RecordReport(h)
        PROVE  TypeOK'
    <3> DEFINE call == calls[h]
    <3>1. call \in Call /\ call.device \in Device /\ call.report \in Report
          /\ call.now \in Nat
      BY <2>2 DEF RecordReport, Call
    <3>2. devices' \in [Device -> DeviceState \cup {None}]
      BY <2>2, <3>1, AfterRecordType DEF RecordReport
    <3>3. log' \in [Device -> Seq(Report)]
      BY <2>2, <3>1 DEF RecordReport
    <3>4. heard' \in [Device -> Contact \cup {None}]
      BY <2>2, <3>1 DEF RecordReport, NewestContact, Contact
    <3>5. episodes' \in [Device -> Nat]
      BY <2>2, <3>1 DEF RecordReport
    <3>. QED
      BY <2>2, <3>2, <3>3, <3>4, <3>5 DEF RecordReport
  <2>3. ASSUME NEW h \in Handler, RefuseReport(h)
        PROVE  TypeOK'
    BY <2>3 DEF RefuseReport, history
  <2>4. CASE BeginSilentCount
    BY <2>4 DEF BeginSilentCount, history
  <2>5. CASE CountSilent
    BY <2>5 DEF CountSilent, history, SilentDevices, Tracked
  <2>6. CASE Clear
    BY <2>6 DEF Clear, ForgetReports, EmptyRegistry
  <2>7. CASE Restart
    BY <2>7 DEF Restart, ForgetReports, EmptyRegistry
  <2>8. CASE Tick
    BY <2>8 DEF Tick, history
  <2>9. CASE UNCHANGED vars
    BY <2>9 DEF vars
  <2>. QED
    BY <2>1, <2>2, <2>3, <2>4, <2>5, <2>6, <2>7, <2>8, <2>9 DEF Next
<1>. QED
  BY <1>1, <1>2, PTL DEF Spec

-----------------------------------------------------------------------------
(* Capacity.                                                                 *)

\* Cardinality says nothing of an infinite set, so the invariant carries both.
CapacityInv == IsFiniteSet(Tracked(devices)) /\ WithinCapacity

LEMMA CapacityInvariant == Spec => []CapacityInv
<1>1. Init => CapacityInv
  <2> SUFFICES ASSUME Init PROVE CapacityInv
    OBVIOUS
  <2>1. Tracked(devices) = {}
    BY DEF Init, Tracked, EmptyRegistry
  <2>. QED
    BY <2>1, FS_EmptySet, TrackerSettings DEF CapacityInv, WithinCapacity
<1>2. TypeOK /\ CapacityInv /\ [Next]_vars => CapacityInv'
  <2> SUFFICES ASSUME TypeOK, CapacityInv, [Next]_vars
               PROVE  CapacityInv'
    OBVIOUS
  <2>1. ASSUME NEW h \in Handler, RecordReport(h)
        PROVE  CapacityInv'
    <3> DEFINE call == calls[h]
    <3>1. call.device \in Device /\ call.report \in Report /\ call.now \in Nat
      BY <2>1 DEF RecordReport, TypeOK, Call
    <3>2. Tracked(devices') = Tracked(devices) \cup {call.device}
      <4>1. devices' = AfterRecord(devices, call.device, call.report, call.now)
        BY <2>1 DEF RecordReport
      <4>2. devices \in [Device -> DeviceState \cup {None}]
        BY DEF TypeOK
      <4>. HIDE DEF call
      <4>. QED
        BY <3>1, <4>1, <4>2, AfterRecordType
    <3>3. /\ IsFiniteSet(Tracked(devices'))
          /\ Cardinality(Tracked(devices')) =
               IF call.device \in Tracked(devices)
                 THEN Cardinality(Tracked(devices))
                 ELSE Cardinality(Tracked(devices)) + 1
      BY <3>2, FS_AddElement DEF CapacityInv
    <3>4. Cardinality(Tracked(devices)) \in Nat
      BY FS_CardinalityType DEF CapacityInv
    <3>5. \/ call.device \in Tracked(devices)
          \/ Cardinality(Tracked(devices)) < MaxTrackedDevices
      BY <2>1, <3>1 DEF RecordReport, Admits, Tracked
    <3>. QED
      BY <3>3, <3>4, <3>5, TrackerSettings DEF CapacityInv, WithinCapacity
  <2>2. ASSUME ForgetReports
        PROVE  CapacityInv'
    <3>1. Tracked(devices') = {}
      BY <2>2 DEF ForgetReports, Tracked, EmptyRegistry
    <3>. QED
      BY <3>1, FS_EmptySet, TrackerSettings DEF CapacityInv, WithinCapacity
  <2>3. CASE UNCHANGED devices
    BY <2>3 DEF CapacityInv, WithinCapacity, Tracked
  <2>4. \/ \E h \in Handler : RecordReport(h)
        \/ ForgetReports
        \/ UNCHANGED devices
    BY DEF Next, BeginReport, RefuseReport, BeginSilentCount, CountSilent,
           Clear, Restart, Tick, vars
  <2>. QED
    BY <2>1, <2>2, <2>3, <2>4
<1>. QED
  BY <1>1, <1>2, TypeCorrect, PTL DEF Spec

\* However many devices report for the first time at once, the registry never
\* holds more than max_tracked_devices of them.
THEOREM CapacityIsKept == Spec => []WithinCapacity
<1>1. CapacityInv => WithinCapacity
  BY DEF CapacityInv
<1>. QED
  BY <1>1, CapacityInvariant, PTL

-----------------------------------------------------------------------------
(* Time.                                                                     *)

\* A clock value read by a running call or scrape is at most MaxStall old.
Recent(now) == now <= clock /\ clock - now <= MaxStall

\* ContactWithinStall is not inductive: that a late call cannot move last_contact
\* back by more than MaxStall rests on the age of every waiting call.
StallInv ==
  /\ \A h \in Handler : calls[h] # None => Recent(calls[h].now)
  /\ silent_call # None => Recent(silent_call)
  /\ \A d \in Device :
       devices[d] # None =>
         /\ heard[d] # None
         /\ heard[d].at <= clock
         /\ devices[d].last_contact <= heard[d].at
         /\ heard[d].at - devices[d].last_contact <= MaxStall
  /\ \A d \in Device : heard[d] # None => devices[d] # None

LEMMA StallInvariant == Spec => []StallInv
<1> USE BoundsAreNaturals
<1>1. Init => StallInv
  BY DEF Init, StallInv, EmptyRegistry
<1>2. TypeOK /\ StallInv /\ [Next]_vars => StallInv'
  <2> SUFFICES ASSUME TypeOK, StallInv, [Next]_vars
               PROVE  StallInv'
    OBVIOUS
  <2>1. ASSUME NEW h \in Handler, NEW d \in Device, NEW report \in Report,
               BeginReport(h, d, report)
        PROVE  StallInv'
    BY <2>1 DEF BeginReport, history, StallInv, Recent, TypeOK
  <2>2. ASSUME NEW h \in Handler, RecordReport(h)
        PROVE  StallInv'
    <3> DEFINE call == calls[h]
               d == call.device
    <3>1. /\ call \in Call /\ call # None
          /\ d \in Device /\ call.report \in Report /\ call.now \in Nat
      BY <2>2 DEF RecordReport, TypeOK, Call
    <3>2. /\ devices' = AfterRecord(devices, d, call.report, call.now)
          /\ heard' = [heard EXCEPT ![d] = NewestContact(@, call)]
          /\ calls' = [calls EXCEPT ![h] = None]
          /\ UNCHANGED <<clock, silent_call>>
      BY <2>2 DEF RecordReport
    <3>3. Recent(call.now)
      BY <3>1 DEF StallInv
    <3> HIDE DEF call, d
    <3>4. /\ devices'[d] # None
          /\ devices'[d].last_contact = call.now
          /\ \A e \in Device \ {d} : devices'[e] = devices[e]
      <4>1. Known(devices, d, call.now) \in DeviceState
        BY <3>1, KnownType DEF TypeOK
      <4>2. \A s \in DeviceState :
              /\ AfterReport(s, call.report, call.now) \in DeviceState
              /\ AfterReport(s, call.report, call.now).last_contact = call.now
        BY <3>1, AfterReportContact
      <4>3. devices \in [Device -> DeviceState \cup {None}]
        BY DEF TypeOK
      <4>. QED
        BY <3>1, <3>2, <4>1, <4>2, <4>3, AfterRecordType, NoneIsNoValue
    <3>5. /\ heard'[d] = NewestContact(heard[d], call)
          /\ \A e \in Device \ {d} : heard'[e] = heard[e]
      BY <3>1, <3>2 DEF TypeOK
    <3>6. heard[d] # None => heard[d].at \in Nat /\ heard[d].at <= clock
      BY <3>1 DEF StallInv, TypeOK, Contact
    <3>7. /\ heard'[d] # None
          /\ heard'[d].at <= clock
          /\ call.now <= heard'[d].at
          /\ heard'[d].at - call.now <= MaxStall
      <4>1. clock \in Nat /\ call.now <= clock /\ clock - call.now <= MaxStall
        BY <3>3 DEF Recent, TypeOK
      <4>2. CASE heard[d] = None \/ call.now >= heard[d].at
        <5>1. heard'[d] = [report |-> call.report, at |-> call.now]
          BY <3>5, <4>2 DEF NewestContact
        <5>2. heard'[d] # None /\ heard'[d].at = call.now
          BY <3>1, <5>1, NoneIsNoRecord DEF Contact
        <5>. QED
          BY <3>1, <4>1, <5>2
      <4>3. CASE ~(heard[d] = None \/ call.now >= heard[d].at)
        <5>1. heard'[d] = heard[d]
          BY <3>5, <4>3 DEF NewestContact
        <5>. QED
          BY <3>1, <3>6, <4>1, <4>3, <5>1
      <4>. QED
        BY <4>2, <4>3
    <3>8. \A g \in Handler : calls'[g] # None => Recent(calls[g].now)'
      BY <3>2 DEF StallInv, Recent, TypeOK
    <3>9. \A e \in Device :
            /\ devices'[e] # None =>
                 /\ heard'[e] # None
                 /\ heard'[e].at <= clock'
                 /\ devices'[e].last_contact <= heard'[e].at
                 /\ heard'[e].at - devices'[e].last_contact <= MaxStall
            /\ heard'[e] # None => devices'[e] # None
      BY <3>2, <3>4, <3>5, <3>7 DEF StallInv
    <3>. QED
      BY <3>2, <3>8, <3>9 DEF StallInv, Recent
  <2>3. ASSUME NEW h \in Handler, RefuseReport(h)
        PROVE  StallInv'
    BY <2>3 DEF RefuseReport, history, StallInv, Recent, TypeOK
  <2>4. CASE BeginSilentCount
    BY <2>4 DEF BeginSilentCount, history, StallInv, Recent, TypeOK
  <2>5. CASE CountSilent
    BY <2>5 DEF CountSilent, history, StallInv, Recent
  <2>6. CASE Clear
    BY <2>6 DEF Clear, ForgetReports, EmptyRegistry, StallInv, Recent
  <2>7. CASE Restart
    BY <2>7 DEF Restart, ForgetReports, EmptyRegistry, StallInv, Recent
  <2>8. CASE Tick
    <3>1. \A h \in Handler : calls[h] # None => calls[h].now \in Nat
      BY DEF TypeOK, Call
    <3>2. \A d \in Device : heard[d] # None => heard[d].at \in Nat
      BY DEF TypeOK, Contact
    <3>. QED
      BY <2>8, <3>1, <3>2 DEF Tick, history, StallInv, Recent, TypeOK
  <2>9. CASE UNCHANGED vars
    BY <2>9 DEF vars, StallInv, Recent
  <2>. QED
    BY <2>1, <2>2, <2>3, <2>4, <2>5, <2>6, <2>7, <2>8, <2>9 DEF Next
<1>. QED
  BY <1>1, <1>2, TypeCorrect, PTL DEF Spec

\* However calls overtake each other between the clock and the lock, the
\* last_contact of a device is its newest contact to within MaxStall.
THEOREM ContactIsRecent == Spec => []ContactWithinStall
<1>1. StallInv => ContactWithinStall
  BY DEF StallInv, ContactWithinStall, Tracked
<1>. QED
  BY <1>1, StallInvariant, PTL

\* silent_count errs by at most MaxStall in either direction.
THEOREM SilenceCountIsAccurate == Spec => SilenceIsAccurate
<1> DEFINE Accurate ==
      CountSilent =>
        \A d \in Tracked(devices) :
          IF d \in silent'
            THEN clock - heard[d].at >= SilenceTimeout - MaxStall
            ELSE clock - heard[d].at < SilenceTimeout + MaxStall
<1>1. TypeOK /\ StallInv /\ [Next]_vars => [Accurate]_vars
  <2> SUFFICES ASSUME TypeOK, StallInv, CountSilent, NEW d \in Tracked(devices)
               PROVE  IF d \in silent'
                        THEN clock - heard[d].at >= SilenceTimeout - MaxStall
                        ELSE clock - heard[d].at < SilenceTimeout + MaxStall
    OBVIOUS
  <2>1. /\ d \in Device /\ devices[d] # None
        /\ clock \in Nat
        /\ devices[d].last_contact \in Nat
        /\ heard[d] # None /\ heard[d].at \in Nat
    BY DEF TypeOK, StallInv, Tracked, DeviceState, Contact
  <2>2. /\ devices[d].last_contact <= heard[d].at
        /\ heard[d].at - devices[d].last_contact <= MaxStall
    BY <2>1 DEF StallInv
  <2>3. /\ silent_call \in Nat
        /\ silent_call <= clock /\ clock - silent_call <= MaxStall
    BY DEF CountSilent, TypeOK, StallInv, Recent
  <2>4. d \in silent' <=> silent_call - devices[d].last_contact >= SilenceTimeout
    BY DEF CountSilent, SilentDevices
  <2>. QED
    BY <2>1, <2>2, <2>3, <2>4, TrackerSettings, BoundsAreNaturals
<1>. QED
  BY <1>1, TypeCorrect, StallInvariant, PTL DEF Spec, SilenceIsAccurate

-----------------------------------------------------------------------------
(* The state of a device as a summary of its reports.                        *)

\* identical_normal_readings is the length of the longest run of one normal
\* temperature that ends the log; everything else follows from it.
Summarises(state, reports) ==
  LET n == state.identical_normal_readings
      last == state.last_normal_temperature
  IN /\ n \in 0 .. Len(reports)
     /\ n = 0 <=> last = None
     /\ n = 0 /\ reports # <<>> => reports[Len(reports)] \notin Normal
     /\ \A i \in 1 .. Len(reports) : i > Len(reports) - n => reports[i] = last
     /\ 0 < n /\ n < Len(reports) => reports[Len(reports) - n] # last
     /\ state.suspected_stuck <=> n >= StuckThreshold
     /\ state.disconnected <=> Reports!IsDisconnected(reports)

ReportInv ==
  \A d \in Device :
    IF devices[d] = None
      THEN log[d] = <<>>
      ELSE log[d] # <<>> /\ Summarises(devices[d], log[d])

LEMMA NewDeviceSummarises ==
  ASSUME NEW now \in Nat
  PROVE  Summarises(NewDevice(now), <<>>)
BY TrackerSettings DEF Summarises, NewDevice, Reports!IsDisconnected

\* The flag record_reading keeps is the predicate the specification states on
\* the whole log.
LEMMA SuspectedIsStuck ==
  ASSUME NEW state \in DeviceState, NEW reports \in Seq(Report),
         Summarises(state, reports)
  PROVE  state.suspected_stuck <=> Reports!IsStuck(reports)
<1> DEFINE n == state.identical_normal_readings
           last == state.last_normal_temperature
           len == Len(reports)
<1>1. /\ n \in 0 .. len /\ len \in Nat /\ n \in Nat
      /\ last \in Normal \cup {None}
      /\ n = 0 <=> last = None
      /\ n = 0 /\ reports # <<>> => reports[len] \notin Normal
      /\ \A i \in 1 .. len : i > len - n => reports[i] = last
      /\ 0 < n /\ n < len => reports[len - n] # last
      /\ state.suspected_stuck <=> n >= StuckThreshold
  BY DEF Summarises, DeviceState
<1>2. reports # <<>> <=> len > 0
  BY DEF len
<1> HIDE DEF n, last, len
<1>3. ASSUME n >= StuckThreshold
      PROVE  /\ len >= StuckThreshold
             /\ reports[len] \in Normal
             /\ \A i \in len - StuckThreshold + 1 .. len : reports[i] = reports[len]
  BY <1>1, <1>3, TrackerSettings
<1>4. ASSUME n < StuckThreshold, len >= StuckThreshold, reports[len] \in Normal
      PROVE  \E i \in len - StuckThreshold + 1 .. len : reports[i] # reports[len]
  <2>1. n > 0 /\ n < len
    BY <1>1, <1>2, <1>4, TrackerSettings
  <2>2. reports[len] = last /\ reports[len - n] # last
    BY <1>1, <2>1
  <2>3. len - n \in len - StuckThreshold + 1 .. len
    BY <1>1, <1>4, <2>1, TrackerSettings
  <2>. QED
    BY <2>2, <2>3
<1>. QED
  BY <1>1, <1>3, <1>4, TrackerSettings DEF Reports!IsStuck, len

\* One report keeps the summary a summary.
LEMMA AfterReportSummarises ==
  ASSUME NEW state \in DeviceState, NEW reports \in Seq(Report),
         NEW report \in Report, NEW now \in Nat,
         Summarises(state, reports)
  PROVE  Summarises(AfterReport(state, report, now), Append(reports, report))
<1> DEFINE after == AfterReport(state, report, now)
           longer == Append(reports, report)
           len == Len(reports)
           n == state.identical_normal_readings
           last == state.last_normal_temperature
<1>1. /\ longer \in Seq(Report) /\ longer # <<>>
      /\ Len(longer) = len + 1 /\ len \in Nat
      /\ longer[len + 1] = report
      /\ \A i \in 1 .. len : longer[i] = reports[i]
  OBVIOUS
<1>2. /\ n \in 0 .. len /\ n \in Nat
      /\ last \in Normal \cup {None}
      /\ n = 0 <=> last = None
      /\ n = 0 /\ reports # <<>> => reports[len] \notin Normal
      /\ \A i \in 1 .. len : i > len - n => reports[i] = last
      /\ 0 < n /\ n < len => reports[len - n] # last
      /\ state.suspected_stuck <=> n >= StuckThreshold
  BY DEF Summarises, DeviceState
<1>3. reports # <<>> <=> len > 0
  OBVIOUS
<1>4. after.disconnected <=> Reports!IsDisconnected(longer)
  <2>1. after.disconnected = (report = Disconnect)
    BY AfterReportContact
  <2>2. Reports!IsDisconnected(longer) <=> report = Disconnect
    BY <1>1 DEF Reports!IsDisconnected
  <2>. QED
    BY <2>1, <2>2
<1>5. ASSUME report \notin Normal
      PROVE  Summarises(after, longer)
  <2>1. /\ after.last_normal_temperature = None
        /\ after.identical_normal_readings = 0
        /\ after.suspected_stuck = FALSE
    BY <1>5, AfterReportFields
  <2> HIDE DEF after, longer
  <2>. QED
    BY <1>1, <1>4, <1>5, <2>1, TrackerSettings DEF Summarises
<1>6. ASSUME report \in Normal
      PROVE  Summarises(after, longer)
  <2>1. /\ after.last_normal_temperature = report
        /\ after.identical_normal_readings = RunLength(state, report)
        /\ after.suspected_stuck = (\/ StillSuspected(state, report)
                                    \/ RunLength(state, report) >= StuckThreshold)
    BY <1>6, AfterReportFields
  <2>2. report # None
    BY <1>6, NoneIsNoValue
  <2>3. CASE last = report
    <3>1. /\ RunLength(state, report) = n + 1
          /\ StillSuspected(state, report) <=> n >= StuckThreshold
      BY <1>2, <2>3 DEF RunLength, StillSuspected, Repeats
    <3>2. /\ after.identical_normal_readings = n + 1
          /\ after.suspected_stuck <=> n + 1 >= StuckThreshold
      BY <1>2, <2>1, <3>1, TrackerSettings
    <3>3. \A i \in 1 .. len + 1 : i > len + 1 - (n + 1) => longer[i] = report
      BY <1>1, <1>2, <2>3
    <3>4. n + 1 < len + 1 => longer[len + 1 - (n + 1)] # report
      <4> SUFFICES ASSUME n < len
                   PROVE  longer[len - n] # report
        BY <1>1, <1>2
      <4>1. len - n \in 1 .. len /\ n > 0
        BY <1>1, <1>2, <2>2, <2>3
      <4>. QED
        BY <1>1, <1>2, <2>3, <4>1
    <3> HIDE DEF after, longer, len, n, last
    <3>. QED
      BY <1>1, <1>2, <1>4, <2>1, <2>2, <3>2, <3>3, <3>4 DEF Summarises
  <2>4. CASE last # report
    <3>1. RunLength(state, report) = 1 /\ ~StillSuspected(state, report)
      BY <2>4 DEF RunLength, StillSuspected, Repeats
    <3>2. /\ after.identical_normal_readings = 1
          /\ after.suspected_stuck = FALSE
      BY <2>1, <3>1, TrackerSettings
    <3>3. len > 0 => reports[len] # report
      <4>1. CASE n = 0
        BY <1>2, <1>3, <1>6, <4>1
      <4>2. CASE n > 0
        BY <1>1, <1>2, <2>4, <4>2
      <4>. QED
        BY <1>2, <4>1, <4>2
    <3>4. 1 < len + 1 => longer[len + 1 - 1] # report
      BY <1>1, <3>3
    <3>5. \A i \in 1 .. len + 1 : i > len + 1 - 1 => longer[i] = report
      BY <1>1
    <3> HIDE DEF after, longer, len, n, last
    <3>. QED
      BY <1>1, <1>4, <2>1, <2>2, <3>2, <3>4, <3>5, TrackerSettings DEF Summarises
  <2>. QED
    BY <2>3, <2>4
<1>. QED
  BY <1>5, <1>6

\* record_reading returns True exactly when the log becomes stuck.
LEMMA EpisodeStarts ==
  ASSUME NEW state \in DeviceState, NEW reports \in Seq(Report),
         NEW report \in Report, NEW now \in Nat,
         Summarises(state, reports)
  PROVE  StartsEpisode(state, report) <=>
           /\ Reports!IsStuck(Append(reports, report))
           /\ ~Reports!IsStuck(reports)
<1> DEFINE after == AfterReport(state, report, now)
           n == state.identical_normal_readings
<1>1. state.suspected_stuck <=> Reports!IsStuck(reports)
  BY SuspectedIsStuck
<1>2. after.suspected_stuck <=> Reports!IsStuck(Append(reports, report))
  <2>1. after \in DeviceState
    BY AfterReportContact
  <2>2. Summarises(after, Append(reports, report))
    BY AfterReportSummarises
  <2>3. Append(reports, report) \in Seq(Report)
    OBVIOUS
  <2> HIDE DEF after
  <2>. QED
    BY <2>1, <2>2, <2>3, SuspectedIsStuck
<1>3. n \in Nat /\ (state.suspected_stuck <=> n >= StuckThreshold)
  BY DEF Summarises, DeviceState
<1>4. CASE report \notin Normal
  <2>1. after.suspected_stuck = FALSE
    BY <1>4, AfterReportFields
  <2>. QED
    BY <1>2, <1>4, <2>1 DEF StartsEpisode
<1>5. CASE report \in Normal
  <2>1. after.suspected_stuck = (\/ StillSuspected(state, report)
                                \/ RunLength(state, report) >= StuckThreshold)
    BY <1>5, AfterReportFields
  <2>2. StartsEpisode(state, report) <=>
          /\ RunLength(state, report) >= StuckThreshold
          /\ ~StillSuspected(state, report)
    BY <1>5 DEF StartsEpisode
  <2>3. CASE Repeats(state, report)
    <3>1. /\ RunLength(state, report) = n + 1
          /\ StillSuspected(state, report) <=> state.suspected_stuck
      BY <2>3 DEF RunLength, StillSuspected
    <3> HIDE DEF after, n
    <3>. QED
      BY <1>1, <1>2, <1>3, <2>1, <2>2, <3>1, TrackerSettings
  <2>4. CASE ~Repeats(state, report)
    <3>1. RunLength(state, report) = 1 /\ ~StillSuspected(state, report)
      BY <2>4 DEF RunLength, StillSuspected
    <3>2. ~after.suspected_stuck
      <4>1. ~(\/ StillSuspected(state, report)
              \/ RunLength(state, report) >= StuckThreshold)
        BY <3>1, TrackerSettings
      <4>. QED
        BY <2>1, <4>1
    <3>3. ~StartsEpisode(state, report)
      BY <2>2, <3>1, TrackerSettings
    <3>. QED
      BY <1>2, <3>2, <3>3
  <2>. QED
    BY <2>3, <2>4
<1>. QED
  BY <1>4, <1>5

-----------------------------------------------------------------------------
(* The tracker implements SensorReports.                                     *)

LEMMA RecordKeepsReportInv ==
  ASSUME TypeOK, ReportInv, NEW h \in Handler, RecordReport(h)
  PROVE  ReportInv'
<1> DEFINE call == calls[h]
           d == call.device
           state == Known(devices, d, call.now)
<1>1. d \in Device /\ call.report \in Report /\ call.now \in Nat
  BY DEF RecordReport, TypeOK, Call
<1>2. /\ devices' = AfterRecord(devices, d, call.report, call.now)
      /\ log' = [log EXCEPT ![d] = Append(@, call.report)]
  BY DEF RecordReport
<1> HIDE DEF call, d
<1>3. devices \in [Device -> DeviceState \cup {None}] /\ log \in [Device -> Seq(Report)]
  BY DEF TypeOK
<1>4. state \in DeviceState
  BY <1>1, <1>3, KnownType
<1>5. Summarises(state, log[d])
  BY <1>1, NewDeviceSummarises DEF ReportInv, Known
<1>6. log[d] \in Seq(Report)
  BY <1>1, <1>3
<1>7. /\ devices'[d] = AfterReport(state, call.report, call.now)
      /\ \A e \in Device \ {d} : devices'[e] = devices[e]
  BY <1>1, <1>2, <1>3, AfterRecordType
<1>8. /\ log'[d] = Append(log[d], call.report)
      /\ \A e \in Device \ {d} : log'[e] = log[e]
  BY <1>1, <1>2, <1>3
<1> HIDE DEF state
<1>9. Summarises(devices'[d], log'[d])
  BY <1>1, <1>4, <1>5, <1>6, <1>7, <1>8, AfterReportSummarises
<1>10. devices'[d] # None /\ log'[d] # <<>>
  <2>1. AfterReport(state, call.report, call.now) \in DeviceState
    BY <1>1, <1>4, AfterReportContact
  <2>. QED
    BY <1>6, <1>7, <1>8, <2>1, NoneIsNoValue
<1>11. \A e \in Device :
         IF devices'[e] = None
           THEN log'[e] = <<>>
           ELSE log'[e] # <<>> /\ Summarises(devices'[e], log'[e])
  BY <1>7, <1>8, <1>9, <1>10 DEF ReportInv
<1>. QED
  BY <1>11 DEF ReportInv, Summarises

LEMMA ReportInvariant == Spec => []ReportInv
<1>1. Init => ReportInv
  BY DEF Init, ReportInv, EmptyRegistry
<1>2. TypeOK /\ ReportInv /\ [Next]_vars => ReportInv'
  <2> SUFFICES ASSUME TypeOK, ReportInv, [Next]_vars
               PROVE  ReportInv'
    OBVIOUS
  <2>1. ASSUME NEW h \in Handler, RecordReport(h)
        PROVE  ReportInv'
    BY <2>1, RecordKeepsReportInv
  <2>2. ASSUME ForgetReports
        PROVE  ReportInv'
    BY <2>2 DEF ForgetReports, EmptyRegistry, ReportInv
  <2>3. CASE UNCHANGED <<devices, log>>
    BY <2>3 DEF ReportInv, Summarises
  <2>4. \/ \E h \in Handler : RecordReport(h)
        \/ ForgetReports
        \/ UNCHANGED <<devices, log>>
    BY DEF Next, BeginReport, RefuseReport, BeginSilentCount, CountSilent,
           Clear, Restart, Tick, vars, history
  <2>. QED
    BY <2>1, <2>2, <2>3, <2>4
<1>. QED
  BY <1>1, <1>2, TypeCorrect, PTL DEF Spec

\* What the registry counts is what the logs say.
GaugesAgree ==
  /\ Tracked(devices) = Reports!Heard(log)
  /\ DisconnectedDevices(devices) = {d \in Device : Reports!IsDisconnected(log[d])}
  /\ SuspectedDevices(devices) = {d \in Device : Reports!IsStuck(log[d])}

LEMMA GaugesOfLogs ==
  ASSUME TypeOK, ReportInv
  PROVE  GaugesAgree
<1>1. \A d \in Device :
        /\ devices[d] = None <=> log[d] = <<>>
        /\ devices[d] # None =>
             /\ devices[d] \in DeviceState
             /\ log[d] \in Seq(Report)
             /\ Summarises(devices[d], log[d])
  BY DEF TypeOK, ReportInv
<1>2. ASSUME NEW d \in Device, devices[d] # None
      PROVE  /\ devices[d].disconnected <=> Reports!IsDisconnected(log[d])
             /\ devices[d].suspected_stuck <=> Reports!IsStuck(log[d])
  <2>1. devices[d].disconnected <=> Reports!IsDisconnected(log[d])
    BY <1>1, <1>2 DEF Summarises
  <2>2. devices[d].suspected_stuck <=> Reports!IsStuck(log[d])
    BY <1>1, <1>2, SuspectedIsStuck
  <2>. QED
    BY <2>1, <2>2
<1>3. ~Reports!IsDisconnected(<<>>) /\ ~Reports!IsStuck(<<>>)
  BY TrackerSettings DEF Reports!IsDisconnected, Reports!IsStuck
<1>4. Tracked(devices) = Reports!Heard(log)
  BY <1>1 DEF Tracked, Reports!Heard
<1>5. DisconnectedDevices(devices) = {d \in Device : Reports!IsDisconnected(log[d])}
  BY <1>1, <1>2, <1>3 DEF DisconnectedDevices, Tracked
<1>6. SuspectedDevices(devices) = {d \in Device : Reports!IsStuck(log[d])}
  BY <1>1, <1>2, <1>3 DEF SuspectedDevices, Tracked
<1>. QED
  BY <1>4, <1>5, <1>6 DEF GaugesAgree

LEMMA GaugesInvariant == Spec => []GaugesAgree
<1>1. TypeOK /\ ReportInv => GaugesAgree
  BY GaugesOfLogs
<1>. QED
  BY <1>1, TypeCorrect, ReportInvariant, PTL

\* FiniteSets is instantiated once more inside SensorReports.
LEMMA SameCardinality == \A S : Reports!Cardinality(S) = Cardinality(S)
BY DEF Cardinality, Reports!Cardinality

LEMMA RecordRefines ==
  ASSUME TypeOK, ReportInv, GaugesAgree, GaugesAgree', NEW h \in Handler, RecordReport(h)
  PROVE  Reports!Next
<1> DEFINE call == calls[h]
           d == call.device
           state == Known(devices, d, call.now)
<1>1. d \in Device /\ call.report \in Report /\ call.now \in Nat
  BY DEF RecordReport, TypeOK, Call
<1>2. /\ Admits(devices, d)
      /\ log' = [log EXCEPT ![d] = Append(@, call.report)]
      /\ episodes' = [episodes EXCEPT ![d] =
            IF StartsEpisode(state, call.report) THEN @ + 1 ELSE @]
  BY DEF RecordReport
<1> HIDE DEF call, d
<1>3. d \in Reports!Heard(log) \/ Cardinality(Reports!Heard(log)) < MaxTrackedDevices
  BY <1>1, <1>2 DEF GaugesAgree, Admits, Tracked
<1>4. Reports!Gauges(log')
  BY DEF GaugesAgree, Reports!Gauges, Reports!IsDisconnected, Reports!IsStuck
<1>5. StartsEpisode(state, call.report) <=>
        Reports!IsStuck(log'[d]) /\ ~Reports!IsStuck(log[d])
  <2>1. state \in DeviceState
    BY <1>1, KnownType DEF TypeOK
  <2>2. Summarises(state, log[d])
    BY <1>1, NewDeviceSummarises DEF ReportInv, Known
  <2>3. log[d] \in Seq(Report) /\ log'[d] = Append(log[d], call.report)
    BY <1>1, <1>2 DEF TypeOK
  <2> HIDE DEF state
  <2>. QED
    BY <1>1, <2>1, <2>2, <2>3, EpisodeStarts
<1>6. episodes' = [episodes EXCEPT ![d] =
        IF Reports!IsStuck(log'[d]) /\ ~Reports!IsStuck(log[d]) THEN @ + 1 ELSE @]
  <2> HIDE DEF state
  <2>. QED
    BY <1>2, <1>5
<1>7. Reports!Receive(d, call.report)
  BY <1>2, <1>3, <1>4, <1>6, SameCardinality DEF Reports!Receive
<1>. QED
  BY <1>1, <1>7 DEF Reports!Next

\* The gauges and the episode starts of the concurrent, summarising tracker are
\* those of SensorReports, which reads them off the whole logs.
THEOREM TrackerImplementsReports == Spec => ImplementsReports
<1>1. Init => Reports!Init
  BY DEF Init, Reports!Init, EmptyRegistry, DisconnectedDevices, SuspectedDevices, Tracked
<1>2. TypeOK /\ ReportInv /\ GaugesAgree /\ GaugesAgree' /\ [Next]_vars
        => [Reports!Next]_Reports!vars
  <2> SUFFICES ASSUME TypeOK, ReportInv, GaugesAgree, GaugesAgree', [Next]_vars
               PROVE  Reports!Next \/ UNCHANGED Reports!vars
    BY DEF Reports!vars
  <2>1. ASSUME NEW h \in Handler, RecordReport(h)
        PROVE  Reports!Next
    BY <2>1, RecordRefines
  <2>2. ASSUME ForgetReports
        PROVE  Reports!Next
    <3>1. Reports!Gauges(log')
      BY DEF GaugesAgree, Reports!Gauges, Reports!IsDisconnected, Reports!IsStuck
    <3>. QED
      BY <2>2, <3>1 DEF ForgetReports, Reports!Forget, Reports!Next
  <2>3. CASE UNCHANGED <<devices, log, episodes>>
    BY <2>3 DEF Reports!vars, DisconnectedDevices, SuspectedDevices, Tracked
  <2>4. \/ \E h \in Handler : RecordReport(h)
        \/ ForgetReports
        \/ UNCHANGED <<devices, log, episodes>>
    BY DEF Next, BeginReport, RefuseReport, BeginSilentCount, CountSilent,
           Clear, Restart, Tick, vars, history
  <2>. QED
    BY <2>1, <2>2, <2>3, <2>4
<1>. QED
  BY <1>1, <1>2, TypeCorrect, ReportInvariant, GaugesInvariant, PTL
     DEF Spec, ImplementsReports, Reports!Spec

\* Only a device with no recorded report is refused, and only when the registry
\* holds exactly max_tracked_devices.
THEOREM KnownDevicesAreAdmitted == Spec => OnlyNewDevicesAreRefused
<1> DEFINE OnlyNew ==
      \A h \in Handler : RefuseReport(h) =>
        /\ log[calls[h].device] = <<>>
        /\ Cardinality(Reports!Heard(log)) = MaxTrackedDevices
<1>1. TypeOK /\ ReportInv /\ CapacityInv /\ [Next]_vars => [OnlyNew]_vars
  <2> SUFFICES ASSUME TypeOK, ReportInv, CapacityInv, NEW h \in Handler, RefuseReport(h)
               PROVE  /\ log[calls[h].device] = <<>>
                      /\ Cardinality(Reports!Heard(log)) = MaxTrackedDevices
    OBVIOUS
  <2>1. calls[h].device \in Device /\ ~Admits(devices, calls[h].device)
    BY DEF RefuseReport, TypeOK, Call
  <2>2. log[calls[h].device] = <<>>
    BY <2>1 DEF Admits, ReportInv
  <2>3. Cardinality(Tracked(devices)) \in Nat
    BY FS_CardinalityType DEF CapacityInv
  <2>4. Cardinality(Tracked(devices)) = MaxTrackedDevices
    BY <2>1, <2>3, TrackerSettings DEF Admits, CapacityInv, WithinCapacity
  <2>. QED
    BY <2>2, <2>4, GaugesOfLogs DEF GaugesAgree
<1>. QED
  BY <1>1, TypeCorrect, ReportInvariant, CapacityInvariant, PTL
     DEF Spec, OnlyNewDevicesAreRefused

=============================================================================
