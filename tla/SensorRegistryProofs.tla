------------------------ MODULE SensorRegistryProofs ------------------------
(***************************************************************************)
(* Lemmas about the operators of SensorRegistry: what one report does to    *)
(* the state of one device, field by field.                                 *)
(***************************************************************************)
EXTENDS SensorRegistry, TLAPS


\* A device is found or created: either way there is a state to update.
LEMMA KnownType ==
  ASSUME NEW registry \in [Device -> DeviceState \cup {None}],
         NEW d \in Device, NEW now \in Nat
  PROVE  Known(registry, d, now) \in DeviceState
BY DEF Known, NewDevice, DeviceState

\* Contact touches the first two fields only.
LEMMA AfterContactFields ==
  ASSUME NEW state \in DeviceState, NEW report \in Report, NEW now \in Nat
  PROVE  /\ AfterContact(state, report, now) \in DeviceState
         /\ AfterContact(state, report, now).last_contact = now
         /\ AfterContact(state, report, now).disconnected = (report = Disconnect)
         /\ AfterContact(state, report, now).last_normal_temperature
              = state.last_normal_temperature
         /\ AfterContact(state, report, now).identical_normal_readings
              = state.identical_normal_readings
         /\ AfterContact(state, report, now).suspected_stuck = state.suspected_stuck
BY DEF AfterContact, DeviceState

\* An ordinary temperature touches the other three only.
LEMMA AfterNormalFields ==
  ASSUME NEW state \in DeviceState, NEW temperature \in Normal
  PROVE  /\ AfterNormal(state, temperature) \in DeviceState
         /\ AfterNormal(state, temperature).last_contact = state.last_contact
         /\ AfterNormal(state, temperature).disconnected = state.disconnected
         /\ AfterNormal(state, temperature).last_normal_temperature = temperature
         /\ AfterNormal(state, temperature).identical_normal_readings
              = RunLength(state, temperature)
         /\ AfterNormal(state, temperature).suspected_stuck
              = (\/ StillSuspected(state, temperature)
                 \/ RunLength(state, temperature) >= StuckThreshold)
<1>1. RunLength(state, temperature) \in Nat
  BY DEF RunLength, DeviceState
<1>2. (\/ StillSuspected(state, temperature)
       \/ RunLength(state, temperature) >= StuckThreshold) \in BOOLEAN
  BY DEF StillSuspected
<1>. QED
  BY <1>1, <1>2 DEF AfterNormal, DeviceState

\* So does clearing.
LEMMA ClearedFields ==
  ASSUME NEW state \in DeviceState
  PROVE  /\ ClearStuckState(state) \in DeviceState
         /\ ClearStuckState(state).last_contact = state.last_contact
         /\ ClearStuckState(state).disconnected = state.disconnected
         /\ ClearStuckState(state).last_normal_temperature = None
         /\ ClearStuckState(state).identical_normal_readings = 0
         /\ ClearStuckState(state).suspected_stuck = FALSE
BY DEF ClearStuckState, DeviceState

\* A report of any kind is contact.
LEMMA AfterReportContact ==
  ASSUME NEW state \in DeviceState, NEW report \in Report, NEW now \in Nat
  PROVE  /\ AfterReport(state, report, now) \in DeviceState
         /\ AfterReport(state, report, now).last_contact = now
         /\ AfterReport(state, report, now).disconnected = (report = Disconnect)
<1> DEFINE contact == AfterContact(state, report, now)
<1>1. /\ contact \in DeviceState
      /\ contact.last_contact = now
      /\ contact.disconnected = (report = Disconnect)
  BY AfterContactFields
<1>2. AfterReport(state, report, now) =
        IF report \in Normal THEN AfterNormal(contact, report)
                             ELSE ClearStuckState(contact)
  BY DEF AfterReport
<1> HIDE DEF contact
<1>3. CASE report \in Normal
  <2>1. /\ AfterNormal(contact, report) \in DeviceState
        /\ AfterNormal(contact, report).last_contact = contact.last_contact
        /\ AfterNormal(contact, report).disconnected = contact.disconnected
    BY <1>1, <1>3, AfterNormalFields
  <2>. QED
    BY <1>1, <1>2, <1>3, <2>1
<1>4. CASE report \notin Normal
  <2>1. /\ ClearStuckState(contact) \in DeviceState
        /\ ClearStuckState(contact).last_contact = contact.last_contact
        /\ ClearStuckState(contact).disconnected = contact.disconnected
    BY <1>1, ClearedFields
  <2>. QED
    BY <1>1, <1>2, <1>4, <2>1
<1>. QED
  BY <1>3, <1>4

\* AfterContactFields, AfterNormalFields and ClearedFields put together.
LEMMA AfterReportFields ==
  ASSUME NEW state \in DeviceState, NEW report \in Report, NEW now \in Nat
  PROVE  /\ report \in Normal =>
              /\ AfterReport(state, report, now).last_normal_temperature = report
              /\ AfterReport(state, report, now).identical_normal_readings
                   = RunLength(state, report)
              /\ AfterReport(state, report, now).suspected_stuck
                   = (\/ StillSuspected(state, report)
                      \/ RunLength(state, report) >= StuckThreshold)
         /\ report \notin Normal =>
              /\ AfterReport(state, report, now).last_normal_temperature = None
              /\ AfterReport(state, report, now).identical_normal_readings = 0
              /\ AfterReport(state, report, now).suspected_stuck = FALSE
<1> DEFINE contact == AfterContact(state, report, now)
<1>1. /\ contact \in DeviceState
      /\ contact.last_normal_temperature = state.last_normal_temperature
      /\ contact.identical_normal_readings = state.identical_normal_readings
      /\ contact.suspected_stuck = state.suspected_stuck
  BY AfterContactFields
<1>2. AfterReport(state, report, now) =
        IF report \in Normal THEN AfterNormal(contact, report)
                             ELSE ClearStuckState(contact)
  BY DEF AfterReport
<1>3. /\ RunLength(contact, report) = RunLength(state, report)
      /\ StillSuspected(contact, report) = StillSuspected(state, report)
  BY <1>1 DEF RunLength, StillSuspected, Repeats
<1> HIDE DEF contact
<1>4. CASE report \in Normal
  <2>1. /\ AfterNormal(contact, report).last_normal_temperature = report
        /\ AfterNormal(contact, report).identical_normal_readings
             = RunLength(contact, report)
        /\ AfterNormal(contact, report).suspected_stuck
             = (\/ StillSuspected(contact, report)
                \/ RunLength(contact, report) >= StuckThreshold)
    BY <1>1, <1>4, AfterNormalFields
  <2>. QED
    BY <1>2, <1>3, <1>4, <2>1
<1>5. CASE report \notin Normal
  <2>1. /\ ClearStuckState(contact).last_normal_temperature = None
        /\ ClearStuckState(contact).identical_normal_readings = 0
        /\ ClearStuckState(contact).suspected_stuck = FALSE
    BY <1>1, ClearedFields
  <2>. QED
    BY <1>2, <1>5, <2>1
<1>. QED
  BY <1>4, <1>5

\* Recording a report touches one device and leaves it tracked.
LEMMA AfterRecordType ==
  ASSUME NEW registry \in [Device -> DeviceState \cup {None}],
         NEW d \in Device, NEW report \in Report, NEW now \in Nat
  PROVE  /\ AfterRecord(registry, d, report, now)
              \in [Device -> DeviceState \cup {None}]
         /\ AfterRecord(registry, d, report, now)[d]
              = AfterReport(Known(registry, d, now), report, now)
         /\ \A e \in Device \ {d} :
              AfterRecord(registry, d, report, now)[e] = registry[e]
         /\ Tracked(AfterRecord(registry, d, report, now))
              = Tracked(registry) \cup {d}
<1>1. AfterReport(Known(registry, d, now), report, now) \in DeviceState
  BY KnownType, AfterReportContact
<1>2. AfterReport(Known(registry, d, now), report, now) # None
  BY <1>1, NoneIsNoValue
<1>. QED
  BY <1>1, <1>2 DEF AfterRecord, Tracked

=============================================================================
