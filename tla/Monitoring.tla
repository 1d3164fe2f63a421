----------------------------- MODULE Monitoring -----------------------------
(***************************************************************************)
(* Prometheus over a stack whose keys are rotated: the scrapes of up and of *)
(* secure_data_rejected_total and the rules ServiceUnavailable and          *)
(* SecureRequestRejected (alerts.yml).  A round is one scrape of the cloud  *)
(* and the evaluation of the rules after it (both every 15 s,               *)
(* prometheus.yml).                                                         *)
(***************************************************************************)
EXTENDS KeyRotation, AlertRules

CONSTANTS
  Window,      \* samples in the range of increase(), [5m]
  HoldDown,    \* rounds in the "for" of ServiceUnavailable, 2m
  MaxMissed    \* bound on the scrapes in a row that a running cloud misses

VARIABLES
  since,       \* rejections the cloud's process has counted since its last sample
  fresh,       \* whether this process has not been sampled yet
  gains,       \* the window of secure_data_rejected_total
  down_for,    \* evaluations in a row that found up == 0; from HoldDown + 1 on the
               \* alert fires and nothing tells them apart
  missed,      \* scrapes in a row that the running cloud has missed
  posted,      \* whether the gateway has sealed a reading in this round
  age          \* history: rounds since the last rejection

monitorVars == <<since, fresh, gains, down_for, missed, posted, age>>
vars == <<keyVars, monitorVars>>

ASSUME WindowSpansMissedScrapes == MaxMissed \in Nat /\ Window \in Nat /\ MaxMissed + 1 < Window
ASSUME MissedScrapesAreNoOutage == HoldDown \in Nat /\ MaxMissed <= HoldDown

TypeOK ==
  /\ KeysTypeOK
  /\ since \in 0 .. MaxMissed + 2
  /\ fresh \in BOOLEAN
  /\ gains \in [1 .. Window -> Nat \cup {None}]
  /\ down_for \in 0 .. HoldDown + 1
  /\ missed \in 0 .. MaxMissed
  /\ posted \in BOOLEAN
  /\ age \in 0 .. Window

Init ==
  /\ KeysInit
  /\ since = 0 /\ fresh = TRUE
  /\ gains = [i \in 1 .. Window |-> None]
  /\ down_for = 0 /\ missed = 0
  /\ posted = FALSE
  /\ age = Window

\* The process of the cloud is new: its counters start again.
Renewed == fresh' = TRUE /\ since' = 0 /\ missed' = 0
CloudStays == UNCHANGED <<since, fresh, missed>>

Operate ==
  /\ \/ \E force \in BOOLEAN : GenerateKeys(force)
     \/ WriteKeys \/ GenerationDies
     \/ \E selection \in Selections : Up(selection)
     \/ DeployEnds
     \/ Start("gateway") \/ Stop("gateway")
  /\ UNCHANGED monitorVars

\* A container that is up and has its keys already is left alone.
Deploy ==
  /\ DeployNext
  /\ IF Head(deploy.left) = "cloud" /\ ~(running["cloud"] /\ container["cloud"] = deploy.keys)
       THEN Renewed ELSE CloudStays
  /\ UNCHANGED <<gains, down_for, posted, age>>

RestartCloud ==
  /\ Start("cloud") \/ Stop("cloud")
  /\ Renewed
  /\ UNCHANGED <<gains, down_for, posted, age>>

\* At most one reading in a round.
Post ==
  /\ ~posted /\ posted' = TRUE
  /\ Seal
  /\ UNCHANGED <<since, fresh, gains, down_for, missed, age>>

\* Mutant: the rejection is answered only.
ReceiveUncounted ==
  /\ Arrive
  /\ UNCHANGED monitorVars

\* The cloud counts a rejection before it answers.
Receive ==
  /\ Arrive
  /\ IF Rejected THEN since' = since + 1 /\ age' = 0
                 ELSE UNCHANGED <<since, age>>
  /\ UNCHANGED <<fresh, gains, down_for, missed, posted>>

Evaluated == posted' = FALSE /\ age' = IF age < Window THEN age + 1 ELSE Window

\* Mutant: a good scrape does not end the outage.
ScrapeLeavesOutage ==
  /\ running["cloud"]
  /\ \E gain \in Gains(since, fresh) : gains' = Slide(gains, gain)
  /\ since' = 0 /\ fresh' = FALSE /\ missed' = 0
  /\ Evaluated
  /\ UNCHANGED <<keyVars, down_for>>

Scrape ==
  /\ running["cloud"]
  /\ \E gain \in Gains(since, fresh) : gains' = Slide(gains, gain)
  /\ since' = 0 /\ fresh' = FALSE /\ down_for' = 0 /\ missed' = 0
  /\ Evaluated
  /\ UNCHANGED keyVars

\* The cloud is down, or its answer comes too late.  How long beyond HoldDown makes
\* no difference to the rule, and is not counted.
ScrapeFails ==
  /\ IF running["cloud"] THEN missed < MaxMissed /\ missed' = missed + 1
                         ELSE UNCHANGED missed
  /\ gains' = Slide(gains, None)
  /\ down_for' = IF down_for <= HoldDown THEN down_for + 1 ELSE down_for
  /\ Evaluated
  /\ UNCHANGED <<keyVars, since, fresh>>

Round == Scrape \/ ScrapeFails

Next == Operate \/ Deploy \/ RestartCloud \/ Post \/ Receive \/ Round

Spec == Init /\ [][Next]_vars

\* Prometheus keeps scraping, the device keeps reporting and a request ends; nobody
\* has to generate, deploy or restart anything.
FairSpec == Spec /\ WF_vars(Round) /\ WF_vars(Post) /\ WF_vars(Receive)

-----------------------------------------------------------------------------

SecureRequestRejected == Increase(gains, None) > 0
ServiceUnavailable == Held(down_for, HoldDown)

\* increase() sees a rejection only between two samples of the same process; such a
\* rejection is alerted at once, whatever restarts and failed scrapes the window
\* still holds.
RejectionsAreAlerted ==
  [][Scrape /\ ~fresh /\ since > 0 => SecureRequestRejected']_vars

\* The counter of a new process, a gap and the edge of the window never look like a
\* rejection: the alert is there for no longer than the range of increase().
RejectionAlertsAreReal == SecureRequestRejected => age < Window

\* Keys that do not fit come to the attention of the operator as long as readings are
\* sent, and after a repair the alert goes away.
MismatchesAreReported ==
  LET Running == \A s \in Service : running[s]
  IN /\ <>[](Mismatch /\ Running) => []<>SecureRequestRejected
     /\ <>[](~Mismatch /\ Running) => <>[]~SecureRequestRejected

\* A cloud that stays down is reported, and it is not reported for ever when it is
\* back, though single scrapes go on failing.
OutagesAreReported ==
  /\ <>[]~running["cloud"] => <>[]ServiceUnavailable
  /\ <>[]running["cloud"] => <>[]~ServiceUnavailable

=============================================================================
