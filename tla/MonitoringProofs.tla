-------------------------- MODULE MonitoringProofs --------------------------
(***************************************************************************)
(* Proofs about KeyRotation and Monitoring, for any number of key pairs and *)
(* any range of increase(): which keys reach which process, that the        *)
(* monitored stack moves them as KeyRotation says, and that the alert on    *)
(* rejections follows the rejections.                                       *)
(***************************************************************************)
EXTENDS Monitoring, FiniteSetTheorems, TLAPS

-----------------------------------------------------------------------------
(* The keys, by KeyRotation alone.                                           *)

\* .env never has an old key pair, and a deployment in progress has one that is no
\* older than the cloud's container; it reaches the gateway after the cloud.
KeysInv ==
  /\ KeysTypeOK
  /\ CloudLeads
  /\ env \in KeyPair => env = generations /\ ~writing
  /\ deploy # None =>
       /\ container["cloud"] <= deploy.keys /\ deploy.keys <= generations
       /\ deploy.left = <<"gateway">> => container["cloud"] = deploy.keys

\* What is left of a deployment, in the order of the dependencies.
LEMMA RemainingServices ==
  Remaining = {<<>>, <<"gateway">>, <<"cloud">>, <<"cloud", "gateway">>}
<1>1. Tail(<<"cloud">>) = <<>>
  OBVIOUS
<1>2. Tail(<<"cloud", "gateway">>) = <<"gateway">>
  OBVIOUS
<1>. QED
  BY <1>1, <1>2 DEF Remaining, Selections, StartOrder

\* One step of a deployment: the cloud comes first.
LEMMA NextService ==
  ASSUME NEW left \in Remaining, left # <<>>
  PROVE  /\ Head(left) \in Service /\ Tail(left) \in Remaining
         /\ Head(left) = "gateway" => left = <<"gateway">> /\ Tail(left) = <<>>
         /\ Head(left) = "cloud" => Tail(left) \in {<<>>, <<"gateway">>}
<1>1. CASE left = <<"gateway">>
  <2>1. Head(left) = "gateway" /\ Tail(left) = <<>>
    BY <1>1
  <2>. QED
    BY <1>1, <2>1, RemainingServices DEF Service
<1>2. CASE left = <<"cloud">>
  <2>1. Head(left) = "cloud" /\ Tail(left) = <<>>
    BY <1>2
  <2>. QED
    BY <1>2, <2>1, RemainingServices DEF Service
<1>3. CASE left = <<"cloud", "gateway">>
  <2>1. Head(left) = "cloud" /\ Tail(left) = <<"gateway">>
    BY <1>3
  <2>. QED
    BY <1>3, <2>1, RemainingServices DEF Service
<1>. QED
  BY <1>1, <1>2, <1>3, RemainingServices

LEMMA KeysInitially == KeysInit => KeysInv
<1> SUFFICES ASSUME KeysInit PROVE KeysInv
  OBVIOUS
<1> USE MaxGenerationsIsNatural, NoneIsNoKeyPair DEF KeysInit
<1>1. KeysTypeOK
  <2>1. 0 \in 0 .. MaxGenerations
    OBVIOUS
  <2>2. container \in [Service -> 0 .. MaxGenerations] /\ running \in [Service -> BOOLEAN]
    BY <2>1
  <2>. QED
    BY <2>1, <2>2 DEF KeysTypeOK
<1>2. CloudLeads
  BY DEF CloudLeads, Service
<1>. QED
  BY <1>1, <1>2 DEF KeysInv, KeyPair, Service

LEMMA KeysInductive == KeysInv /\ [KeysNext]_keyVars => KeysInv'
<1> SUFFICES ASSUME KeysInv, [KeysNext]_keyVars
             PROVE  KeysInv'
  OBVIOUS
<1> USE MaxGenerationsIsNatural, NoneIsNoKeyPair
    DEF KeysInv, KeysTypeOK, CloudLeads, KeyPair, Service
<1>1. ASSUME NEW force \in BOOLEAN, GenerateKeys(force)
      PROVE  KeysInv'
  BY <1>1 DEF GenerateKeys
<1>2. CASE WriteKeys
  BY <1>2 DEF WriteKeys
<1>3. CASE GenerationDies
  BY <1>3 DEF GenerationDies
<1>4. ASSUME NEW selection \in Selections, Up(selection)
      PROVE  KeysInv'
  <2>1. selection \in Remaining /\ selection # <<"gateway">>
    BY DEF Remaining, Selections, StartOrder
  <2>. QED
    BY <1>4, <2>1 DEF Up
<1>5. CASE DeployNext
  <2> DEFINE s == Head(deploy.left)
             rest == Tail(deploy.left)
  <2>1. /\ deploy \in [keys : KeyPair, left : Remaining] /\ deploy.left # <<>>
        /\ container' = [container EXCEPT ![s] = deploy.keys]
        /\ running' = [running EXCEPT ![s] = TRUE]
        /\ deploy' = [deploy EXCEPT !.left = rest]
        /\ UNCHANGED <<env, writing, generations, sealed>>
    BY <1>5 DEF DeployNext
  <2>2. /\ s \in Service /\ rest \in Remaining
        /\ s = "gateway" => deploy.left = <<"gateway">> /\ rest = <<>>
        /\ s = "cloud" => rest \in {<<>>, <<"gateway">>}
    BY <2>1, NextService
  <2>3. /\ container["cloud"] <= deploy.keys /\ deploy.keys <= generations
        /\ deploy.left = <<"gateway">> => container["cloud"] = deploy.keys
    BY <1>5 DEF DeployNext
  <2>4. <<>> # <<"gateway">>
    OBVIOUS
  <2> HIDE DEF s, rest
  <2>5. deploy' \in [keys : KeyPair, left : Remaining] /\ deploy'.keys = deploy.keys
          /\ deploy'.left = rest
    BY <2>1, <2>2
  <2>6. CASE s = "cloud"
    BY <2>1, <2>3, <2>5, <2>6
  <2>7. CASE s = "gateway"
    BY <2>1, <2>2, <2>3, <2>4, <2>5, <2>7
  <2>. QED
    BY <2>2, <2>6, <2>7
<1>6. CASE DeployEnds
  BY <1>6 DEF DeployEnds
<1>7. ASSUME NEW s \in Service, Stop(s)
      PROVE  KeysInv'
  BY <1>7 DEF Stop
<1>8. ASSUME NEW s \in Service, Start(s)
      PROVE  KeysInv'
  BY <1>8 DEF Start
<1>9. CASE Seal
  BY <1>9 DEF Seal
<1>10. CASE Arrive
  BY <1>10 DEF Arrive
<1>11. CASE UNCHANGED keyVars
  BY <1>11 DEF keyVars
<1>. QED
  BY <1>1, <1>2, <1>3, <1>4, <1>5, <1>6, <1>7, <1>8, <1>9, <1>10, <1>11 DEF KeysNext

LEMMA KeysInvariant == KeysSpec => []KeysInv
BY KeysInitially, KeysInductive, PTL DEF KeysSpec

LEMMA InvImpliesFit == KeysInv => OneGenerationFits
<1> SUFFICES ASSUME KeysInv PROVE OneGenerationFits
  OBVIOUS
<1>1. ASSUME generations <= 1, Rejected, sealed # None
      PROVE  FALSE
  <2>1. sealed \in KeyPair /\ sealed <= container["gateway"]
    BY <1>1 DEF KeysInv, KeysTypeOK, CloudLeads
  <2>2. /\ container["gateway"] \in Nat /\ container["cloud"] \in Nat /\ generations \in Nat
        /\ container["gateway"] <= container["cloud"] /\ container["cloud"] <= generations
    BY MaxGenerationsIsNatural DEF KeysInv, KeysTypeOK, CloudLeads, Service
  <2>3. sealed = container["cloud"]
    BY <1>1, <2>1, <2>2, MaxGenerationsIsNatural DEF KeyPair
  <2>. QED
    BY <1>1, <2>3 DEF Rejected
<1>. QED
  BY <1>1 DEF OneGenerationFits

\* By every sequence of generations, deployments, restarts and crashes: the cloud has
\* the newer keys of the two, the gateway never seals for keys yet to come, and no process
\* runs without keys.
THEOREM KeysReachTheCloudFirst == KeysSpec => []CloudLeads
<1>1. KeysInv => CloudLeads
  BY DEF KeysInv
<1>. QED
  BY <1>1, KeysInvariant, PTL

\* Without a second generation no reading of the gateway is ever undecryptable.
THEOREM FirstKeysFit == KeysSpec => []OneGenerationFits
BY KeysInvariant, InvImpliesFit, PTL

-----------------------------------------------------------------------------
(* The keys in the monitored stack.                                          *)

\* Whatever Prometheus does, the keys move by the actions of KeyRotation.
LEMMA StepsAreKeySteps == [Next]_vars => [KeysNext]_keyVars
<1> SUFFICES ASSUME [Next]_vars PROVE [KeysNext]_keyVars
  OBVIOUS
<1>1. CASE Operate
  BY <1>1 DEF Operate, KeysNext, Service
<1>2. CASE Deploy
  BY <1>2 DEF Deploy, KeysNext
<1>3. CASE RestartCloud
  BY <1>3 DEF RestartCloud, KeysNext, Service
<1>4. CASE Post
  BY <1>4 DEF Post, KeysNext
<1>5. CASE Receive
  BY <1>5 DEF Receive, KeysNext
<1>6. CASE Round
  BY <1>6 DEF Round, Scrape, ScrapeFails
<1>7. CASE UNCHANGED vars
  BY <1>7 DEF vars
<1>. QED
  BY <1>1, <1>2, <1>3, <1>4, <1>5, <1>6, <1>7 DEF Next

\* Monitoring implements KeyRotation.
THEOREM MonitoringRotatesKeys == Spec => KeysSpec
<1>1. Init => KeysInit
  BY DEF Init
<1>. QED
  BY <1>1, StepsAreKeySteps, PTL DEF Spec, KeysSpec

\* In the monitored stack too the cloud has the newer keys of the two.
THEOREM CloudLeadsInStack == Spec => []CloudLeads
BY MonitoringRotatesKeys, KeysReachTheCloudFirst, PTL

\* In the monitored stack too nothing is undecryptable before a second generation.
THEOREM FirstKeysFitInStack == Spec => []OneGenerationFits
BY MonitoringRotatesKeys, FirstKeysFit, PTL

-----------------------------------------------------------------------------

Waiting == IF sealed = None THEN 0 ELSE 1
Free == IF posted THEN 0 ELSE 1

\* A reading that may still come and one on its way are paid for by missed scrapes; a
\* process that does not run has counted and missed nothing.
MonitorInv ==
  /\ since \in Nat /\ fresh \in BOOLEAN /\ posted \in BOOLEAN
  /\ gains \in [1 .. Window -> Nat \cup {None}]
  /\ down_for \in 0 .. HoldDown + 1
  /\ missed \in 0 .. MaxMissed
  /\ age \in 0 .. Window
  /\ since + Waiting + Free <= missed + 2
  /\ ~running["cloud"] => since = 0 /\ missed = 0

\* The range keeps its length.
LEMMA SlidingWindow ==
  ASSUME NEW S, NEW n \in Nat, n >= 1, NEW window \in [1 .. n -> S], NEW x \in S
  PROVE  Slide(window, x) \in [1 .. n -> S]
<1>1. window \in Seq(S) /\ Len(window) = n
  OBVIOUS
<1>2. Tail(window) \in Seq(S) /\ Len(Tail(window)) = n - 1
  BY <1>1
<1>3. Append(Tail(window), x) \in Seq(S) /\ Len(Append(Tail(window), x)) = n
  BY <1>2
<1>4. \A s \in Seq(S) : s \in [1 .. Len(s) -> S]
  OBVIOUS
<1>. QED
  BY <1>3, <1>4 DEF Slide

\* The window of the rejections after another scrape.
LEMMA GainsKeepTheirLength ==
  ASSUME gains \in [1 .. Window -> Nat \cup {None}], NEW gain \in Nat \cup {None}
  PROVE  Slide(gains, gain) \in [1 .. Window -> Nat \cup {None}]
<1>1. Window \in Nat /\ Window >= 1
  BY WindowSpansMissedScrapes
<1>2. \A S : \A n \in Nat : n >= 1 =>
        \A window \in [1 .. n -> S] : \A x \in S : Slide(window, x) \in [1 .. n -> S]
  BY SlidingWindow
<1>. QED
  BY <1>1, <1>2

LEMMA MonitorInductive == KeysInv /\ MonitorInv /\ [Next]_vars => MonitorInv'
<1> SUFFICES ASSUME KeysInv, MonitorInv, [Next]_vars
             PROVE  MonitorInv'
  OBVIOUS
<1> USE WindowSpansMissedScrapes, MissedScrapesAreNoOutage, NoneIsNoKeyPair
    DEF MonitorInv, Waiting, Free
<1>0. running \in [Service -> BOOLEAN] /\ sealed \in KeyPair \cup {None} /\ None \notin KeyPair
  BY DEF KeysInv, KeysTypeOK, KeyPair
<1>1. CASE Operate
  <2>1. UNCHANGED <<since, fresh, gains, down_for, missed, posted, age, sealed>>
    BY <1>1 DEF Operate, monitorVars, GenerateKeys, WriteKeys, GenerationDies, Up,
                DeployEnds, Start, Stop
  <2>2. running'["cloud"] = running["cloud"]
    BY <1>0, <1>1 DEF Operate, GenerateKeys, WriteKeys, GenerationDies, Up,
                      DeployEnds, Start, Stop, Service
  <2>. QED
    BY <2>1, <2>2
<1>2. CASE Deploy
  <2>1. UNCHANGED <<gains, down_for, posted, age, sealed>>
    BY <1>2 DEF Deploy, DeployNext
  <2>2. Head(deploy.left) \in Service
    <3>1. deploy \in [keys : KeyPair, left : Remaining] /\ deploy.left # <<>>
      BY <1>2 DEF Deploy, DeployNext, KeysInv, KeysTypeOK
    <3>. QED
      BY <3>1, NextService
  <2>3. running' = [running EXCEPT ![Head(deploy.left)] = TRUE]
    BY <1>2 DEF Deploy, DeployNext
  <2>4. CASE Renewed
    BY <2>1, <2>4 DEF Renewed
  <2>5. CASE ~Renewed
    <3>1. CloudStays
      BY <1>2, <2>5 DEF Deploy
    <3>2. ~running'["cloud"] => ~running["cloud"]
      BY <1>0, <2>2, <2>3 DEF Service
    <3>. QED
      BY <2>1, <3>1, <3>2 DEF CloudStays
  <2>. QED
    BY <2>4, <2>5
<1>3. CASE RestartCloud
  BY <1>3 DEF RestartCloud, Renewed, Start, Stop
<1>4. CASE Post
  BY <1>0, <1>4 DEF Post, Seal
<1>5. CASE Receive
  BY <1>5 DEF Receive, Arrive, Rejected
<1>6. CASE Scrape
  <2>1. PICK gain \in Gains(since, fresh) : gains' = Slide(gains, gain)
    BY <1>6 DEF Scrape
  <2>2. gain \in Nat \cup {None}
    BY DEF Gains
  <2>3. gains' \in [1 .. Window -> Nat \cup {None}]
    BY <2>1, <2>2, GainsKeepTheirLength
  <2>4. /\ running["cloud"] /\ since' = 0 /\ fresh' = FALSE /\ down_for' = 0 /\ missed' = 0
        /\ posted' = FALSE /\ age' = IF age < Window THEN age + 1 ELSE Window
        /\ UNCHANGED <<running, sealed>>
    BY <1>6 DEF Scrape, Evaluated, keyVars
  <2>5. age' \in 0 .. Window
    BY <2>4
  <2>6. since' + Waiting' + Free' <= missed' + 2
    BY <2>4
  <2>7. fresh' \in BOOLEAN /\ posted' \in BOOLEAN
    BY <2>4
  <2>8. /\ since' \in Nat /\ down_for' \in 0 .. HoldDown + 1 /\ missed' \in 0 .. MaxMissed
        /\ since' = 0 /\ missed' = 0
    BY <2>4
  <2>. QED
    BY <2>3, <2>5, <2>6, <2>7, <2>8
<1>7. CASE ScrapeFails
  <2>1. gains' \in [1 .. Window -> Nat \cup {None}]
    <3>1. gains' = Slide(gains, None)
      BY <1>7 DEF ScrapeFails
    <3>. QED
      BY <3>1, GainsKeepTheirLength
  <2>2. /\ down_for' = IF down_for <= HoldDown THEN down_for + 1 ELSE down_for
        /\ IF running["cloud"] THEN missed < MaxMissed /\ missed' = missed + 1
                               ELSE UNCHANGED missed
        /\ posted' = FALSE /\ age' = IF age < Window THEN age + 1 ELSE Window
        /\ UNCHANGED <<running, sealed, since, fresh>>
    BY <1>7 DEF ScrapeFails, Evaluated, keyVars
  <2>3. age' \in 0 .. Window /\ down_for' \in 0 .. HoldDown + 1
    BY <2>2
  <2>4. missed' \in 0 .. MaxMissed /\ (~running'["cloud"] => missed' = 0)
    BY <2>2
  <2>5. since' + Waiting' + Free' <= missed' + 2
    BY <2>2
  <2>. QED
    BY <2>1, <2>2, <2>3, <2>4, <2>5
<1>8. CASE UNCHANGED vars
  BY <1>8 DEF vars, keyVars, monitorVars
<1>. QED
  BY <1>1, <1>2, <1>3, <1>4, <1>5, <1>6, <1>7, <1>8 DEF Next, Round

LEMMA MonitorInitially == Init => MonitorInv
<1> USE WindowSpansMissedScrapes, MissedScrapesAreNoOutage
<1> SUFFICES ASSUME Init PROVE MonitorInv
  OBVIOUS
<1>1. gains \in [1 .. Window -> Nat \cup {None}]
  BY DEF Init
<1>2. age \in 0 .. Window /\ down_for \in 0 .. HoldDown + 1 /\ missed \in 0 .. MaxMissed
  BY DEF Init
<1>3. since = 0 /\ Waiting = 0 /\ Free = 1 /\ missed = 0
  BY DEF Init, KeysInit, Waiting, Free
<1>4. fresh \in BOOLEAN /\ posted \in BOOLEAN
  BY DEF Init
<1>5. since + Waiting + Free <= missed + 2
  BY <1>3
<1>. QED
  BY <1>1, <1>2, <1>3, <1>4, <1>5 DEF MonitorInv

\* The rejections between two samples are bounded by the scrapes missed, because the
\* gateway posts one reading in a round, and the range keeps its length.
THEOREM MonitoringTypeCorrect == Spec => []TypeOK
<1> USE WindowSpansMissedScrapes, MissedScrapesAreNoOutage
<1>2. KeysInv /\ MonitorInv => TypeOK
  BY DEF KeysInv, MonitorInv, TypeOK, Waiting, Free
<1>3. Spec => []KeysInv
  BY MonitoringRotatesKeys, KeysInvariant, PTL
<1>. QED
  BY <1>2, <1>3, MonitorInitially, MonitorInductive, PTL DEF Spec

-----------------------------------------------------------------------------
(* The alert on rejections.                                                  *)

\* What was not counted yet has happened after the last sample, and what a sample has
\* gained after the sample before it; a process that was sampled has its last sample
\* in the range.
AlertInv ==
  /\ since > 0 => \A j \in 1 .. Window : gains[j] # None => j <= Window - age
  /\ \A i \in 1 .. Window : gains[i] # None /\ gains[i] > 0 =>
       \A j \in 1 .. i - 1 : gains[j] # None => j <= Window - age
  /\ ~fresh => gains[Window - missed] # None
  /\ ~running["cloud"] => fresh

\* What is in the range after another scrape.
LEMMA SlidingSamples ==
  ASSUME NEW S, NEW n \in Nat, n >= 1, NEW window \in [1 .. n -> S], NEW x \in S,
         NEW i \in 1 .. n
  PROVE  Slide(window, x)[i] = IF i = n THEN x ELSE window[i + 1]
<1>1. window \in Seq(S) /\ Len(window) = n
  OBVIOUS
<1>2. Tail(window) \in Seq(S) /\ Len(Tail(window)) = n - 1
  BY <1>1
<1>3. i < n => Tail(window)[i] = window[i + 1]
  BY <1>1
<1>. QED
  BY <1>2, <1>3 DEF Slide

\* The samples of the rejections after another scrape.
LEMMA SlidingGains ==
  ASSUME gains \in [1 .. Window -> Nat \cup {None}], NEW gain \in Nat \cup {None},
         gains' = Slide(gains, gain)
  PROVE  /\ gains' \in [1 .. Window -> Nat \cup {None}]
         /\ gains'[Window] = gain
         /\ \A i \in 1 .. Window - 1 : gains'[i] = gains[i + 1]
<1>1. Window \in Nat /\ Window >= 1
  BY WindowSpansMissedScrapes
<1>2. gains' \in [1 .. Window -> Nat \cup {None}]
  BY GainsKeepTheirLength
<1>3. \A i \in 1 .. Window :
        Slide(gains, gain)[i] = IF i = Window THEN gain ELSE gains[i + 1]
  <2> SUFFICES ASSUME NEW i \in 1 .. Window
               PROVE  Slide(gains, gain)[i] = IF i = Window THEN gain ELSE gains[i + 1]
    OBVIOUS
  <2> DEFINE S == Nat \cup {None}
  <2>1. gains \in [1 .. Window -> S] /\ gain \in S
    OBVIOUS
  <2> HIDE DEF S
  <2>. QED
    BY <1>1, <2>1, SlidingSamples
<1>. QED
  BY <1>1, <1>2, <1>3

\* The increase is a number, and it is positive when one sample after another has
\* gained something.
LEMMA IncreaseOfNaturals ==
  ASSUME NEW n \in Nat, NEW window \in [1 .. n -> Nat \cup {None}]
  PROVE  Increase(window, None) > 0 <=>
           \E i \in 1 .. n : \E j \in 1 .. i - 1 :
             window[i] # None /\ window[j] # None /\ window[i] > 0
<1> DEFINE counted == {i \in Sampled(window, None) : \E j \in Sampled(window, None) : j < i}
           units(i) == {i} \X (1 .. window[i])
           f == [i \in counted |-> units(i)]
           sets == {units(i) : i \in counted}
           all == UNION sets
<1>1. Increase(window, None) = Cardinality(all)
  BY DEF Increase, TotalGain
<1>2. \A i : i \in counted <=>
             i \in 1 .. n /\ window[i] # None /\ \E j \in 1 .. i - 1 : window[j] # None
  BY DEF Sampled
<1>3. \A i \in counted : window[i] \in Nat
  BY <1>2
<1>4. IsFiniteSet(counted)
  <2>1. IsFiniteSet(1 .. n)
    BY FS_Interval
  <2>2. counted \in SUBSET (1 .. n)
    BY <1>2
  <2>. QED
    BY <2>1, <2>2, FS_Subset
<1>5. \A i \in counted : IsFiniteSet(units(i))
  <2> SUFFICES ASSUME NEW i \in counted PROVE IsFiniteSet(units(i))
    OBVIOUS
  <2>1. IsFiniteSet(1 .. window[i])
    <3>1. 1 \in Int /\ window[i] \in Int
      BY <1>3
    <3>. QED
      BY <3>1, FS_Interval
  <2>2. IsFiniteSet({i})
    BY FS_Singleton
  <2>. QED
    BY <2>1, <2>2, FS_Product
<1>6. IsFiniteSet(sets)
  <2>1. f \in Surjection(counted, sets)
    BY DEF Surjection
  <2>. QED
    BY <1>4, <2>1, FS_Surjection
<1>7. IsFiniteSet(all)
  <2>1. \A T \in sets : IsFiniteSet(T)
    BY <1>5
  <2>. QED
    BY <1>6, <2>1, FS_UNION
<1>8. Cardinality(all) > 0 <=> all # {}
  <2>1. Cardinality(all) \in Nat
    BY <1>7, FS_CardinalityType
  <2>2. Cardinality(all) = 0 <=> all = {}
    BY <1>7, FS_EmptySet
  <2> HIDE DEF all
  <2>. QED
    BY <2>1, <2>2
<1>9. all # {} <=> \E i \in counted : window[i] > 0
  <2>1. ASSUME NEW i \in counted, window[i] > 0 PROVE all # {}
    <3>1. 1 \in 1 .. window[i]
      BY <1>3, <2>1
    <3>2. <<i, 1>> \in units(i)
      BY <3>1
    <3>. QED
      BY <3>2
  <2>2. ASSUME all # {} PROVE \E i \in counted : window[i] > 0
    <3>1. PICK i \in counted : units(i) # {}
      BY <2>2
    <3>2. 1 .. window[i] # {}
      BY <3>1
    <3>. QED
      BY <1>3, <3>2
  <2>. QED
    BY <2>1, <2>2
<1> HIDE DEF counted, all
<1>. QED
  BY <1>1, <1>2, <1>8, <1>9

LEMMA AlertInductive ==
  KeysInv /\ MonitorInv /\ AlertInv /\ [Next]_vars => AlertInv'
<1> SUFFICES ASSUME KeysInv, MonitorInv, AlertInv, [Next]_vars
             PROVE  AlertInv'
  OBVIOUS
<1> USE WindowSpansMissedScrapes, MissedScrapesAreNoOutage
<1>0. /\ running \in [Service -> BOOLEAN] /\ age \in 0 .. Window /\ missed \in 0 .. MaxMissed
      /\ gains \in [1 .. Window -> Nat \cup {None}] /\ since \in Nat
  BY DEF KeysInv, KeysTypeOK, MonitorInv
<1>1. ASSUME UNCHANGED <<since, gains, missed, age, fresh>>, running'["cloud"] = running["cloud"]
      PROVE  AlertInv'
  BY <1>1 DEF AlertInv
<1>2. ASSUME Renewed, UNCHANGED <<gains, age>>
      PROVE  AlertInv'
  BY <1>2 DEF AlertInv, Renewed
<1>3. CASE Operate
  <2>1. UNCHANGED <<since, fresh, gains, missed, age>>
    BY <1>3 DEF Operate, monitorVars
  <2>2. running'["cloud"] = running["cloud"]
    BY <1>0, <1>3 DEF Operate, GenerateKeys, WriteKeys, GenerationDies, Up,
                      DeployEnds, Start, Stop, Service
  <2>. QED
    BY <1>1, <2>1, <2>2
<1>4. CASE Deploy
  <2>1. UNCHANGED <<gains, age>>
    BY <1>4 DEF Deploy
  <2>2. CASE Renewed
    BY <1>2, <2>1, <2>2
  <2>3. CASE ~Renewed
    <3>1. UNCHANGED <<since, fresh, missed>>
      BY <1>4, <2>3 DEF Deploy, CloudStays
    <3>2. running' = [running EXCEPT ![Head(deploy.left)] = TRUE]
      BY <1>4 DEF Deploy, DeployNext
    <3>3. ~running'["cloud"] => ~running["cloud"]
      BY <1>0, <3>2 DEF Service
    <3>. QED
      BY <2>1, <3>1, <3>3 DEF AlertInv
  <2>. QED
    BY <2>2, <2>3
<1>5. CASE RestartCloud
  BY <1>2, <1>5 DEF RestartCloud
<1>6. CASE Post
  BY <1>1, <1>6 DEF Post, Seal
<1>7. CASE Receive
  <2>1. UNCHANGED <<fresh, gains, missed, running>>
    BY <1>7 DEF Receive, Arrive
  <2>2. CASE age' = 0
    BY <1>0, <2>1, <2>2 DEF AlertInv
  <2>3. CASE UNCHANGED <<since, age>>
    BY <1>1, <2>1, <2>3
  <2>. QED
    BY <1>7, <2>2, <2>3 DEF Receive
<1>8. ASSUME age' = IF age < Window THEN age + 1 ELSE Window,
             NEW gain \in Nat \cup {None}, gains' = Slide(gains, gain),
             gain # None => gain <= since
      PROVE  \A i \in 1 .. Window : gains'[i] # None /\ gains'[i] > 0 =>
               \A j \in 1 .. i - 1 : gains'[j] # None => j <= Window - age'
  <2> SUFFICES ASSUME NEW i \in 1 .. Window, gains'[i] # None, gains'[i] > 0,
                      NEW j \in 1 .. i - 1, gains'[j] # None
               PROVE  j <= Window - age'
    OBVIOUS
  <2>1. /\ gains'[Window] = gain
        /\ \A k \in 1 .. Window - 1 : gains'[k] = gains[k + 1]
    BY <1>0, <1>8, SlidingGains
  <2>2. j + 1 \in 1 .. Window /\ gains[j + 1] # None
    BY <2>1
  <2>3. j + 1 <= Window - age
    <3>1. CASE i = Window
      <4>1. since > 0
        BY <1>0, <1>8, <2>1, <3>1
      <4>. QED
        BY <2>2, <4>1 DEF AlertInv
    <3>2. CASE i # Window
      <4>1. i + 1 \in 1 .. Window /\ gains[i + 1] # None /\ gains[i + 1] > 0
        BY <2>1, <3>2
      <4>2. j + 1 \in 1 .. (i + 1) - 1
        OBVIOUS
      <4>. QED
        BY <2>2, <4>1, <4>2 DEF AlertInv
    <3>. QED
      BY <3>1, <3>2
  <2>. QED
    BY <1>0, <1>8, <2>3
<1>9. CASE Scrape
  <2>1. PICK gain \in Gains(since, fresh) : gains' = Slide(gains, gain)
    BY <1>9 DEF Scrape
  <2>2. gain \in Nat /\ gain <= since
    BY <1>0 DEF Gains
  <2>3. /\ since' = 0 /\ missed' = 0 /\ running["cloud"] /\ running' = running
        /\ age' = IF age < Window THEN age + 1 ELSE Window
    BY <1>9 DEF Scrape, Evaluated, keyVars
  <2>4. gains'[Window - missed'] # None
    <3>1. gains'[Window] = gain
      BY <1>0, <2>1, <2>2, SlidingGains
    <3>2. gain # None
      BY <2>2, NoneIsNoKeyPair
    <3>. QED
      BY <2>3, <3>1, <3>2
  <2>5. \A i \in 1 .. Window : gains'[i] # None /\ gains'[i] > 0 =>
          \A j \in 1 .. i - 1 : gains'[j] # None => j <= Window - age'
    BY <1>8, <2>1, <2>2, <2>3
  <2>. QED
    BY <2>3, <2>4, <2>5 DEF AlertInv
<1>10. CASE ScrapeFails
  <2>1. /\ gains' = Slide(gains, None) /\ UNCHANGED <<running, since, fresh>>
        /\ age' = IF age < Window THEN age + 1 ELSE Window
        /\ IF running["cloud"] THEN missed < MaxMissed /\ missed' = missed + 1
                               ELSE UNCHANGED missed
    BY <1>10 DEF ScrapeFails, Evaluated, keyVars
  <2>2. /\ gains'[Window] = None
        /\ \A i \in 1 .. Window - 1 : gains'[i] = gains[i + 1]
    BY <1>0, <2>1, SlidingGains
  <2>3. ASSUME since' > 0, NEW j \in 1 .. Window, gains'[j] # None
        PROVE  j <= Window - age'
    <3>1. j + 1 \in 1 .. Window /\ gains[j + 1] # None
      BY <2>2, <2>3
    <3>2. j + 1 <= Window - age
      BY <2>1, <2>3, <3>1 DEF AlertInv
    <3>. QED
      BY <1>0, <2>1, <3>2
  <2>4. \A i \in 1 .. Window : gains'[i] # None /\ gains'[i] > 0 =>
          \A j \in 1 .. i - 1 : gains'[j] # None => j <= Window - age'
    BY <1>8, <2>1
  <2>5. ~fresh' => gains'[Window - missed'] # None
    <3> SUFFICES ASSUME ~fresh PROVE gains'[Window - missed'] # None
      BY <2>1
    <3>1. running["cloud"] /\ gains[Window - missed] # None
      BY DEF AlertInv
    <3>2. missed' = missed + 1 /\ missed < MaxMissed
      BY <2>1, <3>1
    <3>3. Window - missed' \in 1 .. Window - 1 /\ (Window - missed') + 1 = Window - missed
      BY <1>0, <3>2
    <3>. QED
      BY <2>2, <3>1, <3>3
  <2>. QED
    BY <2>1, <2>3, <2>4, <2>5 DEF AlertInv
<1>11. CASE UNCHANGED vars
  BY <1>1, <1>11 DEF vars, keyVars, monitorVars
<1>. QED
  BY <1>3, <1>4, <1>5, <1>6, <1>7, <1>9, <1>10, <1>11 DEF Next, Round

\* All that the alert on rejections rests on.
StackInv == KeysInv /\ MonitorInv /\ AlertInv

LEMMA StackInvariant == Spec => []StackInv
<1>1. Init => MonitorInv
  BY MonitorInitially
<1>2. Init => AlertInv
  BY WindowSpansMissedScrapes DEF Init, AlertInv
<1>3. Spec => []KeysInv
  BY MonitoringRotatesKeys, KeysInvariant, PTL
<1>. QED
  BY <1>1, <1>2, <1>3, MonitorInductive, AlertInductive, PTL DEF Spec, StackInv

\* The counter of a new process, a gap in the samples and the edge of the range never
\* look like a rejection: an alert has one among the rounds of the range.
THEOREM AlertsHaveRejections == Spec => []RejectionAlertsAreReal
<1>1. StackInv => RejectionAlertsAreReal
  <2> SUFFICES ASSUME StackInv, SecureRequestRejected PROVE age < Window
    BY DEF RejectionAlertsAreReal
  <2>1. /\ Window \in Nat /\ gains \in [1 .. Window -> Nat \cup {None}]
        /\ age \in 0 .. Window
    BY WindowSpansMissedScrapes DEF StackInv, MonitorInv
  <2>2. PICK i \in 1 .. Window : \E j \in 1 .. i - 1 :
          gains[i] # None /\ gains[j] # None /\ gains[i] > 0
    BY <2>1, IncreaseOfNaturals DEF SecureRequestRejected
  <2>3. PICK j \in 1 .. i - 1 : gains[i] # None /\ gains[j] # None /\ gains[i] > 0
    BY <2>2
  <2>4. j <= Window - age
    BY <2>3 DEF StackInv, AlertInv
  <2>. QED
    BY <2>1, <2>4
<1>. QED
  BY <1>1, StackInvariant, PTL

\* A rejection between two samples of a process is alerted by the second one, however
\* many scrapes failed in between and whatever the range still holds.
THEOREM SampledRejectionsAreAlerted == Spec => RejectionsAreAlerted
<1>1. ASSUME StackInv, Scrape, ~fresh, since > 0
      PROVE  SecureRequestRejected'
  <2> USE WindowSpansMissedScrapes
  <2>1. /\ gains \in [1 .. Window -> Nat \cup {None}] /\ missed \in 0 .. MaxMissed
        /\ gains[Window - missed] # None /\ since \in Nat
    BY <1>1 DEF StackInv, MonitorInv, AlertInv
  <2>2. gains' = Slide(gains, since)
    BY <1>1 DEF Scrape, Gains
  <2>3. /\ gains' \in [1 .. Window -> Nat \cup {None}] /\ gains'[Window] = since
        /\ \A i \in 1 .. Window - 1 : gains'[i] = gains[i + 1]
    BY <2>1, <2>2, SlidingGains
  <2>4. gains'[(Window - missed) - 1] # None /\ (Window - missed) - 1 \in 1 .. Window - 1
    <3>1. (Window - missed) - 1 \in 1 .. Window - 1 /\ ((Window - missed) - 1) + 1 = Window - missed
      BY <2>1
    <3>. QED
      BY <2>1, <2>3, <3>1
  <2>5. since # None /\ Window \in 1 .. Window
    BY <2>1, NoneIsNoKeyPair
  <2>6. \E i \in 1 .. Window : \E j \in 1 .. i - 1 :
          gains'[i] # None /\ gains'[j] # None /\ gains'[i] > 0
    BY <1>1, <2>3, <2>4, <2>5
  <2>7. Window \in Nat
    OBVIOUS
  <2>8. Increase(gains', None) > 0
    BY <2>3, <2>6, <2>7, IncreaseOfNaturals
  <2>. QED
    BY <2>8 DEF SecureRequestRejected
<1>2. StackInv /\ [Next]_vars => [Scrape /\ ~fresh /\ since > 0 => SecureRequestRejected']_vars
  BY <1>1
<1>. QED
  BY <1>2, StackInvariant, PTL DEF Spec, RejectionsAreAlerted

=============================================================================
