------------------------------ MODULE Delivery ------------------------------
(***************************************************************************)
(* One reading's way: device/device.py posts it to the gateway, the gateway *)
(* (gateway/app/main.py, cloud_client.py) seals it and posts it to the      *)
(* cloud, the cloud (module Cloud) stores and answers it.  Every hop has a  *)
(* timeout and none is retried; a caller that gives up does not stop the    *)
(* callee.  Either server may crash with requests inside it.                *)
(*                                                                          *)
(* Each Request is one reading: the gateway posts exactly one envelope for  *)
(* it, so the same name is used for the cloud's request.                    *)
(***************************************************************************)
EXTENDS Cloud

CONSTANT MaxGatewayCrashes   \* bound on the crashes of the gateway

VARIABLES
  told,            \* per reading, what the device knows of it
  gateway,         \* per reading, the step of its handler in the gateway
  gateway_crashes

delivery_vars == <<told, gateway, gateway_crashes>>
all_vars == <<vars, delivery_vars>>

ASSUME GatewayCrashBound == MaxGatewayCrashes \in Nat

Running == {"recording", "sealed", "posted"}

DeliveryTypeOK ==
  /\ TypeOK
  /\ told \in [Request -> {"unsent", "waiting", "ok", "failed"}]
  /\ gateway \in [Request -> Running \cup {"none", "sent", "forwarded", "failed", "lost"}]
  /\ gateway_crashes \in 0 .. MaxGatewayCrashes

DeliveryInit ==
  /\ Init
  /\ told = [r \in Request |-> "unsent"]
  /\ gateway = [r \in Request |-> "none"]
  /\ gateway_crashes = 0

Tell(r, result) ==
  /\ told[r] = "waiting"
  /\ told' = [told EXCEPT ![r] = result]
  /\ UNCHANGED <<gateway, gateway_crashes, vars>>

Advance(r, from, to) ==
  /\ gateway[r] = from
  /\ gateway' = [gateway EXCEPT ![r] = to]
  /\ UNCHANGED <<told, gateway_crashes>>

-----------------------------------------------------------------------------
(* The device: one reading at a time.                                        *)

Send(r) ==
  /\ told[r] = "unsent"
  /\ \A q \in Request : told[q] # "waiting"
  /\ told' = [told EXCEPT ![r] = "waiting"]
  /\ gateway' = [gateway EXCEPT ![r] = "sent"]
  /\ UNCHANGED <<gateway_crashes, vars>>

\* The gateway's 200, or its 502 or 503, reaches the device.
HearOk(r) == gateway[r] = "forwarded" /\ Tell(r, "ok")

HearFailure(r) == gateway[r] = "failed" /\ Tell(r, "failed")

\* Mutant: without a timeout the device fails only when the connection breaks.
GiveUpWhenLost(r) == gateway[r] = "lost" /\ Tell(r, "failed")

\* requests.RequestException: the timeout or a broken connection.  The reading
\* is printed as failed and never sent again.
GiveUp(r) == Tell(r, "failed")

-----------------------------------------------------------------------------
(* The gateway's handler of the reading.                                     *)

\* The request arrives, even after the device has given up on it.
Arrive(r) == Advance(r, "sent", "recording") /\ UNCHANGED vars

\* The registry is full (Gateway says when): 503.
RefuseAtCapacity(r) == Advance(r, "recording", "failed") /\ UNCHANGED vars

\* send_to_cloud puts the timestamp into the payload and encrypts it.
Seal(r) == Advance(r, "recording", "sealed") /\ UNCHANGED vars

\* The envelope reaches the cloud.
Post(r) ==
  /\ Advance(r, "sealed", "posted")
  /\ \E timestamp \in Timestamps :
       Receive(r, [route |-> "secure", content |-> "reading", timestamp |-> timestamp])

\* Mutant: the status of the cloud's answer is not looked at.
ForwardAny(r) ==
  /\ statuses[r] # None
  /\ Advance(r, "posted", "forwarded")
  /\ UNCHANGED vars

\* The cloud's 200 arrives.
Forwarded(r) ==
  /\ statuses[r] = 200
  /\ Advance(r, "posted", "forwarded")
  /\ UNCHANGED vars

\* raise_for_status on any other answer, or the timeout of requests.post, or a
\* connection that is refused or broken: the exception handler answers 502.
ForwardFails(r) ==
  /\ Advance(r, "sealed", "failed") \/ Advance(r, "posted", "failed")
  /\ UNCHANGED vars

GatewayCrash ==
  /\ gateway_crashes < MaxGatewayCrashes
  /\ gateway_crashes' = gateway_crashes + 1
  /\ gateway' = [r \in Request |->
        IF gateway[r] \in Running \cup {"sent"} THEN "lost" ELSE gateway[r]]
  /\ UNCHANGED <<told, vars>>

-----------------------------------------------------------------------------

DeviceStep(r) == Send(r) \/ HearOk(r) \/ HearFailure(r) \/ GiveUp(r)

GatewayStep(r) ==
  \/ Arrive(r) \/ RefuseAtCapacity(r) \/ Seal(r) \/ Post(r)
  \/ Forwarded(r) \/ ForwardFails(r)

CloudStep ==
  /\ Crash \/ \E r \in Request : Proceed(r) \/ FailWrite(r)
  /\ UNCHANGED delivery_vars

DeliveryNext ==
  \/ \E r \in Request : DeviceStep(r) \/ GatewayStep(r)
  \/ CloudStep
  \/ GatewayCrash

DeliverySpec == DeliveryInit /\ [][DeliveryNext]_all_vars

\* The device's own loop runs; nothing is assumed of gateway, cloud or network.
DeviceFairSpec == DeliverySpec /\ WF_all_vars(\E r \in Request : DeviceStep(r))

-----------------------------------------------------------------------------

\* The number of rows the cloud's table has of each reading.
RowCounts == [r \in Request |-> Cardinality(Rows(r))]

Promise == INSTANCE ReadingDelivery WITH rows <- RowCounts

\* Timeouts, lost answers and crashes of both servers included, the way from
\* device to table keeps the promise of ReadingDelivery: the rows of a reading
\* go from none to one and stay there, and "ok" means that the one is durable.
DeliveryKeepsPromise == Promise!Spec

\* A gateway or a cloud that never answers cannot stop the device: every
\* reading is eventually sent and its outcome known, because each call gives up.
DeviceNeverBlocks == <>(\A r \in Request : told[r] \in {"ok", "failed"})

\* run_isolated.py requires failed_but_observed to be empty: a reading whose
\* delivery was reported as failed is never found in the cloud's table.
FailedIsNotStored == \A r \in Request : told[r] = "failed" => RowCounts[r] = 0

=============================================================================
