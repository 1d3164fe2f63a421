-------------------------- MODULE ReadingDelivery --------------------------
(***************************************************************************)
(* What a device may rely on: a reading gets at most one row and only after *)
(* it was sent, and the device is told "ok" only for one that has its row.  *)
(* "failed" promises nothing: the reading may be stored, then or later.     *)
(***************************************************************************)
EXTENDS Naturals

CONSTANT Request    \* the readings, one request each

VARIABLES
  told,   \* per reading: "unsent", "waiting", "ok" or "failed"
  rows    \* per reading, the number of its rows in the cloud's table

vars == <<told, rows>>

Init ==
  /\ told = [r \in Request |-> "unsent"]
  /\ rows = [r \in Request |-> 0]

Send(r) ==
  /\ told[r] = "unsent"
  /\ told' = [told EXCEPT ![r] = "waiting"]
  /\ UNCHANGED rows

Store(r) ==
  /\ told[r] # "unsent" /\ rows[r] = 0
  /\ rows' = [rows EXCEPT ![r] = 1]
  /\ UNCHANGED told

TellOk(r) ==
  /\ told[r] = "waiting" /\ rows[r] = 1
  /\ told' = [told EXCEPT ![r] = "ok"]
  /\ UNCHANGED rows

TellFailed(r) ==
  /\ told[r] = "waiting"
  /\ told' = [told EXCEPT ![r] = "failed"]
  /\ UNCHANGED rows

Next == \E r \in Request : Send(r) \/ Store(r) \/ TellOk(r) \/ TellFailed(r)

Spec == Init /\ [][Next]_vars

=============================================================================
