------------------------------- MODULE Cloud -------------------------------
(***************************************************************************)
(* The cloud process: the ingestion handlers of cloud/app/main.py, its      *)
(* counters, and the storage they share (cloud/app/storage.py): one SQLite  *)
(* file, one connection per operation, one writer at a time.                *)
(*                                                                          *)
(* A request is served once.  An envelope that is sent again is another     *)
(* request with the same body.  SQLite is modelled from how storage.py uses *)
(* it: INSERT waits for the write lock up to the busy timeout, COMMIT makes *)
(* the row durable, and a failure or a crash before it leaves no row.       *)
(***************************************************************************)
EXTENDS Integers, FiniteSets, Sequences, SequencesExt

CONSTANTS
  Request,        \* the requests a run may see
  None,           \* no status yet; no writer
  LegacyPolicy,   \* CLOUD_ALLOW_LEGACY_INGESTION of the n-th process, from 0
  Window,         \* REPLAY_WINDOW_SECONDS, in ticks
  BusyTimeout,    \* SQLITE_TIMEOUT_SECONDS, in ticks
  Timestamps,     \* the timestamps gateways seal into their envelopes
  MaxTime,        \* bound on the clock
  MaxCrashes      \* bound on the crashes

VARIABLES
  clock,      \* time.time() of the cloud
  requests,   \* per request, the step of its handler
  bodies,     \* per request, what it carries
  since,      \* per request, when its current wait for SQLite began
  statuses,   \* per request, the status code its client gets, or None
  writer,     \* the request whose connection holds the write lock, or None
  readings,   \* the committed rows in id order, each with its commit time
  served,     \* the rows the last GET /data returned
  counters,   \* the cloud's counters
  inherited,  \* history: the number of rows this process found at its start
  crashes     \* crashes so far

vars == <<clock, requests, bodies, since, statuses, writer, readings, served,
          counters, inherited, crashes>>

ASSUME Timeouts == Window \in Nat /\ BusyTimeout \in Nat /\ Timestamps \subseteq Nat
ASSUME Bounds == MaxTime \in Nat /\ MaxCrashes \in Nat
ASSUME PolicyIsBoolean == LegacyPolicy \in [0 .. MaxCrashes -> BOOLEAN]
ASSUME NoneIsNoRequest == None \notin Request /\ None \notin Nat

\* ALLOW_LEGACY_INGESTION is read from the environment once per process.
AllowLegacy == LegacyPolicy[crashes]

\* What clients send.  Only a well-formed body has a timestamp worth varying,
\* and the legacy endpoint has none.
Body ==
  [route : {"secure"}, content : {"reading", "invalid"}, timestamp : Timestamps]
    \cup [route : {"secure"}, content : {"undecryptable", "malformed"}, timestamp : {0}]
    \cup [route : {"legacy"}, content : {"reading", "invalid"}, timestamp : {0}]

Rejections ==
  {"decryption_failed", "malformed_payload", "stale_timestamp", "validation_failed"}

CounterNames ==
  Rejections \cup {"storage_failed", "received", "legacy_received", "legacy_rejected"}

\* Mutant: the ValidationError is not caught.
StatusOfUncaught ==
  [decryption_failed |-> 400, malformed_payload |-> 400, stale_timestamp |-> 401,
   validation_failed |-> 500]

StatusOf ==
  [decryption_failed |-> 400, malformed_payload |-> 400, stale_timestamp |-> 401,
   validation_failed |-> 422]

\* The steps inside save_sensor_data, each of which SQLite may hold up.
Writing == {"connect", "insert", "commit"}
Serving == Writing \cup {"check", "stored", "storage_failed"}
Statuses == {200, 400, 401, 403, 422, 503}

Row == [request : Request, at : Nat]

TypeOK ==
  /\ clock \in Nat
  /\ requests \in [Request -> Serving \cup {"new", "answered", "lost"}]
  /\ bodies \in [Request -> Body \cup {None}]
  /\ since \in [Request -> Nat]
  /\ statuses \in [Request -> Statuses \cup {None}]
  /\ writer \in Request \cup {None}
  /\ readings \in Seq(Row)
  /\ served \in Seq(Row)
  /\ counters \in [CounterNames -> Nat]
  /\ inherited \in 0 .. Len(readings)
  /\ crashes \in 0 .. MaxCrashes

Init ==
  /\ clock = 0
  /\ requests = [r \in Request |-> "new"]
  /\ bodies = [r \in Request |-> None]
  /\ since = [r \in Request |-> 0]
  /\ statuses = [r \in Request |-> None]
  /\ writer = None
  /\ readings = <<>>
  /\ served = <<>>
  /\ counters = [c \in CounterNames |-> 0]
  /\ inherited = 0
  /\ crashes = 0

-----------------------------------------------------------------------------
(* Moves of one handler.                                                     *)

At(r, step) == requests[r] = step

GoTo(r, step) == requests' = [requests EXCEPT ![r] = step]

Count(counter) == counters' = [counters EXCEPT ![counter] = @ + 1]

Answer(r, status) ==
  /\ GoTo(r, "answered")
  /\ statuses' = [statuses EXCEPT ![r] = status]

Receive(r, body) ==
  /\ At(r, "new")
  /\ GoTo(r, "check")
  /\ bodies' = [bodies EXCEPT ![r] = body]
  /\ UNCHANGED <<clock, since, statuses, writer, readings, served, counters,
                 inherited, crashes>>

\* Mutant: only timestamps of the future are refused.
StaleIfAhead(timestamp, now) == timestamp - now > Window

\* abs(time.time() - timestamp) > REPLAY_WINDOW_SECONDS
Stale(timestamp, now) == timestamp - now > Window \/ now - timestamp > Window

\* The checks of receive_secure_data, in their order.
Verdict(body, now) ==
  CASE body.content = "undecryptable" -> "decryption_failed"
    [] body.content = "malformed" -> "malformed_payload"
    [] body.content \in {"reading", "invalid"} /\ Stale(body.timestamp, now)
         -> "stale_timestamp"
    [] body.content = "invalid" /\ ~Stale(body.timestamp, now) -> "validation_failed"
    [] OTHER -> "accepted"

\* The policy dependency of POST /data, which runs before the body is validated.
RejectLegacy(r) ==
  /\ At(r, "check")
  /\ bodies[r].route = "legacy" /\ ~AllowLegacy
  /\ Count("legacy_rejected")
  /\ Answer(r, 403)
  /\ UNCHANGED <<clock, bodies, since, writer, readings, served, inherited, crashes>>

\* Validation of a legacy body is the framework's and counts nothing.
RejectInvalidLegacy(r) ==
  /\ At(r, "check")
  /\ bodies[r].route = "legacy" /\ AllowLegacy /\ bodies[r].content = "invalid"
  /\ Answer(r, 422)
  /\ UNCHANGED <<clock, bodies, since, writer, readings, served, counters,
                 inherited, crashes>>

RejectSecure(r) ==
  LET verdict == Verdict(bodies[r], clock)
  IN /\ At(r, "check")
     /\ bodies[r].route = "secure" /\ verdict # "accepted"
     /\ Count(verdict)
     /\ Answer(r, StatusOf[verdict])
     /\ UNCHANGED <<clock, bodies, since, writer, readings, served, inherited, crashes>>

\* The handler calls save_sensor_data, which opens a connection.
Accept(r) ==
  /\ At(r, "check")
  /\ \/ bodies[r].route = "legacy" /\ AllowLegacy /\ bodies[r].content = "reading"
     \/ bodies[r].route = "secure" /\ Verdict(bodies[r], clock) = "accepted"
  /\ GoTo(r, "connect")
  /\ since' = [since EXCEPT ![r] = clock]
  /\ UNCHANGED <<clock, bodies, statuses, writer, readings, served, counters,
                 inherited, crashes>>

\* _connection: CREATE TABLE IF NOT EXISTS, which may wait for a commit.
Connect(r) ==
  /\ At(r, "connect")
  /\ GoTo(r, "insert")
  /\ since' = [since EXCEPT ![r] = clock]
  /\ UNCHANGED <<clock, bodies, statuses, writer, readings, served, counters,
                 inherited, crashes>>

\* INSERT opens the transaction: it needs the write lock.
Insert(r) ==
  /\ At(r, "insert")
  /\ writer = None
  /\ writer' = r
  /\ GoTo(r, "commit")
  /\ since' = [since EXCEPT ![r] = clock]
  /\ UNCHANGED <<clock, bodies, statuses, readings, served, counters, inherited, crashes>>

\* Mutant: a COMMIT whose outcome is not known is answered by writing again.
CommitAndWriteAgain(r) ==
  /\ At(r, "commit")
  /\ readings' = Append(readings, [request |-> r, at |-> clock])
  /\ writer' = None
  /\ \/ GoTo(r, "stored") /\ UNCHANGED since
     \/ GoTo(r, "connect") /\ since' = [since EXCEPT ![r] = clock]
  /\ UNCHANGED <<clock, bodies, statuses, served, counters, inherited, crashes>>

\* Leaving `with connection` commits; the row gets the next id.
Commit(r) ==
  /\ At(r, "commit")
  /\ readings' = Append(readings, [request |-> r, at |-> clock])
  /\ writer' = None
  /\ GoTo(r, "stored")
  /\ UNCHANGED <<clock, bodies, since, statuses, served, counters, inherited, crashes>>

Release(r) == writer' = IF writer = r THEN None ELSE writer

\* Mutant: the write is tried again instead of given up.
RetryWrite(r) ==
  /\ requests[r] \in Writing
  /\ Release(r)
  /\ GoTo(r, "connect")
  /\ since' = [since EXCEPT ![r] = clock]
  /\ UNCHANGED <<clock, bodies, statuses, readings, served, counters, inherited, crashes>>

\* Mutant: the write fails after its commit, and the row stays.
FailWriteAfterCommit(r) ==
  /\ At(r, "stored")
  /\ GoTo(r, "storage_failed")
  /\ UNCHANGED <<clock, bodies, since, statuses, writer, readings, served, counters,
                 inherited, crashes>>

\* sqlite3.Error from connecting, INSERT or COMMIT: the transaction is rolled
\* back and the connection closed.
FailWrite(r) ==
  /\ requests[r] \in Writing
  /\ Release(r)
  /\ GoTo(r, "storage_failed")
  /\ UNCHANGED <<clock, bodies, since, statuses, readings, served, counters,
                 inherited, crashes>>

\* The busy timeout of SQLite has run out.
TimesOut(r) == clock - since[r] >= BusyTimeout /\ FailWrite(r)

AnswerStored(r) ==
  /\ At(r, "stored")
  /\ Count(IF bodies[r].route = "secure" THEN "received" ELSE "legacy_received")
  /\ Answer(r, 200)
  /\ UNCHANGED <<clock, bodies, since, writer, readings, served, inherited, crashes>>

\* Mutant: the reading is counted as received whether or not it was stored.
CountFailedAsReceived(r) ==
  /\ At(r, "storage_failed")
  /\ IF bodies[r].route = "secure" THEN Count("received") ELSE UNCHANGED counters
  /\ Answer(r, 503)
  /\ UNCHANGED <<clock, bodies, since, writer, readings, served, inherited, crashes>>

\* The legacy endpoint counts no storage failure.
AnswerStorageFailed(r) ==
  /\ At(r, "storage_failed")
  /\ IF bodies[r].route = "secure" THEN Count("storage_failed") ELSE UNCHANGED counters
  /\ Answer(r, 503)
  /\ UNCHANGED <<clock, bodies, since, writer, readings, served, inherited, crashes>>

-----------------------------------------------------------------------------
(* Readers, crashes and time.                                                *)

\* Mutant: the newest row comes first.
ReadNewestFirst ==
  /\ served' = Reverse(readings)
  /\ UNCHANGED <<clock, requests, bodies, since, statuses, writer, readings,
                 counters, inherited, crashes>>

\* GET /data returns the committed rows in id order.
ReadData ==
  /\ served' = readings
  /\ UNCHANGED <<clock, requests, bodies, since, statuses, writer, readings,
                 counters, inherited, crashes>>

\* The process dies and is started again on the same database file.
Crash ==
  /\ crashes < MaxCrashes
  /\ crashes' = crashes + 1
  /\ requests' = [r \in Request |-> IF requests[r] \in Serving THEN "lost" ELSE requests[r]]
  /\ writer' = None
  /\ counters' = [c \in CounterNames |-> 0]
  /\ inherited' = Len(readings)
  /\ UNCHANGED <<clock, bodies, since, statuses, readings, served>>

\* Time passes; a wait for SQLite ends within the busy timeout.
Tick ==
  /\ clock < MaxTime
  /\ \A r \in Request :
       requests[r] \in Writing => clock - since[r] < BusyTimeout
  /\ clock' = clock + 1
  /\ UNCHANGED <<requests, bodies, since, statuses, writer, readings, served,
                 counters, inherited, crashes>>

Proceed(r) ==
  \/ RejectLegacy(r) \/ RejectInvalidLegacy(r) \/ RejectSecure(r) \/ Accept(r)
  \/ Connect(r) \/ Insert(r) \/ Commit(r) \/ TimesOut(r)
  \/ AnswerStored(r) \/ AnswerStorageFailed(r)

Next ==
  \/ \E r \in Request, body \in Body : Receive(r, body)
  \/ \E r \in Request : Proceed(r) \/ FailWrite(r)
  \/ ReadData
  \/ Crash
  \/ Tick

Spec == Init /\ [][Next]_vars

\* Handler threads are scheduled and time passes; clients and failures owe nothing.
FairSpec == Spec /\ WF_vars(Tick) /\ \A r \in Request : WF_vars(Proceed(r))

-----------------------------------------------------------------------------

Rows(r) == {i \in DOMAIN readings : readings[i].request = r}

\* Storage and answers agree for every request, through contention, failed
\* writes and crashes: 200 is sent for a durable row only, any other answer for
\* a request that left none, and no request is stored twice.
StorageMatchesAnswers ==
  \A r \in Request :
    /\ \A i, j \in Rows(r) : i = j
    /\ statuses[r] = 200 => Rows(r) # {}
    /\ statuses[r] \notin {200, None} => Rows(r) = {}

\* The "received" counters are the commits of this process, up to the handlers
\* between their commit and their increment.  A crash resets the counters while
\* the rows stay, so the difference to the rows is what the process inherited.
ReceivedCountsCommits ==
  counters["received"] + counters["legacy_received"]
      + Cardinality({r \in Request : At(r, "stored")})
    = Len(readings) - inherited

\* A sealed envelope, however often it is sent again, is committed only while
\* its timestamp is within the window plus what the three waits of
\* save_sensor_data (to connect, for INSERT, for COMMIT) can add after the check.
ReplaysAreBounded ==
  \A i \in DOMAIN readings :
    LET body == bodies[readings[i].request]
        age == readings[i].at - body.timestamp
    IN body.route = "secure" => -Window <= age /\ age <= Window + 3 * BusyTimeout

\* What a reader has been given stays, in the same place, across crashes.
ServedReadingsStay == IsPrefix(served, readings)

\* Every handler comes to an end, whoever holds the write lock.
EveryRequestEnds ==
  \A r \in Request : requests[r] \in Serving ~> requests[r] \in {"answered", "lost"}

=============================================================================
