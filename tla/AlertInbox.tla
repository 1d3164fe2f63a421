----------------------------- MODULE AlertInbox -----------------------------
(***************************************************************************)
(* monitoring/alert-inbox/server.py: the local inbox of Alertmanager, a      *)
(* threading HTTP server over one SQLite file.  Every request opens its own  *)
(* connection.  The file appears with the first connection, the table with   *)
(* the first CREATE TABLE, which commits by itself, and a notification with  *)
(* the commit of its INSERT.                                                 *)
(*                                                                           *)
(* Alertmanager is external: it groups alerts by name and job (group_by of   *)
(* alertmanager.yml).  A group posts one notification after the other, waits *)
(* for the answer for some time, and posts again what was not acknowledged;  *)
(* groups do not wait for each other.  The posts are numbered in the order in*)
(* which they are sent.                                                      *)
(***************************************************************************)
EXTENDS Integers, SequencesExt

CONSTANTS
  Thread,     \* request threads
  Group,      \* the groups of alerts that Alertmanager notifies about
  None,       \* no thread, no answer
  Limit,      \* the LIMIT of get_notifications
  Schedules,  \* the orders in which groups may have something to post
  MaxPosts,   \* bound on the posts of Alertmanager
  MaxCrashes  \* bound on the ends of the inbox process

VARIABLES
  calls,         \* the request each thread serves, or None
  storage,       \* what is at DB_PATH: "absent", "empty" (no table) or "table"
  notifications, \* the committed rows, by the number of the post that stored them
  writer,        \* the thread that holds SQLite's write lock, or None
  posts,         \* number of posts sent so far
  group,         \* the group each post is sent for
  listening,     \* per group, the post whose answer Alertmanager waits for, or 0
  answers,       \* history: the status the inbox has answered to each post
  acknowledged,  \* the posts whose 200 Alertmanager has received
  ready,         \* history: a post or a health check has been answered 200
  served,        \* history: the last answer to GET /alerts, and the posts that
                 \* were acknowledged when that request arrived
  crashes

vars == <<calls, storage, notifications, writer, posts, group, listening,
          answers, acknowledged, ready, served, crashes>>
alertmanager == <<posts, group, listening, acknowledged>>
database == <<storage, notifications, writer>>

ASSUME InboxSettings == Limit \in Nat \ {0}
ASSUME InboxBounds == MaxPosts \in Nat /\ MaxCrashes \in Nat

Posts == 1 .. MaxPosts

ASSUME SchedulesNameGroups == Schedules \subseteq [Posts -> Group]

Step == {"body", "connect", "create", "insert", "commit", "store_done",
         "look", "select"}
Call == [op : {"store", "health", "list"}, at : Step, post : 0 .. MaxPosts,
         known : SUBSET Posts]
Status == {200, 400, 503}

ASSUME NoneIsNoValue == None \notin Thread /\ None \notin Call /\ None \notin Nat

TypeOK ==
  /\ calls \in [Thread -> Call \cup {None}]
  /\ storage \in {"absent", "empty", "table"}
  /\ notifications \in Seq(Posts)
  /\ writer \in Thread \cup {None}
  /\ posts \in 0 .. MaxPosts
  /\ group \in [Posts -> Group]
  /\ listening \in [Group -> 0 .. MaxPosts]
  /\ answers \in [Posts -> Status \cup {None}]
  /\ acknowledged \in SUBSET Posts
  /\ ready \in BOOLEAN
  /\ served.list \in Seq(Posts) /\ served.known \in SUBSET Posts
  /\ crashes \in 0 .. MaxCrashes

Init ==
  /\ calls = [t \in Thread |-> None]
  /\ storage = "absent"
  /\ notifications = <<>>
  /\ writer = None
  /\ posts = 0
  /\ group \in Schedules
  /\ listening = [g \in Group |-> 0]
  /\ answers = [p \in Posts |-> None]
  /\ acknowledged = {}
  /\ ready = FALSE
  /\ served = [list |-> <<>>, known |-> {}]
  /\ crashes = 0

At(t, step) == calls[t] # None /\ calls[t].at = step
GoTo(t, step) == calls' = [calls EXCEPT ![t].at = step]

\* The request of t begins at a step; a reader remembers what was acknowledged.
Begin(t, op, step, post) ==
  /\ calls[t] = None
  /\ calls' = [calls EXCEPT ![t] =
       [op |-> op, at |-> step, post |-> post,
        known |-> IF op = "list" THEN acknowledged ELSE {}]]

\* t answers: the status counts for a post, and 200 of a post or of a health
\* check tells that the storage is ready.
Answer(t, status) ==
  /\ calls' = [calls EXCEPT ![t] = None]
  /\ answers' = IF calls[t].op = "store"
                  THEN [answers EXCEPT ![calls[t].post] = status] ELSE answers
  /\ ready' = (ready \/ (calls[t].op # "list" /\ status = 200))

-----------------------------------------------------------------------------
(* Alertmanager.                                                             *)

\* The next notification is sent, or sent again: its group waits for no other, but
\* posts of other groups may be under way.
Notify(t) ==
  LET g == group[posts + 1]
  IN /\ posts < MaxPosts /\ listening[g] = 0
     /\ posts' = posts + 1
     /\ listening' = [listening EXCEPT ![g] = posts + 1]
     /\ Begin(t, "store", "body", posts + 1)
     /\ UNCHANGED <<database, group, answers, acknowledged, ready, served, crashes>>

HearAnswer(g) ==
  LET post == listening[g]
  IN /\ post # 0 /\ answers[post] # None
     /\ listening' = [listening EXCEPT ![g] = 0]
     /\ acknowledged' =
          IF answers[post] = 200 THEN acknowledged \cup {post} ELSE acknowledged
     /\ UNCHANGED <<calls, database, posts, group, answers, ready, served, crashes>>

\* The group waits no longer, or the connection breaks; the inbox may not notice.
StopListening(g) ==
  /\ listening[g] # 0
  /\ listening' = [listening EXCEPT ![g] = 0]
  /\ UNCHANGED <<calls, database, posts, group, answers, acknowledged, ready, served,
                 crashes>>

-----------------------------------------------------------------------------
(* do_POST.                                                                  *)

ReadBody(t) ==
  /\ At(t, "body")
  /\ GoTo(t, "connect")
  /\ UNCHANGED <<database, alertmanager, answers, ready, served, crashes>>

\* Wrong size (413), no JSON or no status that Alertmanager uses (400); the two
\* answers are not told apart.
RejectBody(t) ==
  /\ At(t, "body")
  /\ Answer(t, 400)
  /\ UNCHANGED <<database, alertmanager, served, crashes>>

\* Mutant: the socket has no timeout; only the end of the connection ends the read.
BodyEndsWithClient(t) ==
  /\ At(t, "body")
  /\ \A g \in Group : listening[g] # calls[t].post
  /\ Answer(t, 503)
  /\ UNCHANGED <<database, alertmanager, served, crashes>>

\* The timeout of the socket, or its end, is an OSError.
BodyTimesOut(t) ==
  /\ At(t, "body")
  /\ Answer(t, 503)
  /\ UNCHANGED <<database, alertmanager, served, crashes>>

-----------------------------------------------------------------------------
(* store_notification and check_storage.                                     *)

CheckHealth(t) ==
  /\ Begin(t, "health", "connect", 0)
  /\ UNCHANGED <<database, alertmanager, answers, ready, served, crashes>>

\* mkdir and connect: SQLite creates the file.
Connect(t) ==
  /\ At(t, "connect")
  /\ storage' = IF storage = "absent" THEN "empty" ELSE storage
  /\ GoTo(t, "create")
  /\ UNCHANGED <<notifications, writer, alertmanager, answers, ready, served, crashes>>

\* Mutant: the health check creates its own table only.
CreateForStoreOnly(t) ==
  /\ At(t, "create")
  /\ storage' = IF calls[t].op = "store" THEN "table" ELSE storage
  /\ GoTo(t, "insert")
  /\ UNCHANGED <<notifications, writer, alertmanager, answers, ready, served, crashes>>

\* CREATE TABLE IF NOT EXISTS, outside of any transaction.
Create(t) ==
  /\ At(t, "create")
  /\ storage' = "table"
  /\ GoTo(t, "insert")
  /\ UNCHANGED <<notifications, writer, alertmanager, answers, ready, served, crashes>>

Insert(t) ==
  /\ At(t, "insert")
  /\ writer = None
  /\ writer' = t
  /\ GoTo(t, "commit")
  /\ UNCHANGED <<storage, notifications, alertmanager, answers, ready, served, crashes>>

\* Mutant: the health check leaves a row among the notifications.
CommitAlways(t) ==
  /\ At(t, "commit")
  /\ notifications' = Append(notifications, calls[t].post)
  /\ writer' = None
  /\ GoTo(t, "store_done")
  /\ UNCHANGED <<storage, alertmanager, answers, ready, served, crashes>>

\* The next id goes to a notification; the readiness marker is another table.
Commit(t) ==
  /\ At(t, "commit")
  /\ notifications' = IF calls[t].op = "store"
                        THEN Append(notifications, calls[t].post) ELSE notifications
  /\ writer' = None
  /\ GoTo(t, "store_done")
  /\ UNCHANGED <<storage, alertmanager, answers, ready, served, crashes>>

Release(t) == writer' = IF writer = t THEN None ELSE writer

\* Mutant: a failure to close what was committed is answered 503.
FailAfterCommit(t) ==
  /\ calls[t] # None /\ calls[t].at \in {"connect", "create", "insert", "store_done"}
  /\ Release(t)
  /\ Answer(t, 503)
  /\ UNCHANGED <<storage, notifications, alertmanager, served, crashes>>

\* sqlite3.Error or OSError: closing the connection rolls the INSERT back.
FailStorage(t) ==
  /\ calls[t] # None /\ calls[t].at \in {"connect", "create", "insert", "commit"}
  /\ Release(t)
  /\ Answer(t, 503)
  /\ UNCHANGED <<storage, notifications, alertmanager, served, crashes>>

\* The timeout of sqlite3.connect.
LockTimesOut(t) == At(t, "insert") /\ writer \notin {None, t} /\ FailStorage(t)

AnswerStored(t) ==
  /\ At(t, "store_done")
  /\ Answer(t, 200)
  /\ UNCHANGED <<database, alertmanager, served, crashes>>

-----------------------------------------------------------------------------
(* GET /alerts.                                                              *)

ListAlerts(t) ==
  /\ Begin(t, "list", "look", 0)
  /\ UNCHANGED <<database, alertmanager, answers, ready, served, crashes>>

\* The first of a sequence, as many as LIMIT allows.
Limited(rows) == SubSeq(rows, 1, IF Len(rows) < Limit THEN Len(rows) ELSE Limit)

\* Mutants: the oldest rows first; the oldest rows, newest first.
OldestNotifications == Limited(notifications)
LimitedBeforeOrder == Reverse(Limited(notifications))

\* ORDER BY id DESC LIMIT 100.
LatestNotifications == Limited(Reverse(notifications))

Serve(t, list) ==
  /\ served' = [list |-> list, known |-> calls[t].known]
  /\ Answer(t, 200)
  /\ UNCHANGED <<database, alertmanager, crashes>>

LookForFile(t) ==
  /\ At(t, "look")
  /\ \/ storage = "absent" /\ Serve(t, <<>>)
     \/ /\ storage # "absent"
        /\ GoTo(t, "select")
        /\ UNCHANGED <<database, alertmanager, answers, ready, served, crashes>>

Select(t) ==
  /\ At(t, "select")
  /\ storage = "table"
  /\ Serve(t, LatestNotifications)

\* No such table, or any other sqlite3.Error.
FailSelect(t) ==
  /\ At(t, "select")
  /\ Answer(t, 503)
  /\ UNCHANGED <<database, alertmanager, served, crashes>>

NoSuchTable(t) == storage # "table" /\ FailSelect(t)

-----------------------------------------------------------------------------

\* The process ends and is started again by the restart policy: what was not
\* committed is gone, the file stays on its volume.
Crash ==
  /\ crashes < MaxCrashes
  /\ crashes' = crashes + 1
  /\ calls' = [t \in Thread |-> None]
  /\ writer' = None
  /\ UNCHANGED <<storage, notifications, alertmanager, answers, ready, served>>

\* What a thread does once it is scheduled, whatever clients and disk do.
Proceed(t) ==
  \/ BodyTimesOut(t)
  \/ Connect(t) \/ Create(t) \/ Insert(t) \/ Commit(t) \/ LockTimesOut(t)
  \/ AnswerStored(t)
  \/ LookForFile(t) \/ Select(t) \/ NoSuchTable(t)

Next ==
  \/ \E t \in Thread :
       \/ Proceed(t)
       \/ Notify(t) \/ CheckHealth(t) \/ ListAlerts(t)
       \/ ReadBody(t) \/ RejectBody(t) \/ FailStorage(t) \/ FailSelect(t)
  \/ \E g \in Group : HearAnswer(g) \/ StopListening(g)
  \/ Crash

Spec == Init /\ [][Next]_vars
FairSpec == Spec /\ \A t \in Thread : WF_vars(Proceed(t))

-----------------------------------------------------------------------------

Rows(p) == {i \in DOMAIN notifications : notifications[i] = p}

\* 200 only for a stored notification, any other answer for none, and never two
\* rows for one post; do_POST answers after closing() whichever way it ended.
AnswersMatchRows ==
  \A p \in Posts :
    /\ Cardinality(Rows(p)) <= 1
    /\ answers[p] = 200 => Rows(p) # {}
    /\ answers[p] \notin {200, None} => Rows(p) = {}

Position(p) == CHOOSE i \in Rows(p) : TRUE

\* GET /alerts shows every notification acknowledged before the request arrived,
\* unless Limit younger rows have pushed it out.
AcknowledgedAreServed ==
  \A p \in served.known :
    \/ p \in ToSet(served.list)
    \/ /\ Len(served.list) = Limit
       /\ \A q \in ToSet(served.list) : Position(q) > Position(p)

\* Of two acknowledged notifications of a group (a firing and its resolution, say)
\* the list shows the later sent one first, whatever was repeated, given up, cut off
\* by a crash or stored for other groups in between.  Notifications of different
\* groups are in the order of their commits, whichever was sent first.
AcknowledgedInOrder ==
  \A i, j \in DOMAIN served.list :
    /\ i < j
    /\ {served.list[i], served.list[j]} \subseteq acknowledged
    /\ group[served.list[i]] = group[served.list[j]]
    => served.list[i] > served.list[j]

\* After one health check or one post was answered 200, GET /alerts can no longer
\* meet a file without a table, not even after a crash.
HealthyMeansReadable == ready => storage = "table"

\* Every request ends, with a client that never sends its body and other threads
\* contending for the lock.
EveryRequestEnds == \A t \in Thread : calls[t] # None ~> calls[t] = None

=============================================================================
