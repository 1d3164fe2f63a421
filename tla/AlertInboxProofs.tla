-------------------------- MODULE AlertInboxProofs --------------------------
(***************************************************************************)
(* Proofs about AlertInbox: for any number of threads, posts and crashes and *)
(* any limit of the list, the inbox keeps what it acknowledges and serves the*)
(* notifications of each group in the order in which Alertmanager sent them. *)
(***************************************************************************)
EXTENDS AlertInbox, SequenceTheorems, FiniteSetTheorems, TLAPS

\* Posts are numbered from 1, only the thread that serves a post carries its number,
\* and a group waits for none but the last post it sent.
TypeInv ==
  /\ TypeOK
  /\ \A g \in Group : listening[g] # 0 =>
       /\ listening[g] <= posts /\ group[listening[g]] = g
       /\ \A p \in 1 .. posts : group[p] = g => p <= listening[g]
  /\ \A t \in Thread : calls[t] # None =>
       /\ calls[t].post <= posts
       /\ calls[t].op = "store" => calls[t].post # 0
       /\ calls[t].op = "list" <=> calls[t].at \in {"look", "select"}
       /\ calls[t].at = "body" => calls[t].op = "store"

\* What GET /alerts answers, entry by entry.
LEMMA LimitedRows ==
  ASSUME NEW rows \in Seq(Posts)
  PROVE  /\ Limited(rows) \in Seq(Posts)
         /\ Len(Limited(rows)) = IF Len(rows) < Limit THEN Len(rows) ELSE Limit
         /\ \A i \in 1 .. Len(Limited(rows)) : Limited(rows)[i] = rows[i]
<1> DEFINE n == IF Len(rows) < Limit THEN Len(rows) ELSE Limit
<1>1. n \in Nat /\ n <= Len(rows) /\ Len(rows) \in Nat
  BY InboxSettings
<1>2. \A i \in 1 .. n : rows[i] \in Posts
  BY <1>1
<1> HIDE DEF n
<1>3. /\ SubSeq(rows, 1, n) \in Seq(Posts)
      /\ Len(SubSeq(rows, 1, n)) = n
      /\ \A i \in 1 .. n : SubSeq(rows, 1, n)[i] = rows[i]
  BY <1>1, <1>2, SubSeqProperties
<1>. QED
  BY <1>3 DEF Limited, n

LEMMA ReversedRows ==
  ASSUME NEW rows \in Seq(Posts)
  PROVE  /\ Reverse(rows) \in Seq(Posts)
         /\ Len(Reverse(rows)) = Len(rows)
         /\ \A i \in 1 .. Len(rows) : Reverse(rows)[i] = rows[Len(rows) - i + 1]
BY DEF Reverse

LEMMA LatestRows ==
  ASSUME notifications \in Seq(Posts)
  PROVE  /\ LatestNotifications \in Seq(Posts)
         /\ Len(LatestNotifications) =
              IF Len(notifications) < Limit THEN Len(notifications) ELSE Limit
         /\ \A i \in 1 .. Len(LatestNotifications) :
              LatestNotifications[i] = notifications[Len(notifications) - i + 1]
<1> DEFINE rows == Reverse(notifications)
<1>1. /\ rows \in Seq(Posts)
      /\ Len(rows) = Len(notifications)
      /\ \A i \in 1 .. Len(notifications) :
           rows[i] = notifications[Len(notifications) - i + 1]
  BY ReversedRows
<1> HIDE DEF rows
<1>2. /\ Limited(rows) \in Seq(Posts)
      /\ Len(Limited(rows)) = IF Len(rows) < Limit THEN Len(rows) ELSE Limit
      /\ \A i \in 1 .. Len(Limited(rows)) : Limited(rows)[i] = rows[i]
  BY <1>1, LimitedRows
<1>3. Len(Limited(rows)) \in Nat /\ Len(Limited(rows)) <= Len(notifications)
  BY <1>1, <1>2, InboxSettings
<1>4. LatestNotifications = Limited(rows)
  BY DEF LatestNotifications, rows
<1>. QED
  BY <1>1, <1>2, <1>3, <1>4

\* A call that goes on to another step.
LEMMA CallGoesOn ==
  ASSUME TypeInv, NEW t \in Thread, NEW step \in Step, calls[t] # None, GoTo(t, step),
         UNCHANGED <<posts, acknowledged>>,
         calls[t].op = "list" <=> step \in {"look", "select"},
         step # "body"
  PROVE  /\ calls' \in [Thread -> Call \cup {None}]
         /\ \A u \in Thread : calls'[u] # None =>
              /\ calls'[u].post <= posts
              /\ calls'[u].op = "store" => calls'[u].post # 0
              /\ calls'[u].op = "list" <=> calls'[u].at \in {"look", "select"}
              /\ calls'[u].at = "body" => calls'[u].op = "store"
<1>1. calls[t] \in Call
  BY DEF TypeInv, TypeOK
<1>2. [calls[t] EXCEPT !.at = step] \in Call
  BY <1>1 DEF Call
<1>3. calls' = [calls EXCEPT ![t] = [calls[t] EXCEPT !.at = step]]
  BY DEF GoTo
<1>4. /\ calls'[t] = [calls[t] EXCEPT !.at = step]
      /\ \A u \in Thread \ {t} : calls'[u] = calls[u]
  BY <1>3 DEF TypeInv, TypeOK
<1>5. calls'[t].post = calls[t].post /\ calls'[t].op = calls[t].op /\ calls'[t].at = step
  BY <1>1, <1>4 DEF Call
<1>. QED
  BY <1>2, <1>3, <1>4, <1>5 DEF TypeInv, TypeOK

LEMMA TypeInvariant == Spec => []TypeInv
<1> USE InboxSettings, InboxBounds
<1>1. Init => TypeInv
  <2> SUFFICES ASSUME Init PROVE TypeInv
    OBVIOUS
  <2>1. served.list = <<>> /\ served.known = {} /\ notifications = <<>>
    BY DEF Init
  <2>2. served.list \in Seq(Posts) /\ notifications \in Seq(Posts)
    BY <2>1
  <2>3. posts \in 0 .. MaxPosts /\ crashes \in 0 .. MaxCrashes
    BY DEF Init
  <2>4. /\ calls \in [Thread -> Call \cup {None}]
        /\ answers \in [Posts -> Status \cup {None}]
        /\ \A t \in Thread : calls[t] = None
    BY DEF Init
  <2>5. /\ storage = "absent" /\ writer = None
        /\ listening \in [Group -> 0 .. MaxPosts] /\ \A g \in Group : listening[g] = 0
        /\ group \in [Posts -> Group]
        /\ acknowledged = {} /\ ready = FALSE
    BY SchedulesNameGroups DEF Init
  <2>. QED
    BY <2>1, <2>2, <2>3, <2>4, <2>5 DEF TypeInv, TypeOK
<1>2. TypeInv /\ [Next]_vars => TypeInv'
  <2> SUFFICES ASSUME TypeInv, [Next]_vars
               PROVE  TypeInv'
    OBVIOUS
  <2>0. TypeOK
    BY DEF TypeInv
  <2>1. ASSUME NEW t \in Thread, NEW status \in Status, calls[t] # None,
               Answer(t, status), notifications' = notifications, storage' = storage,
               writer' \in Thread \cup {None}, UNCHANGED <<alertmanager, crashes>>,
               served'.list \in Seq(Posts), served'.known \in SUBSET Posts
        PROVE  TypeInv'
    <3>1. answers' \in [Posts -> Status \cup {None}]
      BY <2>0, <2>1 DEF Answer, TypeOK
    <3>2. ready' \in BOOLEAN
      BY <2>0, <2>1 DEF Answer, TypeOK
    <3>3. calls' = [calls EXCEPT ![t] = None]
      BY <2>1 DEF Answer
    <3>. QED
      BY <2>0, <2>1, <3>1, <3>2, <3>3 DEF TypeInv, TypeOK, alertmanager
  <2>2. ASSUME NEW t \in Thread, NEW step \in Step, calls[t] # None, GoTo(t, step),
               calls[t].op = "list" <=> step \in {"look", "select"}, step # "body",
               notifications' \in Seq(Posts), storage' \in {"absent", "empty", "table"},
               writer' \in Thread \cup {None},
               UNCHANGED <<alertmanager, answers, ready, served, crashes>>
        PROVE  TypeInv'
    <3>1. UNCHANGED <<posts, group, listening, acknowledged, answers, ready, served, crashes>>
      BY <2>2 DEF alertmanager
    <3>2. /\ calls' \in [Thread -> Call \cup {None}]
          /\ \A u \in Thread : calls'[u] # None =>
               /\ calls'[u].post <= posts
               /\ calls'[u].op = "store" => calls'[u].post # 0
               /\ calls'[u].op = "list" <=> calls'[u].at \in {"look", "select"}
               /\ calls'[u].at = "body" => calls'[u].op = "store"
      BY <2>2, <3>1, CallGoesOn
    <3>. QED
      BY <2>2, <3>1, <3>2 DEF TypeInv, TypeOK
  <2>3. ASSUME NEW t \in Thread, Notify(t)
        PROVE  TypeInv'
    <3>1. [op |-> "store", at |-> "body", post |-> posts + 1, known |-> {}] \in Call
      BY <2>0, <2>3 DEF Notify, TypeOK, Call, Step
    <3>2. posts \in Nat /\ posts' = posts + 1 /\ posts' \in 0 .. MaxPosts
      BY <2>0, <2>3 DEF Notify, TypeOK
    <3>3. /\ calls' = [calls EXCEPT ![t] =
               [op |-> "store", at |-> "body", post |-> posts + 1, known |-> {}]]
          /\ listening' = [listening EXCEPT ![group[posts + 1]] = posts + 1]
          /\ UNCHANGED <<database, group, answers, acknowledged, ready, served, crashes>>
      BY <2>3 DEF Notify, Begin
    <3>4. TypeOK'
      BY <2>0, <3>1, <3>2, <3>3 DEF TypeOK, database
    <3>5. \A u \in Thread \ {t} : calls'[u] = calls[u]
      BY <2>0, <3>3 DEF TypeOK
    <3>6. calls'[t] = [op |-> "store", at |-> "body", post |-> posts + 1, known |-> {}]
      BY <2>0, <3>3 DEF TypeOK
    <3>7. \A u \in Thread : calls'[u] # None =>
            /\ calls'[u].post <= posts'
            /\ calls'[u].op = "store" => calls'[u].post # 0
            /\ calls'[u].op = "list" <=> calls'[u].at \in {"look", "select"}
            /\ calls'[u].at = "body" => calls'[u].op = "store"
      <4>1. CASE \A u \in Thread \ {t} : calls[u] # None => calls[u].post \in Nat
        BY <3>2, <3>5, <3>6, <4>1 DEF TypeInv
      <4>. QED
        BY <2>0, <4>1 DEF TypeOK, Call
    <3>8. posts + 1 \in Posts /\ group[posts + 1] \in Group
      BY <2>0, <3>2 DEF TypeOK, Posts
    <3>9. ASSUME NEW g \in Group, listening'[g] # 0
          PROVE  /\ listening'[g] <= posts' /\ group'[listening'[g]] = g
                 /\ \A p \in 1 .. posts' : group'[p] = g => p <= listening'[g]
      <4>1. CASE g = group[posts + 1]
        BY <2>0, <3>2, <3>3, <3>8, <4>1 DEF TypeOK
      <4>2. CASE g # group[posts + 1]
        <5>1. listening'[g] = listening[g] /\ listening[g] \in Nat
          BY <2>0, <3>3, <3>8, <4>2 DEF TypeOK
        <5>. QED
          BY <3>2, <3>3, <3>9, <4>2, <5>1 DEF TypeInv
      <4>. QED
        BY <4>1, <4>2
    <3>. QED
      BY <3>2, <3>4, <3>7, <3>9 DEF TypeInv
  <2>4. ASSUME NEW t \in Thread, CheckHealth(t) \/ ListAlerts(t)
        PROVE  TypeInv'
    <3>1. /\ [op |-> "health", at |-> "connect", post |-> 0, known |-> {}] \in Call
          /\ [op |-> "list", at |-> "look", post |-> 0, known |-> acknowledged] \in Call
      BY <2>0 DEF TypeOK, Call, Step
    <3>2. UNCHANGED <<database, alertmanager, answers, ready, served, crashes>>
      BY <2>4 DEF CheckHealth, ListAlerts
    <3>3. \/ calls' = [calls EXCEPT ![t] =
               [op |-> "health", at |-> "connect", post |-> 0, known |-> {}]]
          \/ calls' = [calls EXCEPT ![t] =
               [op |-> "list", at |-> "look", post |-> 0, known |-> acknowledged]]
      BY <2>4 DEF CheckHealth, ListAlerts, Begin
    <3>4. posts \in Nat
      BY <2>0 DEF TypeOK
    <3>5. PICK call \in Call : /\ calls' = [calls EXCEPT ![t] = call]
                               /\ call.post = 0 /\ call.op # "store" /\ call.at # "body"
                               /\ call.op = "list" <=> call.at \in {"look", "select"}
      BY <3>1, <3>3
    <3>6. /\ calls'[t] = call /\ call # None
          /\ \A u \in Thread \ {t} : calls'[u] = calls[u]
      BY <2>0, <3>5, NoneIsNoValue DEF TypeOK
    <3>7. TypeOK'
      BY <2>0, <3>2, <3>5 DEF TypeOK, database, alertmanager
    <3>8. UNCHANGED <<posts, group, listening>>
      BY <3>2 DEF alertmanager
    <3>. QED
      BY <3>4, <3>5, <3>6, <3>7, <3>8 DEF TypeInv
  <2>5. ASSUME NEW g \in Group, HearAnswer(g) \/ StopListening(g)
        PROVE  TypeInv'
    <3>1. listening[g] \in Posts
      BY <2>0, <2>5 DEF HearAnswer, StopListening, TypeOK, Posts
    <3>2. acknowledged' \in SUBSET Posts
      BY <2>0, <2>5, <3>1 DEF HearAnswer, StopListening, TypeOK
    <3>3. /\ listening' = [listening EXCEPT ![g] = 0]
          /\ UNCHANGED <<calls, database, posts, group, answers, ready, served, crashes>>
      BY <2>5 DEF HearAnswer, StopListening
    <3>. QED
      BY <2>0, <3>2, <3>3 DEF TypeInv, TypeOK, database
  <2>7. ASSUME NEW t \in Thread, ReadBody(t) \/ Connect(t) \/ Create(t) \/ Insert(t)
        PROVE  TypeInv'
    <3>1. /\ calls[t] # None /\ calls[t].at \in {"body", "connect", "create", "insert"}
          /\ \E step \in {"connect", "create", "insert", "commit"} : GoTo(t, step)
      BY <2>7 DEF ReadBody, Connect, Create, Insert, At
    <3>2. /\ notifications' = notifications
          /\ storage' \in {"absent", "empty", "table"}
          /\ writer' \in Thread \cup {None}
          /\ UNCHANGED <<alertmanager, answers, ready, served, crashes>>
      BY <2>0, <2>7 DEF ReadBody, Connect, Create, Insert, TypeOK, database
    <3>. QED
      BY <2>0, <2>2, <3>1, <3>2 DEF TypeInv, TypeOK, Step
  <2>8. ASSUME NEW t \in Thread, Commit(t)
        PROVE  TypeInv'
    <3>1. /\ calls[t] # None /\ calls[t].at = "commit" /\ GoTo(t, "store_done")
          /\ notifications' = IF calls[t].op = "store"
                                THEN Append(notifications, calls[t].post) ELSE notifications
          /\ storage' = storage /\ writer' = None
          /\ UNCHANGED <<alertmanager, answers, ready, served, crashes>>
      BY <2>8 DEF Commit, At
    <3>2. calls[t].op = "store" => calls[t].post \in Posts
      BY <2>0, <3>1 DEF TypeInv, TypeOK, Call, Posts
    <3>3. notifications' \in Seq(Posts)
      BY <2>0, <3>1, <3>2 DEF TypeOK
    <3>. QED
      BY <2>0, <2>2, <3>1, <3>3 DEF TypeInv, TypeOK, Step
  <2>9. ASSUME NEW t \in Thread,
               \/ RejectBody(t) \/ BodyTimesOut(t) \/ FailStorage(t)
               \/ AnswerStored(t) \/ FailSelect(t)
        PROVE  TypeInv'
    <3>1. /\ calls[t] # None
          /\ \E status \in Status : Answer(t, status)
          /\ notifications' = notifications /\ storage' = storage
          /\ writer' \in Thread \cup {None}
          /\ UNCHANGED <<alertmanager, served, crashes>>
      BY <2>0, <2>9 DEF RejectBody, BodyTimesOut, FailStorage, AnswerStored, FailSelect,
                        At, Status, database, Release, TypeOK
    <3>. QED
      BY <2>0, <2>1, <3>1 DEF TypeOK
  <2>10. ASSUME NEW t \in Thread, LookForFile(t) \/ Select(t)
         PROVE  TypeInv'
    <3>1. CASE GoTo(t, "select") /\ LookForFile(t) /\ storage # "absent"
      <4>1. /\ calls[t] # None /\ calls[t].at = "look"
            /\ UNCHANGED <<database, alertmanager, answers, ready, served, crashes>>
        BY <3>1 DEF LookForFile, At
      <4>. QED
        BY <2>0, <2>2, <3>1, <4>1 DEF TypeInv, TypeOK, Step, database
    <3>2. CASE \E list \in {<<>>, LatestNotifications} : Serve(t, list) /\ calls[t] # None
      <4>1. PICK list \in {<<>>, LatestNotifications} : Serve(t, list) /\ calls[t] # None
        BY <3>2
      <4>2. list \in Seq(Posts)
        <5>1. <<>> \in Seq(Posts)
          OBVIOUS
        <5>2. LatestNotifications \in Seq(Posts)
          BY <2>0, LatestRows DEF TypeOK
        <5>. QED
          BY <5>1, <5>2
      <4>3. calls[t].known \in SUBSET Posts
        BY <2>0, <4>1 DEF TypeOK, Call
      <4>4. /\ served' = [list |-> list, known |-> calls[t].known]
            /\ Answer(t, 200) /\ UNCHANGED <<database, alertmanager, crashes>>
        BY <4>1 DEF Serve
      <4>5. served'.list \in Seq(Posts) /\ served'.known \in SUBSET Posts
        BY <4>2, <4>3, <4>4
      <4>. QED
        BY <2>0, <2>1, <4>1, <4>4, <4>5 DEF Status, TypeOK, database
    <3>. QED
      BY <2>10, <3>1, <3>2 DEF LookForFile, Select, At
  <2>11. CASE Crash
    BY <2>0, <2>11 DEF Crash, TypeInv, TypeOK, alertmanager
  <2>12. CASE UNCHANGED vars
    BY <2>0, <2>12 DEF vars, TypeInv, TypeOK
  <2>. QED
    BY <2>3, <2>4, <2>5, <2>7, <2>8, <2>9, <2>10, <2>11, <2>12
       DEF Next, Proceed, LockTimesOut, NoSuchTable
<1>. QED
  BY <1>1, <1>2, PTL DEF Spec

\* Every variable keeps its type: only posts have rows, whatever health checks do.
THEOREM InboxTypeCorrect == Spec => []TypeOK
<1>1. TypeInv => TypeOK
  BY DEF TypeInv
<1>. QED
  BY <1>1, TypeInvariant, PTL

-----------------------------------------------------------------------------
(* Answers and rows.                                                         *)

Storing(t, p) == calls[t] # None /\ calls[t].op = "store" /\ calls[t].post = p

\* AnswersMatchRows speaks of answered posts.  The invariant behind it follows the
\* thread that serves a post: no row up to its commit, one row from then on, and
\* no answer before it ends.
RowInv ==
  /\ \A p \in Posts :
       /\ \A i, j \in Rows(p) : i = j
       /\ answers[p] = 200 => Rows(p) # {}
       /\ answers[p] \notin {200, None} => Rows(p) = {}
       /\ p > posts => Rows(p) = {} /\ answers[p] = None
  /\ \A t \in Thread, p \in Posts : Storing(t, p) =>
       /\ answers[p] = None
       /\ calls[t].at = "store_done" => Rows(p) # {}
       /\ calls[t].at # "store_done" => Rows(p) = {}
       /\ \A u \in Thread : Storing(u, p) => u = t

\* Threads stay on their side of the commit, or are gone.
LEMMA RowInvKept ==
  ASSUME RowInv, UNCHANGED <<notifications, answers, posts>>,
         \A u \in Thread :
           \/ calls'[u] = None
           \/ calls'[u].op # "store"
           \/ /\ calls[u] # None
              /\ calls'[u].op = calls[u].op /\ calls'[u].post = calls[u].post
              /\ calls'[u].at = "store_done" <=> calls[u].at = "store_done"
  PROVE  RowInv'
<1>1. \A p \in Posts : Rows(p)' = Rows(p)
  BY DEF Rows
<1>2. \A u \in Thread, p \in Posts : Storing(u, p)' => Storing(u, p)
  BY DEF Storing
<1>3. \A u \in Thread, p \in Posts : Storing(u, p)' =>
        (calls'[u].at = "store_done" <=> calls[u].at = "store_done")
  BY DEF Storing
<1>. QED
  BY <1>1, <1>2, <1>3 DEF RowInv

\* The call of t goes on, on the same side.
LEMMA RowInvStep ==
  ASSUME TypeInv, RowInv, UNCHANGED <<notifications, answers, posts>>,
         NEW t \in Thread, calls[t] # None,
         NEW step \in Step \ {"store_done"}, GoTo(t, step),
         calls[t].at # "store_done"
  PROVE  RowInv'
<1>1. calls[t] \in Call
  BY DEF TypeInv, TypeOK
<1>2. /\ calls'[t] = [calls[t] EXCEPT !.at = step]
      /\ \A u \in Thread \ {t} : calls'[u] = calls[u]
  BY DEF GoTo, TypeInv, TypeOK
<1>3. /\ calls'[t].op = calls[t].op /\ calls'[t].post = calls[t].post
      /\ calls'[t].at # "store_done"
  BY <1>1, <1>2 DEF Call
<1>. QED
  BY <1>2, <1>3, RowInvKept

LEMMA RowInvAnswered ==
  ASSUME TypeInv, RowInv, UNCHANGED <<notifications, posts>>,
         NEW t \in Thread, calls[t] # None, NEW status \in Status, Answer(t, status),
         calls[t].op = "store" =>
           \/ status = 200 /\ calls[t].at = "store_done"
           \/ status # 200 /\ calls[t].at # "store_done"
  PROVE  RowInv'
<1>1. /\ calls'[t] = None
      /\ \A u \in Thread \ {t} : calls'[u] = calls[u]
  BY DEF Answer, TypeInv, TypeOK
<1>2. \A p \in Posts : Rows(p)' = Rows(p)
  BY DEF Rows
<1>3. CASE calls[t].op # "store"
  <2>1. answers' = answers
    BY <1>3 DEF Answer
  <2>. QED
    BY <1>1, <2>1, RowInvKept
<1>4. CASE calls[t].op = "store"
  <2> DEFINE post == calls[t].post
  <2>1. post \in Posts /\ post <= posts /\ posts \in Nat
    BY <1>4, InboxBounds DEF TypeInv, TypeOK, Call, Posts
  <2>2. Storing(t, post)
    BY <1>4 DEF Storing
  <2>3. /\ answers'[post] = status
        /\ \A p \in Posts \ {post} : answers'[p] = answers[p]
    BY <1>4, <2>1 DEF Answer, TypeInv, TypeOK
  <2>4. /\ status = 200 => Rows(post) # {}
        /\ status # 200 => Rows(post) = {}
    BY <1>4, <2>1, <2>2 DEF RowInv
  <2>5. \A u \in Thread, p \in Posts : Storing(u, p)' => Storing(u, p) /\ u # t
    BY <1>1 DEF Storing
  <2>6. \A u \in Thread, p \in Posts : Storing(u, p)' =>
          p # post /\ calls'[u] = calls[u]
    BY <1>1, <2>1, <2>2, <2>5 DEF RowInv
  <2> HIDE DEF post
  <2>7. \A p \in Posts :
          /\ \A i, j \in Rows(p)' : i = j
          /\ answers'[p] = 200 => Rows(p)' # {}
          /\ answers'[p] \notin {200, None} => Rows(p)' = {}
          /\ p > posts' => Rows(p)' = {} /\ answers'[p] = None
    <3>1. \A p \in Posts : p > posts => p # post
      BY <2>1, InboxBounds DEF Posts
    <3>. QED
      BY <1>2, <2>3, <2>4, <3>1 DEF RowInv
  <2>. QED
    BY <1>2, <2>3, <2>5, <2>6, <2>7 DEF RowInv
<1>. QED
  BY <1>3, <1>4

LEMMA RowInvNotified ==
  ASSUME TypeInv, RowInv, NEW t \in Thread, Notify(t)
  PROVE  RowInv'
<1> DEFINE call == [op |-> "store", at |-> "body", post |-> posts + 1, known |-> {}]
<1>1. /\ calls' = [calls EXCEPT ![t] = call] /\ calls[t] = None
      /\ posts' = posts + 1 /\ UNCHANGED <<notifications, answers>>
  BY DEF Notify, Begin, database
<1>2. posts \in Nat /\ posts + 1 \in Posts
  BY InboxBounds DEF Notify, TypeInv, TypeOK, Posts
<1>3. /\ calls'[t] = call
      /\ \A u \in Thread \ {t} : calls'[u] = calls[u]
  BY <1>1 DEF TypeInv, TypeOK
<1>4. \A p \in Posts : Rows(p)' = Rows(p)
  BY <1>1 DEF Rows
<1>5. Rows(posts + 1) = {} /\ answers[posts + 1] = None
  BY <1>2 DEF RowInv
<1>6. \A u \in Thread, p \in Posts : Storing(u, p) => p <= posts
  BY <1>2 DEF Storing, TypeInv
<1>7. \A p \in Posts : Storing(t, p)' => p = posts + 1
  BY <1>3 DEF Storing
<1>8. \A u \in Thread \ {t}, p \in Posts : Storing(u, p)' =>
        Storing(u, p) /\ p # posts + 1
  <2>1. \A u \in Thread \ {t}, p \in Posts : Storing(u, p)' => Storing(u, p)
    BY <1>3 DEF Storing
  <2>2. \A p \in Posts : p <= posts => p # posts + 1
    BY <1>2
  <2>. QED
    BY <1>6, <2>1, <2>2
<1>9. calls'[t].at # "store_done"
  BY <1>3
<1>10. \A p \in Posts : p > posts' => p > posts
  BY <1>1, <1>2, InboxBounds DEF Posts
<1> HIDE DEF call
<1>11. \A p \in Posts :
         /\ \A i, j \in Rows(p)' : i = j
         /\ answers'[p] = 200 => Rows(p)' # {}
         /\ answers'[p] \notin {200, None} => Rows(p)' = {}
         /\ p > posts' => Rows(p)' = {} /\ answers'[p] = None
  BY <1>1, <1>4, <1>10 DEF RowInv
<1>12. ASSUME NEW u \in Thread, NEW p \in Posts, Storing(u, p)'
       PROVE  /\ answers'[p] = None
              /\ calls'[u].at = "store_done" => Rows(p)' # {}
              /\ calls'[u].at # "store_done" => Rows(p)' = {}
              /\ \A v \in Thread : Storing(v, p)' => v = u
  <2>1. CASE u = t
    BY <1>1, <1>4, <1>5, <1>7, <1>8, <1>9, <1>12, <2>1
  <2>2. CASE u # t
    <3>1. Storing(u, p) /\ p # posts + 1 /\ calls'[u] = calls[u]
      BY <1>3, <1>8, <1>12, <2>2
    <3>. QED
      BY <1>1, <1>4, <1>7, <1>8, <3>1 DEF RowInv
  <2>. QED
    BY <2>1, <2>2
<1>. QED
  BY <1>11, <1>12 DEF RowInv

\* What a commit does to the rows of every post.
LEMMA CommittedRows ==
  ASSUME TypeInv, NEW t \in Thread, Commit(t), calls[t].op = "store",
         NEW post \in Posts, calls[t].post = post
  PROVE  /\ Len(notifications) \in Nat
         /\ Len(notifications') = Len(notifications) + 1
         /\ \A i \in 1 .. Len(notifications) : notifications'[i] = notifications[i]
         /\ notifications'[Len(notifications) + 1] = post
         /\ Rows(post)' = Rows(post) \cup {Len(notifications) + 1}
         /\ \A p \in Posts \ {post} : Rows(p)' = Rows(p)
<1>1. /\ notifications \in Seq(Posts) /\ Len(notifications) \in Nat
      /\ notifications' = Append(notifications, post)
  BY DEF Commit, TypeInv, TypeOK
<1>2. /\ DOMAIN notifications = 1 .. Len(notifications)
      /\ DOMAIN notifications' = 1 .. Len(notifications) + 1
      /\ Len(notifications') = Len(notifications) + 1
      /\ notifications'[Len(notifications) + 1] = post
      /\ \A i \in 1 .. Len(notifications) : notifications'[i] = notifications[i]
  BY <1>1
<1>3. Rows(post)' = Rows(post) \cup {Len(notifications) + 1}
  BY <1>1, <1>2 DEF Rows
<1>4. \A p \in Posts \ {post} : Rows(p)' = Rows(p)
  BY <1>1, <1>2 DEF Rows
<1>. QED
  BY <1>1, <1>2, <1>3, <1>4

LEMMA RowInvCommitted ==
  ASSUME TypeInv, RowInv, NEW t \in Thread, Commit(t)
  PROVE  RowInv'
<1>1. /\ calls[t] # None /\ calls[t] \in Call /\ calls[t].at = "commit"
      /\ calls'[t] = [calls[t] EXCEPT !.at = "store_done"]
      /\ \A u \in Thread \ {t} : calls'[u] = calls[u]
      /\ UNCHANGED <<answers, posts>>
  BY DEF Commit, At, GoTo, alertmanager, TypeInv, TypeOK
<1>2. /\ calls'[t] # None /\ calls'[t].op = calls[t].op /\ calls'[t].post = calls[t].post
      /\ calls'[t].at = "store_done"
  <2>1. calls'[t] \in Call
    BY <1>1 DEF Call, Step
  <2>. QED
    BY <1>1, <2>1, NoneIsNoValue DEF Call
<1>3. CASE calls[t].op # "store"
  <2>1. notifications' = notifications
    BY <1>3 DEF Commit
  <2>. QED
    BY <1>1, <1>2, <1>3, <2>1, RowInvKept
<1>4. CASE calls[t].op = "store"
  <2>0. PICK post \in Posts : calls[t].post = post
    BY <1>1, <1>4, InboxBounds DEF TypeInv, TypeOK, Call, Posts
  <2>1. /\ Storing(t, post)
        /\ Rows(post)' = Rows(post) \cup {Len(notifications) + 1}
        /\ \A p \in Posts \ {post} : Rows(p)' = Rows(p)
    BY <1>1, <1>4, <2>0, CommittedRows DEF Storing
  <2>2. Rows(post) = {} /\ answers[post] = None /\ ~(post > posts)
    <3>1. Rows(post) = {} /\ answers[post] = None
      BY <1>1, <2>1 DEF RowInv
    <3>2. post <= posts /\ post \in Nat /\ posts \in Nat
      BY <1>1, <2>0, InboxBounds DEF TypeInv, TypeOK, Posts
    <3>. QED
      BY <3>1, <3>2
  <2>3. \A u \in Thread, p \in Posts : Storing(u, p)' => Storing(u, p)
    BY <1>1, <1>2 DEF Storing
  <2>4. \A p \in Posts : Storing(t, p) => p = post
    BY <2>0 DEF Storing
  <2>5. \A u \in Thread : Storing(u, post) => u = t
    BY <2>1 DEF RowInv
  <2>6. ASSUME NEW p \in Posts
        PROVE  /\ \A i, j \in Rows(p)' : i = j
               /\ answers'[p] = 200 => Rows(p)' # {}
               /\ answers'[p] \notin {200, None} => Rows(p)' = {}
               /\ p > posts' => Rows(p)' = {} /\ answers'[p] = None
    <3>1. CASE p = post
      BY <1>1, <2>1, <2>2, <3>1, NoneIsNoValue
    <3>2. CASE p # post
      BY <1>1, <2>1, <3>2 DEF RowInv
    <3>. QED
      BY <3>1, <3>2
  <2>7. ASSUME NEW u \in Thread, NEW p \in Posts, Storing(u, p)'
        PROVE  /\ answers'[p] = None
               /\ calls'[u].at = "store_done" => Rows(p)' # {}
               /\ calls'[u].at # "store_done" => Rows(p)' = {}
               /\ \A v \in Thread : Storing(v, p)' => v = u
    <3>1. CASE u = t
      <4>1. p = post
        BY <2>3, <2>4, <2>7, <3>1
      <4>2. \A v \in Thread : Storing(v, p)' => v = u
        BY <2>3, <2>5, <3>1, <4>1
      <4>3. calls'[u].at = "store_done" /\ answers'[p] = None /\ Rows(p)' # {}
        BY <1>1, <1>2, <2>1, <2>2, <3>1, <4>1
      <4>. QED
        BY <4>2, <4>3
    <3>2. CASE u # t
      <4>1. Storing(u, p) /\ p # post /\ calls'[u] = calls[u]
        BY <1>1, <2>3, <2>5, <2>7, <3>2
      <4>. QED
        BY <1>1, <2>1, <2>3, <4>1 DEF RowInv
    <3>. QED
      BY <3>1, <3>2
  <2>. QED
    BY <2>6, <2>7 DEF RowInv
<1>. QED
  BY <1>3, <1>4

LEMMA RowInvariant == Spec => []RowInv
<1>1. Init => RowInv
  <2> SUFFICES ASSUME Init PROVE RowInv
    OBVIOUS
  <2>1. \A p \in Posts : Rows(p) = {} /\ answers[p] = None
    BY DEF Init, Rows
  <2>2. \A t \in Thread, p \in Posts : ~Storing(t, p)
    BY DEF Init, Storing
  <2>. QED
    BY <2>1, <2>2, NoneIsNoValue DEF RowInv
<1>2. TypeInv /\ RowInv /\ [Next]_vars => RowInv'
  <2> SUFFICES ASSUME TypeInv, RowInv, [Next]_vars
               PROVE  RowInv'
    OBVIOUS
  <2>1. ASSUME NEW t \in Thread, Notify(t)
        PROVE  RowInv'
    BY <2>1, RowInvNotified
  <2>2. ASSUME NEW t \in Thread, Commit(t)
        PROVE  RowInv'
    BY <2>2, RowInvCommitted
  <2>3. ASSUME NEW t \in Thread, CheckHealth(t) \/ ListAlerts(t)
        PROVE  RowInv'
    <3>1. UNCHANGED <<notifications, answers, posts>>
      BY <2>3 DEF CheckHealth, ListAlerts, database, alertmanager
    <3>2. \A u \in Thread \ {t} : calls'[u] = calls[u]
      BY <2>3 DEF CheckHealth, ListAlerts, Begin, TypeInv, TypeOK
    <3>3. calls'[t].op # "store"
      BY <2>3 DEF CheckHealth, ListAlerts, Begin, TypeInv, TypeOK
    <3>4. \A u \in Thread : calls'[u] = None \/ calls'[u].op # "store" \/
                            (calls'[u] = calls[u] /\ calls[u] # None)
      BY <3>2, <3>3
    <3>. QED
      BY <3>1, <3>4, RowInvKept
  <2>4. ASSUME NEW t \in Thread, ReadBody(t) \/ Connect(t) \/ Create(t) \/ Insert(t)
        PROVE  RowInv'
    <3>1. UNCHANGED <<notifications, answers, posts>>
      BY <2>4 DEF ReadBody, Connect, Create, Insert, database, alertmanager
    <3>2. /\ calls[t] # None /\ calls[t].at # "store_done"
          /\ \E step \in Step \ {"store_done"} : GoTo(t, step)
      BY <2>4 DEF ReadBody, Connect, Create, Insert, At, Step
    <3>. QED
      BY <3>1, <3>2, RowInvStep
  <2>5. ASSUME NEW t \in Thread,
               \/ RejectBody(t) \/ BodyTimesOut(t) \/ FailStorage(t)
               \/ AnswerStored(t) \/ FailSelect(t)
        PROVE  RowInv'
    <3>1. UNCHANGED <<notifications, posts>> /\ calls[t] # None
      BY <2>5 DEF RejectBody, BodyTimesOut, FailStorage, AnswerStored, FailSelect,
                  At, database, alertmanager
    <3>2. \E status \in Status :
            /\ Answer(t, status)
            /\ \/ status = 200 /\ calls[t].at = "store_done"
               \/ status # 200 /\ calls[t].at # "store_done"
      BY <2>5 DEF RejectBody, BodyTimesOut, FailStorage, AnswerStored, FailSelect,
                  At, Status
    <3>. QED
      BY <3>1, <3>2, RowInvAnswered
  <2>6. ASSUME NEW t \in Thread, LookForFile(t) \/ Select(t)
        PROVE  RowInv'
    <3>1. /\ UNCHANGED <<notifications, posts>>
          /\ calls[t] # None /\ calls[t].at \in {"look", "select"}
      BY <2>6 DEF LookForFile, Select, Serve, At, database, alertmanager
    <3>2. calls[t].op # "store" /\ calls[t].at # "store_done"
      BY <3>1 DEF TypeInv
    <3>3. CASE Answer(t, 200)
      BY <3>1, <3>2, <3>3, RowInvAnswered DEF Status
    <3>4. CASE GoTo(t, "select") /\ answers' = answers
      BY <3>1, <3>2, <3>4, RowInvStep DEF Step
    <3>. QED
      BY <2>6, <3>3, <3>4 DEF LookForFile, Select, Serve
  <2>7. CASE (\E g \in Group : HearAnswer(g) \/ StopListening(g)) \/ UNCHANGED vars
    <3>1. UNCHANGED <<calls, notifications, answers, posts>>
      BY <2>7 DEF HearAnswer, StopListening, vars, database
    <3>. QED
      BY <3>1, RowInvKept
  <2>8. CASE Crash
    <3>1. UNCHANGED <<notifications, answers, posts>> /\ \A u \in Thread : calls'[u] = None
      BY <2>8 DEF Crash, alertmanager
    <3>. QED
      BY <3>1, RowInvKept
  <2>. QED
    BY <2>1, <2>2, <2>3, <2>4, <2>5, <2>6, <2>7, <2>8
       DEF Next, Proceed, LockTimesOut, NoSuchTable
<1>. QED
  BY <1>1, <1>2, TypeInvariant, PTL DEF Spec

\* The thread that serves a post commits once and answers what became of it, so
\* that no notification is acknowledged without a row and none has two.
THEOREM AnswersAgreeWithRows == Spec => []AnswersMatchRows
<1>1. RowInv => AnswersMatchRows
  <2> SUFFICES ASSUME RowInv, NEW p \in Posts
               PROVE  Cardinality(Rows(p)) <= 1
    BY DEF RowInv, AnswersMatchRows
  <2>1. CASE Rows(p) = {}
    BY <2>1, FS_EmptySet
  <2>2. CASE Rows(p) # {}
    <3>1. PICK i \in Rows(p) : TRUE
      BY <2>2
    <3>2. \A j \in Rows(p) : j = i
      BY <3>1 DEF RowInv
    <3>3. Rows(p) = {i}
      BY <3>1, <3>2
    <3>4. Cardinality({i}) = 1
      BY FS_Singleton
    <3>. QED
      BY <3>3, <3>4
  <2>. QED
    BY <2>1, <2>2
<1>. QED
  BY <1>1, RowInvariant, PTL

-----------------------------------------------------------------------------
(* The table.                                                                *)

\* A call that has passed the CREATE TABLE knows that there is a table; what a
\* reader knew when it came is still acknowledged.
StorageInv ==
  /\ ready \/ notifications # <<>> => storage = "table"
  /\ \A t \in Thread : calls[t] # None =>
       /\ calls[t].at \in {"insert", "commit", "store_done"} => storage = "table"
       /\ calls[t].known \subseteq acknowledged

LEMMA MovedCall ==
  ASSUME TypeInv, NEW t \in Thread, calls[t] # None, NEW step \in Step, GoTo(t, step)
  PROVE  /\ calls'[t].at = step
         /\ calls'[t].known = calls[t].known
         /\ \A u \in Thread \ {t} : calls'[u] = calls[u]
<1>1. calls[t] \in Call
  BY DEF TypeInv, TypeOK
<1>2. /\ calls'[t] = [calls[t] EXCEPT !.at = step]
      /\ \A u \in Thread \ {t} : calls'[u] = calls[u]
  BY DEF GoTo, TypeInv, TypeOK
<1>. QED
  BY <1>1, <1>2 DEF Call

\* Nothing is forgotten, and every call is new, gone, unchanged or one that has a
\* table if it needs one.
LEMMA StorageInvKept ==
  ASSUME StorageInv, acknowledged \subseteq acknowledged',
         storage = "table" => storage' = "table",
         notifications' = notifications \/ storage' = "table",
         ready' => ready \/ storage' = "table",
         \A u \in Thread :
           \/ calls'[u] = None
           \/ calls'[u] = calls[u]
           \/ /\ calls[u] # None => calls'[u].known = calls[u].known
              /\ calls[u] = None => calls'[u].known \subseteq acknowledged
              /\ calls'[u].at \in {"insert", "commit", "store_done"} => storage' = "table"
  PROVE  StorageInv'
BY DEF StorageInv

LEMMA StorageInvariant == Spec => []StorageInv
<1>1. Init => StorageInv
  BY DEF Init, StorageInv
<1>2. TypeInv /\ StorageInv /\ [Next]_vars => StorageInv'
  <2> SUFFICES ASSUME TypeInv, StorageInv, [Next]_vars
               PROVE  StorageInv'
    OBVIOUS
  <2>1. ASSUME NEW t \in Thread, Notify(t) \/ CheckHealth(t) \/ ListAlerts(t)
        PROVE  StorageInv'
    <3>1. UNCHANGED <<acknowledged, storage, notifications, ready>> /\ calls[t] = None
      BY <2>1 DEF Notify, CheckHealth, ListAlerts, Begin, database, alertmanager
    <3>2. PICK call \in [op : {"store", "health", "list"}, at : {"body", "connect", "look"},
                         post : Nat, known : {{}, acknowledged}] :
            calls' = [calls EXCEPT ![t] = call]
      <4>1. posts + 1 \in Nat
        BY DEF TypeInv, TypeOK
      <4>. QED
        BY <2>1, <4>1 DEF Notify, CheckHealth, ListAlerts, Begin
    <3>3. calls'[t] = call /\ \A u \in Thread \ {t} : calls'[u] = calls[u]
      BY <3>2 DEF TypeInv, TypeOK
    <3>4. calls'[t].known \subseteq acknowledged /\ calls'[t].at \notin {"insert", "commit", "store_done"}
      BY <3>3
    <3>. QED
      BY <3>1, <3>3, <3>4, StorageInvKept
  <2>2. ASSUME NEW t \in Thread,
               ReadBody(t) \/ Connect(t) \/ Create(t) \/ Insert(t) \/ Commit(t)
        PROVE  StorageInv'
    <3>1. /\ UNCHANGED <<acknowledged, ready>> /\ calls[t] # None
          /\ storage = "table" => storage' = "table"
          /\ notifications' = notifications \/ (Commit(t) /\ storage' = storage)
      BY <2>2 DEF ReadBody, Connect, Create, Insert, Commit, At, database, alertmanager
    <3>2. Commit(t) => calls[t].at = "commit" /\ storage = "table"
      BY <3>1 DEF Commit, At, StorageInv
    <3>3. PICK step \in Step :
            /\ GoTo(t, step)
            /\ step \in {"insert", "commit", "store_done"} => storage' = "table"
      <4>1. CASE ReadBody(t) \/ Connect(t)
        BY <4>1 DEF ReadBody, Connect, Step
      <4>2. CASE Create(t)
        BY <4>2 DEF Create, Step
      <4>3. CASE Insert(t) \/ Commit(t)
        <5>1. calls[t].at \in {"insert", "commit"} /\ storage' = storage
          BY <4>3 DEF Insert, Commit, At
        <5>. QED
          BY <3>1, <4>3, <5>1 DEF Insert, Commit, Step, StorageInv
      <4>. QED
        BY <2>2, <4>1, <4>2, <4>3
    <3>4. /\ calls'[t].at = step /\ calls'[t].known = calls[t].known
          /\ \A u \in Thread \ {t} : calls'[u] = calls[u]
      BY <3>1, <3>3, MovedCall
    <3>. QED
      BY <3>1, <3>2, <3>3, <3>4, StorageInvKept
  <2>3. ASSUME NEW t \in Thread,
               \/ RejectBody(t) \/ BodyTimesOut(t) \/ FailStorage(t)
               \/ AnswerStored(t) \/ FailSelect(t)
        PROVE  StorageInv'
    <3>1. UNCHANGED <<acknowledged, storage, notifications>>
      BY <2>3 DEF RejectBody, BodyTimesOut, FailStorage, AnswerStored, FailSelect,
                  database, alertmanager
    <3>2. \A u \in Thread : calls'[u] = None \/ calls'[u] = calls[u]
      BY <2>3 DEF RejectBody, BodyTimesOut, FailStorage, AnswerStored, FailSelect,
                  Answer, TypeInv, TypeOK
    <3>3. AnswerStored(t) => storage = "table"
      BY DEF AnswerStored, At, StorageInv
    <3>4. ready' => ready \/ AnswerStored(t)
      <4>1. CASE AnswerStored(t)
        BY <4>1
      <4>2. CASE Answer(t, 400) \/ Answer(t, 503)
        <5>1. 400 # 200 /\ 503 # 200
          OBVIOUS
        <5>. QED
          BY <4>2, <5>1, Zenon DEF Answer
      <4>. QED
        BY <2>3, <4>1, <4>2 DEF RejectBody, BodyTimesOut, FailStorage, FailSelect
    <3>. QED
      BY <3>1, <3>2, <3>3, <3>4, StorageInvKept
  <2>4. ASSUME NEW t \in Thread, LookForFile(t) \/ Select(t)
        PROVE  StorageInv'
    <3>1. /\ UNCHANGED <<acknowledged, storage, notifications>>
          /\ calls[t] # None /\ calls[t].op = "list"
      BY <2>4 DEF LookForFile, Select, Serve, At, database, alertmanager, TypeInv
    <3>2. CASE Answer(t, 200)
      <4>1. ready' = ready
        BY <3>1, <3>2 DEF Answer, TypeInv, TypeOK
      <4>2. \A u \in Thread : calls'[u] = None \/ calls'[u] = calls[u]
        BY <3>2 DEF Answer, TypeInv, TypeOK
      <4>. QED
        BY <3>1, <4>1, <4>2, StorageInvKept
    <3>3. CASE GoTo(t, "select") /\ ready' = ready
      <4>1. /\ calls'[t].at = "select" /\ calls'[t].known = calls[t].known
            /\ \A u \in Thread \ {t} : calls'[u] = calls[u]
        BY <3>1, <3>3, MovedCall DEF Step
      <4>. QED
        BY <3>1, <3>3, <4>1, StorageInvKept
    <3>. QED
      BY <2>4, <3>2, <3>3 DEF LookForFile, Select, Serve
  <2>5. CASE (\E g \in Group : HearAnswer(g) \/ StopListening(g)) \/ UNCHANGED vars
    <3>1. UNCHANGED <<calls, storage, notifications, ready>> /\ acknowledged \subseteq acknowledged'
      BY <2>5 DEF HearAnswer, StopListening, vars, database
    <3>. QED
      BY <3>1, StorageInvKept
  <2>6. CASE Crash
    <3>1. /\ UNCHANGED <<acknowledged, storage, notifications, ready>>
          /\ \A u \in Thread : calls'[u] = None
      BY <2>6 DEF Crash, alertmanager
    <3>. QED
      BY <3>1, StorageInvKept
  <2>. QED
    BY <2>1, <2>2, <2>3, <2>4, <2>5, <2>6 DEF Next, Proceed, LockTimesOut, NoSuchTable
<1>. QED
  BY <1>1, <1>2, TypeInvariant, PTL DEF Spec

\* Whoever has been answered 200 by a health check or a post will never make the
\* reader of GET /alerts meet a file without a table.
THEOREM HealthImpliesTable == Spec => []HealthyMeansReadable
<1>1. StorageInv => HealthyMeansReadable
  BY DEF StorageInv, HealthyMeansReadable
<1>. QED
  BY <1>1, StorageInvariant, PTL

-----------------------------------------------------------------------------
(* The list.                                                                 *)

\* A group's post is acknowledged before its next one is sent, so its row is older than
\* the rows of the group's acknowledged posts after it and of the one under way.
Awaited == {listening[g] : g \in Group} \ {0}

OrderInv ==
  /\ \A p \in acknowledged : answers[p] = 200
  /\ \A p \in acknowledged, q \in acknowledged \cup Awaited :
       p < q /\ group[p] = group[q] => \A i \in Rows(p), j \in Rows(q) : i < j

\* The list that was served last: the youngest of the first n rows, which are all
\* rows there were, and among them those acknowledged when its reader came.
ServedFrom(n) ==
  /\ Len(served.list) = IF n < Limit THEN n ELSE Limit
  /\ \A i \in 1 .. Len(served.list) : served.list[i] = notifications[n - i + 1]
  /\ \A p \in served.known : \E i \in 1 .. n : notifications[i] = p

ListInv == OrderInv /\ \E n \in 0 .. Len(notifications) : ServedFrom(n)

\* Steps that neither store, nor serve, nor acknowledge, nor send a post.
LEMMA ListInvKept ==
  ASSUME ListInv, UNCHANGED <<acknowledged, group, notifications, served>>,
         Awaited' \subseteq Awaited,
         \A p \in acknowledged : answers'[p] = answers[p]
  PROVE  ListInv'
<1>1. OrderInv'
  BY DEF ListInv, OrderInv, Rows
<1>2. \A n \in 0 .. Len(notifications) : ServedFrom(n) => ServedFrom(n)'
  BY DEF ServedFrom
<1>. QED
  BY <1>1, <1>2 DEF ListInv

LEMMA AwaitedStays ==
  ASSUME UNCHANGED listening
  PROVE  Awaited' \subseteq Awaited
BY DEF Awaited

\* A post that is acknowledged or awaited has been sent.
LEMMA AwaitedPosts ==
  ASSUME TypeInv
  PROVE  Awaited \subseteq Posts /\ acknowledged \subseteq Posts
BY InboxBounds DEF TypeInv, TypeOK, Awaited, Posts

LEMMA ListInvCommitted ==
  ASSUME TypeInv, RowInv, ListInv, NEW t \in Thread, Commit(t)
  PROVE  ListInv'
<1>1. /\ UNCHANGED <<acknowledged, group, listening, served, answers>>
      /\ calls[t] # None /\ calls[t] \in Call
  BY DEF Commit, At, alertmanager, TypeInv, TypeOK
<1>2. CASE calls[t].op # "store"
  <2>1. notifications' = notifications
    BY <1>2 DEF Commit
  <2>. QED
    BY <1>1, <2>1, ListInvKept, AwaitedStays
<1>3. CASE calls[t].op = "store"
  <2>1. PICK post \in Posts : calls[t].post = post
    BY <1>1, <1>3, InboxBounds DEF TypeInv, TypeOK, Posts, Call
  <2>2. /\ Len(notifications) \in Nat
        /\ Len(notifications') = Len(notifications) + 1
        /\ \A i \in 1 .. Len(notifications) : notifications'[i] = notifications[i]
        /\ Rows(post)' = Rows(post) \cup {Len(notifications) + 1}
        /\ \A p \in Posts \ {post} : Rows(p)' = Rows(p)
    BY <1>3, <2>1, CommittedRows
  <2>3. post \notin acknowledged
    <3>1. Storing(t, post)
      BY <1>1, <1>3, <2>1 DEF Storing
    <3>2. answers[post] = None /\ None # 200
      BY <3>1, NoneIsNoValue DEF RowInv
    <3>. QED
      BY <3>2 DEF ListInv, OrderInv
  <2>4. acknowledged \subseteq Posts /\ Awaited \subseteq Posts /\ Awaited' = Awaited
    BY <1>1, AwaitedPosts DEF Awaited
  <2>5. \A p \in Posts : Rows(p) \subseteq 1 .. Len(notifications)
    BY DEF Rows, TypeInv, TypeOK
  <2>6. OrderInv'
    <3>1. SUFFICES ASSUME NEW p \in acknowledged, NEW q \in acknowledged \cup Awaited,
                          p < q, group[p] = group[q], NEW i \in Rows(p)', NEW j \in Rows(q)'
                   PROVE  i < j
      BY <1>1, <2>4 DEF ListInv, OrderInv
    <3>2. i \in Rows(p) /\ i \in 1 .. Len(notifications)
      BY <2>2, <2>3, <2>4, <2>5
    <3>3. q \in Posts
      BY <2>4, <3>1
    <3>4. CASE q = post /\ j = Len(notifications) + 1
      BY <2>2, <3>2, <3>4
    <3>5. CASE j \in Rows(q)
      BY <3>1, <3>2, <3>5 DEF ListInv, OrderInv
    <3>. QED
      BY <2>2, <3>3, <3>4, <3>5
  <2>7. PICK n \in 0 .. Len(notifications) : ServedFrom(n)
    BY DEF ListInv
  <2>8. \A i \in 1 .. n : notifications'[i] = notifications[i]
    BY <2>2
  <2>9. /\ Len(served.list) <= n /\ Len(served.list) \in Nat
        /\ \A i \in 1 .. Len(served.list) : n - i + 1 \in 1 .. n
    BY <2>2, <2>7, InboxSettings DEF ServedFrom
  <2>10. ServedFrom(n)'
    BY <1>1, <2>7, <2>8, <2>9 DEF ServedFrom
  <2>. QED
    BY <2>2, <2>6, <2>10 DEF ListInv
<1>. QED
  BY <1>2, <1>3

LEMMA ListInvServed ==
  ASSUME TypeInv, RowInv, StorageInv, ListInv, NEW t \in Thread, calls[t] # None,
         NEW list, Serve(t, list), calls[t].op = "list",
         \/ list = LatestNotifications
         \/ list = <<>> /\ notifications = <<>>
  PROVE  ListInv'
<1>1. /\ UNCHANGED <<acknowledged, group, listening, notifications, answers>>
      /\ served'.list = list /\ served'.known = calls[t].known
  BY DEF Serve, Answer, database, alertmanager
<1>2. OrderInv'
  BY <1>1 DEF ListInv, OrderInv, Rows, Awaited
<1>3. notifications \in Seq(Posts) /\ Len(notifications) \in Nat
  BY DEF TypeInv, TypeOK
<1>4. \A p \in calls[t].known : \E i \in 1 .. Len(notifications) : notifications[i] = p
  <2>1. SUFFICES ASSUME NEW p \in calls[t].known
                 PROVE  \E i \in 1 .. Len(notifications) : notifications[i] = p
    OBVIOUS
  <2>2. p \in acknowledged /\ p \in Posts
    BY DEF StorageInv, TypeInv, TypeOK
  <2>3. Rows(p) # {}
    BY <2>2 DEF ListInv, OrderInv, RowInv
  <2>. QED
    BY <1>3, <2>3 DEF Rows
<1>5. /\ Len(list) = IF Len(notifications) < Limit THEN Len(notifications) ELSE Limit
      /\ \A i \in 1 .. Len(list) : list[i] = notifications[Len(notifications) - i + 1]
  <2>1. CASE list = LatestNotifications
    BY <1>3, <2>1, LatestRows
  <2>2. CASE list = <<>> /\ notifications = <<>>
    BY <2>2, InboxSettings
  <2>. QED
    BY <2>1, <2>2
<1>6. ServedFrom(Len(notifications))'
  BY <1>1, <1>4, <1>5 DEF ServedFrom
<1>. QED
  BY <1>1, <1>2, <1>3, <1>6 DEF ListInv

LEMMA ListInvariant == Spec => []ListInv
<1>1. Init => ListInv
  <2> SUFFICES ASSUME Init PROVE ListInv
    OBVIOUS
  <2>1. OrderInv
    BY DEF Init, OrderInv
  <2>2. Len(notifications) = 0 /\ ServedFrom(0)
    BY InboxSettings DEF Init, ServedFrom
  <2>. QED
    BY <2>1, <2>2 DEF ListInv
<1>2. TypeInv /\ RowInv /\ StorageInv /\ ListInv /\ [Next]_vars => ListInv'
  <2> SUFFICES ASSUME TypeInv, RowInv, StorageInv, ListInv, [Next]_vars
               PROVE  ListInv'
    OBVIOUS
  <2>1. ASSUME NEW t \in Thread, Notify(t)
        PROVE  ListInv'
    <3>1. /\ UNCHANGED <<acknowledged, group, notifications, served, answers>>
          /\ posts + 1 \in Posts /\ group[posts + 1] \in Group
          /\ listening' = [listening EXCEPT ![group[posts + 1]] = posts + 1]
      <4>1. posts \in 0 .. MaxPosts /\ posts < MaxPosts /\ group \in [Posts -> Group]
        BY <2>1 DEF Notify, TypeInv, TypeOK
      <4>2. posts + 1 \in Posts
        BY <4>1, InboxBounds DEF Posts
      <4>3. group[posts + 1] \in Group
        BY <4>1, <4>2
      <4>. QED
        BY <2>1, <4>2, <4>3 DEF Notify, database
    <3>2. Rows(posts + 1) = {}
      <4>1. posts \in Nat /\ posts + 1 > posts
        BY DEF TypeInv, TypeOK
      <4>. QED
        BY <3>1, <4>1 DEF RowInv
    <3>3. Awaited' \subseteq Awaited \cup {posts + 1}
      BY <3>1 DEF Awaited, TypeInv, TypeOK
    <3>4. OrderInv'
      <4>1. \A p : Rows(p)' = Rows(p)
        BY <3>1 DEF Rows
      <4>. QED
        BY <3>1, <3>2, <3>3, <4>1 DEF ListInv, OrderInv
    <3>5. \A n \in 0 .. Len(notifications) : ServedFrom(n) => ServedFrom(n)'
      BY <3>1 DEF ServedFrom
    <3>. QED
      BY <3>1, <3>4, <3>5 DEF ListInv
  <2>2. ASSUME NEW g \in Group, HearAnswer(g)
        PROVE  ListInv'
    <3> DEFINE post == listening[g]
    <3>1. /\ UNCHANGED <<group, notifications, served, answers>>
          /\ acknowledged' = IF answers[post] = 200
                               THEN acknowledged \cup {post} ELSE acknowledged
          /\ listening' = [listening EXCEPT ![g] = 0]
          /\ post # 0 /\ answers[post] # None
      BY <2>2 DEF HearAnswer, database
    <3>2. /\ post \in Awaited /\ post \in Posts /\ posts \in Nat /\ post <= posts
          /\ group[post] = g
          /\ \A p \in 1 .. posts : group[p] = g => p <= post
      <4>1. posts \in 0 .. MaxPosts /\ listening \in [Group -> 0 .. MaxPosts]
        BY DEF TypeInv, TypeOK
      <4>2. post \in Posts /\ post \in Awaited /\ posts \in Nat
        BY <3>1, <4>1, InboxBounds DEF Posts, Awaited
      <4>. QED
        BY <3>1, <4>2 DEF TypeInv
    <3>3. Awaited' \subseteq Awaited
      BY <3>1 DEF Awaited, TypeInv, TypeOK
    <3>4. \A q \in acknowledged \cup Awaited : q \in 1 .. posts
      <4>1. \A p \in acknowledged : p \in Posts /\ answers[p] # None
        BY NoneIsNoValue DEF ListInv, OrderInv, TypeInv, TypeOK
      <4>2. \A p \in acknowledged : ~(p > posts)
        BY <4>1 DEF RowInv
      <4>3. \A q \in Awaited : q \in Posts /\ q <= posts
        BY AwaitedPosts DEF Awaited, TypeInv
      <4>. QED
        BY <3>2, <4>1, <4>2, <4>3, InboxBounds DEF Posts
    <3> HIDE DEF post
    <3>5. OrderInv'
      <4>1. \A p : Rows(p)' = Rows(p)
        BY <3>1 DEF Rows
      <4>2. \A p \in acknowledged' : answers'[p] = 200
        BY <3>1 DEF ListInv, OrderInv
      <4>3. acknowledged' \cup Awaited' \subseteq acknowledged \cup Awaited
        BY <3>1, <3>2, <3>3
      <4>4. \A p \in acknowledged', q \in acknowledged' \cup Awaited' :
              p < q /\ group[p] = group[q] => p \in acknowledged
        <5>1. SUFFICES ASSUME NEW q \in acknowledged \cup Awaited,
                              post < q, group[q] = g
                       PROVE  FALSE
          BY <3>1, <3>2, <4>3
        <5>2. q \in 1 .. posts /\ q <= post
          BY <3>2, <3>4, <5>1
        <5>. QED
          BY <3>2, <5>1, <5>2, InboxBounds DEF Posts
      <4>. QED
        BY <3>1, <4>1, <4>2, <4>3, <4>4 DEF ListInv, OrderInv
    <3>6. \A n \in 0 .. Len(notifications) : ServedFrom(n) => ServedFrom(n)'
      BY <3>1 DEF ServedFrom
    <3>. QED
      BY <3>1, <3>5, <3>6 DEF ListInv
  <2>3. ASSUME NEW t \in Thread, Commit(t)
        PROVE  ListInv'
    BY <2>3, ListInvCommitted
  <2>4. ASSUME NEW t \in Thread, LookForFile(t) \/ Select(t)
        PROVE  ListInv'
    <3>1. calls[t] # None /\ calls[t].op = "list"
      BY <2>4 DEF LookForFile, Select, At, TypeInv
    <3>2. CASE Serve(t, <<>>) /\ storage = "absent"
      <4>1. notifications = <<>>
        BY <3>2 DEF StorageInv
      <4>. QED
        BY <3>1, <3>2, <4>1, ListInvServed
    <3>3. CASE Serve(t, LatestNotifications)
      BY <3>1, <3>3, ListInvServed
    <3>4. CASE UNCHANGED <<database, alertmanager, answers, ready, served, crashes>>
      BY <3>4, ListInvKept, AwaitedStays DEF database, alertmanager
    <3>. QED
      BY <2>4, <3>2, <3>3, <3>4 DEF LookForFile, Select
  <2>5. ASSUME NEW t \in Thread,
               \/ RejectBody(t) \/ BodyTimesOut(t) \/ FailStorage(t)
               \/ AnswerStored(t) \/ FailSelect(t)
        PROVE  ListInv'
    <3>1. UNCHANGED <<acknowledged, group, listening, notifications, served>> /\ calls[t] # None
      BY <2>5 DEF RejectBody, BodyTimesOut, FailStorage, AnswerStored, FailSelect,
                  At, database, alertmanager
    <3>2. PICK status : Answer(t, status)
      BY <2>5 DEF RejectBody, BodyTimesOut, FailStorage, AnswerStored, FailSelect
    <3>3. ASSUME NEW p \in acknowledged
          PROVE  answers'[p] = answers[p]
      <4>1. p \in Posts /\ answers[p] # None
        BY NoneIsNoValue DEF ListInv, OrderInv, TypeInv, TypeOK
      <4>2. ~Storing(t, p)
        BY <4>1 DEF RowInv
      <4>. QED
        BY <3>1, <3>2, <4>1, <4>2 DEF Answer, Storing, TypeInv, TypeOK
    <3>. QED
      BY <3>1, <3>3, ListInvKept, AwaitedStays
  <2>6. ASSUME NEW t \in Thread,
               \/ CheckHealth(t) \/ ListAlerts(t) \/ ReadBody(t)
               \/ Connect(t) \/ Create(t) \/ Insert(t)
        PROVE  ListInv'
    <3>1. UNCHANGED <<acknowledged, group, listening, notifications, served, answers>>
      BY <2>6 DEF CheckHealth, ListAlerts, ReadBody, Connect, Create, Insert,
                  database, alertmanager
    <3>. QED
      BY <3>1, ListInvKept, AwaitedStays
  <2>7. CASE Crash \/ UNCHANGED vars
    <3>1. UNCHANGED <<acknowledged, group, listening, notifications, served, answers>>
      BY <2>7 DEF Crash, vars, database, alertmanager
    <3>. QED
      BY <3>1, ListInvKept, AwaitedStays
  <2>8. ASSUME NEW g \in Group, StopListening(g)
        PROVE  ListInv'
    <3>1. /\ UNCHANGED <<acknowledged, group, notifications, served, answers>>
          /\ listening' = [listening EXCEPT ![g] = 0]
      BY <2>8 DEF StopListening, database
    <3>2. Awaited' \subseteq Awaited
      BY <3>1 DEF Awaited, TypeInv, TypeOK
    <3>. QED
      BY <3>1, <3>2, ListInvKept
  <2>. QED
    BY <2>1, <2>2, <2>3, <2>4, <2>5, <2>6, <2>7, <2>8
       DEF Next, Proceed, LockTimesOut, NoSuchTable
<1>. QED
  BY <1>1, <1>2, TypeInvariant, RowInvariant, StorageInvariant, PTL DEF Spec

\* Each entry of the list has one row, and it is older than that of the entry
\* before it.
LEMMA ListedRows ==
  ASSUME TypeInv, RowInv, NEW n \in 0 .. Len(notifications), ServedFrom(n),
         NEW i \in DOMAIN served.list
  PROVE  /\ i \in 1 .. n /\ n - i + 1 \in 1 .. n /\ n \in Nat
         /\ served.list[i] \in Posts
         /\ Rows(served.list[i]) = {n - i + 1}
<1>1. /\ notifications \in Seq(Posts) /\ Len(notifications) \in Nat /\ n \in Nat
      /\ served.list \in Seq(Posts)
  BY DEF TypeInv, TypeOK
<1>2. i \in 1 .. n /\ n - i + 1 \in 1 .. n
  BY <1>1, InboxSettings DEF ServedFrom
<1>3. served.list[i] = notifications[n - i + 1] /\ served.list[i] \in Posts
  <2>1. i \in 1 .. Len(served.list)
    BY <1>1
  <2>2. served.list[i] = notifications[n - i + 1]
    BY <2>1 DEF ServedFrom
  <2>3. notifications[n - i + 1] \in Posts
    BY <1>1, <1>2
  <2>. QED
    BY <2>2, <2>3
<1>4. n - i + 1 \in Rows(served.list[i])
  BY <1>1, <1>2, <1>3 DEF Rows
<1>5. \A j \in Rows(served.list[i]) : j = n - i + 1
  BY <1>3, <1>4 DEF RowInv
<1>. QED
  BY <1>1, <1>2, <1>3, <1>4, <1>5

\* For any number of groups and of repeated, late and lost posts: of two acknowledged
\* posts of a group the list shows the one sent later first.
THEOREM ListIsInOrder == Spec => []AcknowledgedInOrder
<1>1. TypeInv /\ RowInv /\ ListInv => AcknowledgedInOrder
  <2> SUFFICES ASSUME TypeInv, RowInv, ListInv,
                      NEW i \in DOMAIN served.list, NEW j \in DOMAIN served.list, i < j,
                      served.list[i] \in acknowledged, served.list[j] \in acknowledged,
                      group[served.list[i]] = group[served.list[j]]
               PROVE  served.list[i] > served.list[j]
    BY DEF AcknowledgedInOrder
  <2>1. PICK n \in 0 .. Len(notifications) : ServedFrom(n)
    BY DEF ListInv
  <2> DEFINE p == served.list[i]
             q == served.list[j]
  <2>2. /\ p \in Posts /\ q \in Posts /\ n \in Nat /\ i \in 1 .. n /\ j \in 1 .. n
        /\ Rows(p) = {n - i + 1} /\ Rows(q) = {n - j + 1}
    BY <2>1, ListedRows
  <2>3. n - i + 1 > n - j + 1 /\ n - i + 1 # n - j + 1
    BY <2>2
  <2>4. n - i + 1 \in Rows(p) /\ n - j + 1 \in Rows(q)
    BY <2>2
  <2>5. p < q => n - i + 1 < n - j + 1
    BY <2>4 DEF ListInv, OrderInv
  <2>6. p # q
    <3>1. SUFFICES ASSUME p = q PROVE FALSE
      OBVIOUS
    <3>2. n - i + 1 \in {n - j + 1}
      BY <2>2, <2>4, <3>1
    <3>. QED
      BY <2>3, <3>2
  <2> HIDE DEF p, q
  <2>7. p > q
    BY <2>2, <2>3, <2>5, <2>6, InboxBounds DEF Posts
  <2>. QED
    BY <2>7 DEF p, q
<1>. QED
  BY <1>1, TypeInvariant, RowInvariant, ListInvariant, PTL

\* Nothing that was acknowledged before a reader came is missing from its list,
\* unless Limit younger rows are on it.
THEOREM ListIsComplete == Spec => []AcknowledgedAreServed
<1>1. TypeInv /\ RowInv /\ ListInv => AcknowledgedAreServed
  <2> SUFFICES ASSUME TypeInv, RowInv, ListInv, NEW p \in served.known,
                      p \notin ToSet(served.list)
               PROVE  /\ Len(served.list) = Limit
                      /\ \A q \in ToSet(served.list) : Position(q) > Position(p)
    BY DEF AcknowledgedAreServed
  <2>1. PICK n \in 0 .. Len(notifications) : ServedFrom(n)
    BY DEF ListInv
  <2>2. PICK r \in 1 .. n : notifications[r] = p
    BY <2>1 DEF ServedFrom
  <2>3. /\ n \in Nat /\ r \in Nat /\ Len(notifications) \in Nat /\ p \in Posts
        /\ Len(served.list) \in Nat /\ DOMAIN served.list = 1 .. Len(served.list)
        /\ notifications \in Seq(Posts)
    BY DEF TypeInv, TypeOK
  <2>4. r <= n - Len(served.list)
    <3>1. SUFFICES ASSUME r > n - Len(served.list)
                   PROVE  FALSE
      BY <2>3
    <3>2. n - r + 1 \in 1 .. Len(served.list)
      BY <2>2, <2>3, <3>1
    <3>3. served.list[n - r + 1] = notifications[n - (n - r + 1) + 1]
      BY <2>1, <3>2 DEF ServedFrom
    <3>4. n - (n - r + 1) + 1 = r
      BY <2>3
    <3>5. served.list[n - r + 1] = p
      BY <2>2, <3>3, <3>4
    <3>. QED
      BY <2>3, <3>2, <3>5 DEF ToSet
  <2>5. Len(served.list) = Limit
    BY <2>1, <2>2, <2>3, <2>4, InboxSettings DEF ServedFrom
  <2>6. Position(p) = r
    <3>1. r \in Rows(p)
      BY <2>2, <2>3 DEF Rows
    <3>2. \A i \in Rows(p) : i = r
      BY <2>3, <3>1 DEF RowInv
    <3>. QED
      BY <3>1, <3>2 DEF Position
  <2>7. ASSUME NEW q \in ToSet(served.list)
        PROVE  Position(q) > r
    <3>1. PICK i \in DOMAIN served.list : served.list[i] = q
      BY <2>7 DEF ToSet
    <3>2. Rows(q) = {n - i + 1}
      BY <2>1, <3>1, ListedRows
    <3>3. Position(q) = n - i + 1
      BY <3>2 DEF Position
    <3>. QED
      BY <2>3, <2>4, <3>1, <3>3
  <2>. QED
    BY <2>5, <2>6, <2>7
<1>. QED
  BY <1>1, TypeInvariant, RowInvariant, ListInvariant, PTL

=============================================================================
