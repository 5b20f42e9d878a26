---------------------------- MODULE DepositDetector ----------------------------
(***************************************************************************)
(* The detection of bank deposits on an administrator's phone:             *)
(* DepositAutoDetector, called by SmsReceiver for text messages and by     *)
(* BankNotificationListener for notifications, each time in a new thread;  *)
(* its preferences, which reach the disk later than the memory; the queue  *)
(* of log entries for the administrator's page; and the network between    *)
(* the phone and the handler that registers a deposit.                     *)
(*                                                                         *)
(* A deposit is known by its key: name, amount, date, time and balance.    *)
(* It is told by several notices (a text message is shown as a             *)
(* notification, too, and notifications are posted again).                 *)
(***************************************************************************)
EXTENDS Integers, Sequences, FiniteSets

CONSTANTS
  Deposits,
  NoDeposit,
  Threads,      \* threads that may process notices at a time
  MaxNotices,
  MaxSeen,      \* MAX_SEEN_KEYS
  MaxLog,       \* MAX_LOG_QUEUE
  Faulty,       \* requests and answers may get lost
  Budgets       \* how many notices may arrive, how often the administrator may
                \* open the application and how often its process may die

ASSUME DetectorAssumption ==
  /\ NoDeposit \notin Deposits /\ IsFiniteSet(Threads)
  /\ MaxNotices \in Nat /\ MaxSeen \in Nat \ {0} /\ MaxLog \in Nat \ {0}
  /\ Faulty \in BOOLEAN
  /\ Budgets \subseteq [notices : 0..MaxNotices, opens : Nat, kills : Nat]

VARIABLES
  notices,      \* notices still to come
  thread,       \* the threads that process notices
  seen,         \* PREF_SEEN_KEYS
  logQueue,     \* PREF_LOG_QUEUE
  disk,         \* the preferences as the disk has them
  late,         \* requests of each deposit whose thread has given up
  registered,   \* rows of bank_transactions for each deposit
  refused,      \* deposits a registration of which was answered with an error
  activity,     \* "closed", "open", or "loaded": the page's script has run
  opens,        \* times the activity may still be created
  timers,       \* drainLogQueue calls of onCreate to come
  draining,     \* entries a drain has read and not yet delivered
  shown,        \* how often the page has shown each entry
  kills,        \* deaths still to come
  doubts,       \* history: reasons to register a deposit once more
  replayed      \* history: entries that have come back into the queue

notice == <<notices, thread>>
prefs == <<seen, logQueue>>
server == <<late, registered, refused>>
screen == <<activity, opens, timers, draining, shown>>
history == <<doubts, replayed>>
vars == <<notice, prefs, disk, server, screen, kills, history>>

\* A log entry is known by the notice it tells of.
Entries == 1..MaxNotices
\* The server registers the deposit ("ok"), fails after its commit, refuses the
\* registration, as a proxy without a backend does, or finds no valid token.
Answers == {"ok", "failed", "refused", "unauthorized"}
Phases == {"idle", "begun", "sent", "answered", "log", "enqueue", "put", "commit"}
Queues == {q \in Seq(Entries) : Len(q) <= MaxLog}
\* queue is what enqueueLog has read of PREF_LOG_QUEUE.
Thread == [phase : Phases, dep : Deposits \cup {NoDeposit}, entry : 0..MaxNotices,
           result : {"none"} \cup Answers, queue : Queues]
Idle == [phase |-> "idle", dep |-> NoDeposit, entry |-> 0, result |-> "none",
         queue |-> << >>]

TypeOK ==
  /\ notices \in 0..MaxNotices
  /\ thread \in [Threads -> Thread]
  /\ seen \in Seq(Deposits) /\ Len(seen) <= MaxSeen
  /\ logQueue \in Queues
  /\ disk \in [seen : Seq(Deposits), logs : Queues] /\ Len(disk.seen) <= MaxSeen
  /\ late \in [Deposits -> Nat] /\ registered \in [Deposits -> Nat]
  /\ refused \subseteq Deposits
  /\ activity \in {"closed", "open", "loaded"}
  /\ opens \in Nat /\ timers \in Nat
  /\ draining \in Seq(Entries)
  /\ shown \in [Entries -> Nat]
  /\ kills \in Nat
  /\ doubts \in [Deposits -> Nat] /\ replayed \subseteq Entries

Members(s) == {s[i] : i \in 1..Len(s)}
\* Append e to s and drop the oldest beyond n.
Push(s, e, n) == IF Len(s) < n THEN Append(s, e) ELSE Append(Tail(s), e)

Init ==
  /\ \E b \in Budgets : notices = b.notices /\ opens = b.opens /\ kills = b.kills
  /\ thread = [t \in Threads |-> Idle]
  /\ seen = << >> /\ logQueue = << >>
  /\ disk = [seen |-> << >>, logs |-> << >>]
  /\ late = [d \in Deposits |-> 0] /\ registered = [d \in Deposits |-> 0]
  /\ refused = {}
  /\ activity = "closed" /\ timers = 0
  /\ draining = << >> /\ shown = [e \in Entries |-> 0]
  /\ doubts = [d \in Deposits |-> 0] /\ replayed = {}

-------------------------------------------------------------------------------
(* A thread of SmsReceiver or BankNotificationListener.                    *)

In(t, p) == thread[t].phase = p
Go(t, p) == thread' = [thread EXCEPT ![t].phase = p]
\* No other thread is in a synchronized method of DepositAutoDetector.
MonitorFree == \A t \in Threads : ~In(t, "put")
Count(b) == IF b THEN 1 ELSE 0
\* Thread t may register d, or has done so and not recorded it.
Trying(t, d) ==
  /\ thread[t].dep = d
  /\ \/ In(t, "sent") \/ thread[t].result = "failed"
     \/ In(t, "answered") /\ thread[t].result = "ok"
Tryers(d) == {t \in Threads : Trying(t, d)}
Sent(d) == {t \in Threads : thread[t].dep = d /\ In(t, "sent")}
Overlaps(t) == Tryers(thread[t].dep) \ {t} # {}
Doubt(d, b) == doubts' = [doubts EXCEPT ![d] = @ + Count(b)]

\* A notice arrives and its thread starts. It wakes the process if need be.
Arrive(t, d) ==
  /\ In(t, "idle") /\ notices > 0
  /\ notices' = notices - 1
  /\ thread' = [thread EXCEPT ![t] =
       [Idle EXCEPT !.phase = "begun", !.dep = d, !.entry = notices]]
  /\ UNCHANGED <<prefs, disk, server, screen, kills, history>>

\* processSms, processPush, process: a filter or the regular expression that
\* the administrator has set does not let the notice through. What another
\* application shows is not even logged.
Ignore(t) ==
  /\ In(t, "begun")
  /\ Go(t, "log") \/ thread' = [thread EXCEPT ![t] = Idle]
  /\ UNCHANGED <<notices, prefs, disk, server, screen, kills, history>>

\* process: the key is looked up (isDuplicate) but not recorded, and the request
\* goes out, with or without a token.
Process(t) ==
  /\ In(t, "begun") /\ MonitorFree
  /\ IF thread[t].dep \in Members(seen)
     THEN Go(t, "log") /\ UNCHANGED doubts
     ELSE Go(t, "sent") /\ Doubt(thread[t].dep, Overlaps(t))
  /\ UNCHANGED <<notices, prefs, disk, server, screen, kills, replayed>>

\* commitSeen
CommitSeen(d) ==
  /\ seen' = Push(seen, d, MaxSeen)
  /\ doubts' = [x \in Deposits |->
       doubts[x] + Count(x \in Members(seen) \ Members(seen'))]

\* Mutant of Heard: an expired login is recorded like any other answer.
HeardAny(t) ==
  /\ In(t, "answered") /\ Go(t, "log")
  /\ IF thread[t].result \in {"ok", "unauthorized"}
     THEN CommitSeen(thread[t].dep) ELSE UNCHANGED <<seen, doubts>>
  /\ UNCHANGED <<notices, logQueue, disk, server, screen, kills, replayed>>

\* Mutant of Heard: a success is not recorded.
HeardUnrecorded(t) ==
  /\ In(t, "answered") /\ Go(t, "log")
  /\ UNCHANGED <<notices, prefs, disk, server, screen, kills, history>>

\* registerBankTransaction after the answer: a success is recorded before it is
\* logged, an error is logged first, an expired login is logged only.
Heard(t) ==
  /\ In(t, "answered") /\ Go(t, "log")
  /\ thread[t].result = "ok" => MonitorFree
  /\ IF thread[t].result = "ok" THEN CommitSeen(thread[t].dep) ELSE UNCHANGED <<seen, doubts>>
  /\ UNCHANGED <<notices, logQueue, disk, server, screen, kills, replayed>>

\* The connection is lost or no answer comes in time: what the thread forgets.
Forget(t, isLate) ==
  LET d == thread[t].dep IN
  /\ late' = [late EXCEPT ![d] = @ + Count(isLate)]
  /\ Doubt(d, isLate \/ thread[t].result \in {"ok", "failed"})
  /\ thread' = [thread EXCEPT ![t].phase = "log", ![t].result = "none"]
  /\ UNCHANGED <<notices, prefs, disk, registered, refused, screen, kills, replayed>>

\* The connection fails or ten seconds pass without an answer. The request has
\* got lost, has been handled, or is handled later.
GiveUp(t) ==
  /\ Faulty
  /\ \/ In(t, "answered") /\ Forget(t, FALSE)
     \/ In(t, "sent") /\ \E isLate \in BOOLEAN : Forget(t, isLate)

\* After its log a thread that was answered with an error has a key to record.
Continue(t) ==
  thread' = [thread EXCEPT ![t] = IF @.result \in {"refused", "failed"}
               THEN [@ EXCEPT !.phase = "commit", !.queue = << >>] ELSE Idle]

\* onNativeDetectionLogged for the entries es: a page whose script has not run
\* yet drops them. (An entry that the main thread has not passed on when the
\* activity ends is lost as if it came a little later.)
Show(es) ==
  shown' = [e \in Entries |-> shown[e] + Count(activity = "loaded" /\ e \in Members(es))]

\* log: to the page if the activity lives, else to the queue.
LogEntry(t) ==
  /\ In(t, "log")
  /\ IF activity # "closed"
     THEN Show(<<thread[t].entry>>) /\ Continue(t)
     ELSE Go(t, "enqueue") /\ UNCHANGED shown
  /\ UNCHANGED <<notices, prefs, disk, server, activity, opens, timers, draining,
                 kills, history>>

\* enqueueLog reads the queue ...
Enqueue(t) ==
  /\ In(t, "enqueue") /\ MonitorFree
  /\ thread' = [thread EXCEPT ![t].phase = "put", ![t].queue = logQueue]
  /\ UNCHANGED <<notices, prefs, disk, server, screen, kills, history>>

\* ... and writes it with the entry. drainLogQueue is not synchronized: what it
\* has delivered and removed in between comes back.
EnqueueWrite(t) ==
  /\ In(t, "put") /\ Continue(t)
  /\ logQueue' = Push(thread[t].queue, thread[t].entry, MaxLog)
  /\ replayed' = replayed \cup (Members(thread[t].queue) \ Members(logQueue))
  /\ UNCHANGED <<notices, seen, disk, server, screen, kills, doubts>>

\* commitSeen of a registration that the server refused.
CommitRefused(t) ==
  /\ In(t, "commit") /\ MonitorFree
  /\ CommitSeen(thread[t].dep)
  /\ thread' = [thread EXCEPT ![t] = Idle]
  /\ UNCHANGED <<notices, logQueue, disk, server, screen, kills, replayed>>

-------------------------------------------------------------------------------
(* The server: admin_add_bank_transaction and what stands before it.       *)

Serve(t) ==
  LET d == thread[t].dep IN
  /\ In(t, "sent")
  /\ \E a \in Answers :
       /\ registered' = [registered EXCEPT ![d] = @ + Count(a \in {"ok", "failed"})]
       /\ refused' = IF a = "refused" THEN refused \cup {d} ELSE refused
       /\ thread' = [thread EXCEPT ![t].phase = "answered", ![t].result = a]
  /\ UNCHANGED <<notices, prefs, disk, late, screen, kills, history>>

\* A request whose thread has given up or died.
ServeLate(d) ==
  /\ late[d] > 0
  /\ late' = [late EXCEPT ![d] = @ - 1]
  /\ \E n \in {0, 1} : registered' = [registered EXCEPT ![d] = @ + n]
  /\ UNCHANGED <<notice, prefs, disk, refused, screen, kills, history>>

-------------------------------------------------------------------------------
(* The application: its activity, its page and its process.                *)

MainFree == draining = << >>

\* MainActivity.onCreate
Open ==
  /\ activity = "closed" /\ opens > 0 /\ MainFree
  /\ activity' = "open" /\ opens' = opens - 1 /\ timers' = timers + 1
  /\ UNCHANGED <<notice, prefs, disk, server, draining, shown, kills, history>>

PageLoads ==
  /\ activity = "open" /\ activity' = "loaded"
  /\ UNCHANGED <<notice, prefs, disk, server, opens, timers, draining, shown,
                 kills, history>>

\* onDestroy
Close ==
  /\ activity # "closed" /\ MainFree
  /\ activity' = "closed"
  /\ UNCHANGED <<notice, prefs, disk, server, opens, timers, draining, shown, kills, history>>

\* drainLogQueue, three seconds after onCreate, reads the queue ...
DrainRead ==
  /\ timers > 0 /\ MainFree
  /\ timers' = timers - 1
  /\ draining' = logQueue
  /\ UNCHANGED <<notice, prefs, disk, server, activity, opens, shown, kills, history>>

\* Mutant of DrainEnd: the queue is not emptied.
DrainEndKeeps ==
  /\ draining # << >>
  /\ Show(draining)
  /\ draining' = << >>
  /\ UNCHANGED <<notice, prefs, disk, server, activity, opens, timers, kills, history>>

\* ... delivers the entries, whether or not somebody takes them, and removes
\* the queue, with what has been put into it meanwhile; all without the monitor.
DrainEnd ==
  /\ draining # << >>
  /\ Show(draining)
  /\ draining' = << >> /\ logQueue' = << >>
  /\ UNCHANGED <<notice, seen, disk, server, activity, opens, timers, kills,
                 history>>

\* SharedPreferences.apply writes the file in the background.
Flush ==
  /\ disk' = [seen |-> seen, logs |-> logQueue]
  /\ disk' # disk
  /\ UNCHANGED <<notice, prefs, server, screen, kills, history>>

\* The process dies with its threads. A request that was on its way may still
\* be handled.
Kill ==
  /\ kills > 0 /\ kills' = kills - 1
  /\ thread' = [t \in Threads |-> Idle]
  /\ seen' = disk.seen /\ logQueue' = disk.logs
  /\ late' = [d \in Deposits |->
       late[d] + Cardinality(Sent(d))]
  /\ activity' = "closed" /\ timers' = 0 /\ draining' = << >>
  /\ doubts' = [d \in Deposits |->
       doubts[d] + Cardinality(Tryers(d))
                 + Count(d \in Members(seen) \ Members(disk.seen))]
  /\ replayed' = replayed \cup (Members(disk.logs) \ Members(logQueue))
  /\ UNCHANGED <<notices, disk, registered, refused, opens, shown>>

Runs(t) == \/ Ignore(t) \/ Process(t) \/ Heard(t) \/ GiveUp(t)
           \/ LogEntry(t) \/ Enqueue(t) \/ EnqueueWrite(t) \/ CommitRefused(t)
Application == Open \/ PageLoads \/ Close \/ DrainRead \/ DrainEnd \/ Flush

Next ==
  \/ \E t \in Threads : Runs(t) \/ Serve(t) \/ \E d \in Deposits : Arrive(t, d)
  \/ \E d \in Deposits : ServeLate(d)
  \/ Application \/ Kill

Spec == Init /\ [][Next]_vars
-------------------------------------------------------------------------------
\* A deposit is registered once, and once more for every time that two of its
\* notices overlapped, an answer was not heard, its key was forgotten (pushed
\* out of the list or lost with the process) - never without such a reason.
RegisteredForReason == \A d \in Deposits : registered[d] <= 1 + doubts[d]

\* "From the second notice on nothing is registered" (admin.js).
RegisteredOnce == \A d \in Deposits : registered[d] <= 1

\* A key that makes later notices duplicates belongs to a deposit that was
\* registered or that the server refused; an expired login leaves none.
SkippedOnlyIfDecided ==
  \A d \in Members(seen) \cup Members(disk.seen) : registered[d] > 0 \/ d \in refused

\* An entry appears on the page once, unless it has come back into the queue: the
\* process died after the queue was emptied and before the disk knew, or a thread
\* read the queue before it was emptied and wrote it afterwards.
ShownOnce == \A e \in Entries : shown[e] > 1 => e \in replayed

===============================================================================
