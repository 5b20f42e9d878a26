------------------------------- MODULE SmsOutbox -------------------------------
(***************************************************************************)
(* The queue of outgoing text messages (table sms_outbox) and the          *)
(* administrators' phones that empty it.  A phone polls, the server hands  *)
(* it up to ClaimLimit QUEUED rows, the phone sends each through its       *)
(* carrier and reports the result, three times if it gets no answer.  A    *)
(* row in SENDING for ten minutes without a result goes back to the queue. *)
(*                                                                         *)
(* Every server transaction is two steps, what it reads first and what it  *)
(* writes at its commit; the flush, FOR UPDATE SKIP LOCKED and commit of a *)
(* claim hold the rows' locks throughout and are one step.                 *)
(***************************************************************************)
EXTENDS Integers, FiniteSets

CONSTANTS
  Messages,       \* sms_outbox.id of the rows of a run
  Codes,          \* those that carry an activation code
  Devices,        \* phones with sending switched on
  Requests,       \* claims that may be under way at a time (a bound)
  MaxAttempts,    \* SMS_MAX_ATTEMPTS
  ClaimLimit,     \* "limit" of SmsOutboxSender's claim
  MaxPosts,       \* how often SmsOutboxSender posts a result
  NoDevice, NoMessage, NoRequest

ASSUME SmsAssumption ==
  /\ Messages \subseteq Nat /\ NoMessage \notin Messages
  /\ Codes \subseteq Messages
  /\ NoDevice \notin Devices /\ NoRequest \notin Requests
  /\ MaxAttempts \in Nat \ {0} /\ ClaimLimit \in Nat \ {0} /\ MaxPosts \in Nat \ {0}

VARIABLES
  row,         \* row[m]: sms_outbox; st "NONE" before its insertion
  active,      \* messages whose recipient is an ACTIVE member or nobody's number
  canceling,   \* cancellations between their read and their commit
  claim,       \* claim[r]: a phone's claim on its way to the server or in it
  posts,       \* results on their way to the server or in it
  phone,       \* phone[d]: the sending thread of d
  sends,       \* sends[m]: how often a carrier accepted m
  unreported,  \* messages a phone has given up reporting
  seized       \* messages requeued while a phone had them or by a claim out of date

\* The last two record, for the properties, what happened to a message.
past == <<unreported, seized>>
vars == <<row, active, canceling, claim, posts, phone, sends, past>>

\* stale: claimed_at is over 600 seconds ago; old: created_at is over 24 hours ago.
RowType == [st : {"NONE", "QUEUED", "SENDING", "SENT", "FAILED", "CANCELED"},
            dev : Devices \cup {NoDevice}, tries : Nat, stale : BOOLEAN, old : BOOLEAN]
ClaimType == [ph : {"none", "sent", "read"}, dev : Devices \cup {NoDevice},
              stale : SUBSET Messages, tries : [Messages -> Nat]]
PostType == [dev : Devices, msg : Messages, ok : BOOLEAN, try : 1..MaxPosts,
             ph : {"sent", "read"}]
PhoneType == [ph : {"idle", "wait", "send", "report", "await"},
              req : Requests \cup {NoRequest}, batch : SUBSET Messages,
              msg : Messages \cup {NoMessage}, ok : BOOLEAN, try : 0..MaxPosts]

NoClaim == [ph |-> "none", dev |-> NoDevice, stale |-> {}, tries |-> [m \in Messages |-> 0]]
Idle == [ph |-> "idle", req |-> NoRequest, batch |-> {}, msg |-> NoMessage, ok |-> FALSE,
         try |-> 0]

TypeOK ==
  /\ row \in [Messages -> RowType]
  /\ active \subseteq Messages /\ canceling \subseteq Messages
  /\ claim \in [Requests -> ClaimType]
  /\ posts \subseteq PostType
  /\ phone \in [Devices -> PhoneType]
  /\ sends \in [Messages -> Nat]
  /\ unreported \subseteq Messages /\ seized \subseteq Messages

Init ==
  /\ row = [m \in Messages |->
       [st |-> "NONE", dev |-> NoDevice, tries |-> 0, stale |-> FALSE, old |-> FALSE]]
  /\ active = Messages
  /\ canceling = {}
  /\ claim = [r \in Requests |-> NoClaim]
  /\ posts = {}
  /\ phone = [d \in Devices |-> Idle]
  /\ sends = [m \in Messages |-> 0]
  /\ unreported = {} /\ seized = {}

Final == {"SENT", "FAILED", "CANCELED"}

-------------------------------------------------------------------------------
\* enqueue_sms: the row of a message, for a recipient who is not blocked.
Enqueue(m) ==
  /\ row[m].st = "NONE" /\ m \in active
  /\ row' = [row EXCEPT ![m].st = "QUEUED"]
  /\ UNCHANGED <<active, canceling, claim, posts, phone, sends, past>>

\* admin_retry_sms: a new row n for a message m that failed or was canceled.
Retry(m, n) ==
  /\ row[m].st \in {"FAILED", "CANCELED"} /\ m \notin Codes
  /\ n \notin Codes
  /\ Enqueue(n)

\* admin_cancel_sms, and code_status when a code was not sent in time: only a
\* QUEUED row is canceled, and the check is made without a lock.
CancelRead(m) ==
  /\ row[m].st = "QUEUED" /\ m \notin canceling
  /\ canceling' = canceling \cup {m}
  /\ UNCHANGED <<row, active, claim, posts, phone, sends, past>>

CancelCommit(m) ==
  /\ m \in canceling
  /\ canceling' = canceling \ {m}
  /\ row' = [row EXCEPT ![m].st = "CANCELED"]
  /\ UNCHANGED <<active, claim, posts, phone, sends, past>>

\* The recipient's account is closed or opened.
Toggle(m) ==
  /\ active' = IF m \in active THEN active \ {m} ELSE active \cup {m}
  /\ UNCHANGED <<row, canceling, claim, posts, phone, sends, past>>

\* Ten minutes since a claim, a day since the insertion.
GoStale(m) ==
  /\ row[m].st = "SENDING" /\ ~row[m].stale
  /\ row' = [row EXCEPT ![m].stale = TRUE]
  /\ UNCHANGED <<active, canceling, claim, posts, phone, sends, past>>

GrowOld(m) ==
  /\ row[m].st \in {"QUEUED", "SENDING"} /\ ~row[m].old
  /\ row' = [row EXCEPT ![m].old = TRUE]
  /\ UNCHANGED <<active, canceling, claim, posts, phone, sends, past>>

-------------------------------------------------------------------------------
\* pollOnce: the phone asks for messages, whatever became of what it asked before ...
Poll(d, r) ==
  /\ phone[d].ph = "idle" /\ claim[r].ph = "none"
  /\ phone' = [phone EXCEPT ![d].ph = "wait", ![d].req = r]
  /\ claim' = [claim EXCEPT ![r].ph = "sent", ![r].dev = d]
  /\ UNCHANGED <<row, active, canceling, posts, sends, past>>

\* ... and gives up on a request or an answer that is lost or late.
PollTimeout(d) ==
  LET r == phone[d].req IN
  /\ phone[d].ph = "wait"
  /\ phone' = [phone EXCEPT ![d] = Idle]
  /\ \/ UNCHANGED claim
     \/ claim[r].ph = "sent" /\ claim' = [claim EXCEPT ![r] = NoClaim]
  /\ UNCHANGED <<row, active, canceling, posts, sends, past>>


\* claim_messages, first read of _housekeep: the rows that are stuck.
ClaimRead(r) ==
  LET S == {m \in Messages : row[m].st = "SENDING" /\ row[m].stale} IN
  /\ claim[r].ph = "sent"
  /\ claim' = [claim EXCEPT ![r].ph = "read", ![r].stale = S,
                            ![r].tries = [m \in Messages |-> IF m \in S THEN row[m].tries ELSE 0]]
  /\ UNCHANGED <<row, active, canceling, posts, phone, sends, past>>

\* The rest of it: the rows that waited a day expire, the stuck ones are
\* requeued or, after MaxAttempts, failed (whatever they say by now) ...
WornOut(r) == {m \in claim[r].stale : claim[r].tries[m] >= MaxAttempts}
Expired == {m \in Messages : row[m].st = "QUEUED" /\ row[m].old}
Requeued(r) == claim[r].stale \ WornOut(r)
Queue(r) == Requeued(r) \cup ({m \in Messages : row[m].st = "QUEUED"} \ (Expired \cup WornOut(r)))

\* ... the first ClaimLimit of the queue are picked, and those for an ACTIVE
\* recipient given to the phone.
Picked(r) == {m \in Queue(r) : Cardinality({n \in Queue(r) : n < m}) < ClaimLimit}
Granted(r) == Picked(r) \cap active
Tries(r, m) == IF m \in claim[r].stale THEN claim[r].tries[m] ELSE row[m].tries

ClaimedRow(r, m) ==
  CASE m \in Granted(r) -> [row[m] EXCEPT !.st = "SENDING", !.dev = claim[r].dev,
                                          !.stale = FALSE, !.tries = Tries(r, m) + 1]
    [] m \in Picked(r) \ active -> [row[m] EXCEPT !.st = "FAILED"]
    [] m \in Requeued(r) \ Picked(r) -> [row[m] EXCEPT !.st = "QUEUED", !.dev = NoDevice]
    [] m \in (WornOut(r) \cup Expired) \ Queue(r) -> [row[m] EXCEPT !.st = "FAILED"]
    [] OTHER -> row[m]

\* A row taken back while a phone has it still, or by a claim that read it before
\* another one, a report or a cancellation wrote it.
InHand(m) == \E d \in Devices : m \in phone[d].batch
Stuck(m) == row[m].st = "SENDING" /\ row[m].stale
Seized(r) == {m \in Requeued(r) : InHand(m) \/ ~ Stuck(m)}

\* The answer reaches the phone if it still waits for this one.
ClaimCommit(r) ==
  LET d == claim[r].dev IN
  /\ claim[r].ph = "read"
  /\ row' = [m \in Messages |-> ClaimedRow(r, m)]
  /\ claim' = [claim EXCEPT ![r] = NoClaim]
  /\ phone' = IF phone[d].ph # "wait" \/ phone[d].req # r THEN phone
              ELSE [phone EXCEPT ![d] =
                      [Idle EXCEPT !.ph = IF Granted(r) = {} THEN "idle" ELSE "send",
                                   !.batch = Granted(r)]]
  /\ seized' = seized \cup Seized(r)
  /\ UNCHANGED <<active, canceling, posts, sends, unreported>>

-------------------------------------------------------------------------------
\* send: the carrier accepts the message (went) or not, and within a minute the
\* phone hears of its success (ok) or of a failure, or nothing.
Send(d) ==
  LET m == CHOOSE n \in phone[d].batch : \A k \in phone[d].batch : n <= k IN
  /\ phone[d].ph = "send"
  /\ \E went \in BOOLEAN, ok \in BOOLEAN :
       /\ ok => went
       /\ sends' = [sends EXCEPT ![m] = IF went THEN @ + 1 ELSE @]
       /\ phone' = [phone EXCEPT ![d].ph = "report", ![d].msg = m, ![d].ok = ok, ![d].try = 0]
  /\ UNCHANGED <<row, active, canceling, claim, posts, past>>

Post(d) ==
  LET p == phone[d] IN
  /\ p.ph = "report"
  /\ posts' = posts \cup {[dev |-> d, msg |-> p.msg, ok |-> p.ok, try |-> p.try + 1, ph |-> "sent"]}
  /\ phone' = [phone EXCEPT ![d].ph = "await", ![d].try = @ + 1]
  /\ UNCHANGED <<row, active, canceling, claim, sends, past>>

\* Mutant of AfterMessage: the loop does not advance.
AfterMessageAgain(p) ==
  [Idle EXCEPT !.batch = p.batch, !.ph = IF p.batch = {p.msg} THEN "idle" ELSE "send"]

\* What the thread does after a message.
AfterMessage(p) ==
  [Idle EXCEPT !.batch = p.batch \ {p.msg},
               !.ph = IF p.batch = {p.msg} THEN "idle" ELSE "send"]

\* No answer: the result is posted again, MaxPosts times in all.
PostTimeout(d) ==
  LET p == phone[d] IN
  /\ p.ph = "await"
  /\ IF p.try < MaxPosts
     THEN phone' = [phone EXCEPT ![d].ph = "report"] /\ UNCHANGED unreported
     ELSE phone' = [phone EXCEPT ![d] = AfterMessage(p)] /\ unreported' = unreported \cup {p.msg}
  /\ posts' \in {posts, {q \in posts : q.dev # d \/ q.msg # p.msg \/ q.try # p.try \/ q.ph # "sent"}}
  /\ UNCHANGED <<row, active, canceling, claim, sends, seized>>

\* The answer to post q, if its phone still waits for it.
Answer(q) ==
  LET p == phone[q.dev] IN
  phone' = IF p.ph = "await" /\ p.msg = q.msg /\ p.try = q.try
           THEN [phone EXCEPT ![q.dev] = AfterMessage(p)] ELSE phone

\* report_result reads the row; a result for a row that is no longer this
\* phone's is ignored ...
ReportRead(q) ==
  /\ q.ph = "sent"
  /\ IF row[q.msg].st = "SENDING" /\ row[q.msg].dev = q.dev
     THEN posts' = (posts \ {q}) \cup {[q EXCEPT !.ph = "read"]} /\ UNCHANGED phone
     ELSE posts' = posts \ {q} /\ Answer(q)
  /\ UNCHANGED <<row, active, canceling, claim, sends, past>>

\* ... and otherwise written.
ReportCommit(q) ==
  /\ q.ph = "read"
  /\ row' = [row EXCEPT ![q.msg].st = IF q.ok THEN "SENT" ELSE "FAILED"]
  /\ posts' = posts \ {q}
  /\ Answer(q)
  /\ UNCHANGED <<active, canceling, claim, sends, past>>

\* The application on the phone is killed and starts again.
Restart(d) ==
  /\ phone[d].ph # "idle"
  /\ phone' = [phone EXCEPT ![d] = Idle]
  /\ unreported' = IF phone[d].ph \in {"report", "await"} THEN unreported \cup {phone[d].msg}
                   ELSE unreported
  /\ UNCHANGED <<row, active, canceling, claim, posts, sends, seized>>

-------------------------------------------------------------------------------
Server(r) == ClaimRead(r) \/ ClaimCommit(r)
Asking(d) == \E r \in Requests : Poll(d, r)
Sender(d) == Asking(d) \/ Send(d) \/ Post(d)
Reporting == \E q \in posts : ReportRead(q) \/ ReportCommit(q)

Calm ==
  \/ \E m \in Messages :
       \/ Enqueue(m) \/ CancelRead(m) \/ CancelCommit(m)
       \/ Toggle(m) \/ GoStale(m) \/ GrowOld(m)
       \/ \E n \in Messages : Retry(m, n)
  \/ \E r \in Requests : Server(r)
  \/ \E d \in Devices : Sender(d)
  \/ Reporting
\* Requests and answers get lost or come late, phones restart.
Faults == \E d \in Devices : PollTimeout(d) \/ PostTimeout(d) \/ Restart(d)

Next == Calm \/ Faults

Spec == Init /\ [][Next]_vars

\* The service on the phone polls every 20 seconds and sends what it gets, a
\* request reaches the server now and then and is answered, time passes.
Fairness ==
  /\ \A d \in Devices : WF_vars(Sender(d))
  /\ \A r \in Requests : SF_vars(ClaimRead(r)) /\ SF_vars(ClaimCommit(r))
  /\ WF_vars(Reporting)
  /\ \A m \in Messages : WF_vars(GoStale(m))
FairSpec == Spec /\ Fairness

-------------------------------------------------------------------------------
\* However many phones empty the queue, a message goes out again only when a phone
\* could not report an earlier attempt, or when a claim took its row back although a
\* phone still had it (ten minutes for five messages can be too few) or although
\* another claim, a report or a cancellation had written it since it was found stuck.
ResentOnlyIfSeized == \A m \in Messages : sends[m] > 1 => m \in unreported \cup seized

\* What sms_outbox.py says of several phones, and SmsOutboxSender of a result that is not
\* lost: a row is given to one phone only, so the same message does not go out twice.
ResentOnlyUnreported == \A m \in Messages : sends[m] > 1 => m \in unreported

\* SENT is never wrong: a carrier has accepted the message, however late or
\* often the result was reported and whoever had the row meanwhile.
SentWentOut == \A m \in Messages : row[m].st = "SENT" => sends[m] > 0


===============================================================================
