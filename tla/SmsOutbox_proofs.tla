--------------------------- MODULE SmsOutbox_proofs ---------------------------
(***************************************************************************)
(* Theorems about SmsOutbox for every set of messages, any number of       *)
(* phones, of claims under way, of attempts and of posts.                  *)
(***************************************************************************)
EXTENDS SmsOutbox, TLAPS, WellFoundedInduction

\* A phone has sent a message and its result is not yet answered.
Reporter(d) == phone[d].ph \in {"report", "await"}

\* What the sending thread holds: nothing while it asks, and the message whose result
\* it reports, not more often than it may, is one of its batch.
Thread ==
  \A d \in Devices :
    /\ phone[d].ph \in {"idle", "wait"} <=> phone[d].batch = {}
    /\ Reporter(d) => phone[d].msg \in phone[d].batch
    /\ phone[d].ph = "report" => phone[d].try < MaxPosts

\* The message that Send picks from a batch is one of it.
LEMMA FirstOfBatch ==
  ASSUME NEW B, B \subseteq Messages, B # {}
  PROVE  (CHOOSE n \in B : \A k \in B : n <= k) \in B
<1>1. B \subseteq Nat BY SmsAssumption
<1>2. PICK n \in B : \A k \in B : ~ (<<k, n>> \in OpToRel(<, Nat))
  BY <1>1, WFMin, NatLessThanWellFounded
<1>3. \A k \in B : ~ (k \in Nat /\ n \in Nat /\ k < n) BY <1>2, Zenon DEF OpToRel
<1>4. \A k \in B : n <= k BY <1>1, <1>3
<1> QED BY <1>4

LEMMA IdleFields ==
  /\ Idle \in PhoneType /\ Idle.ph = "idle" /\ Idle.batch = {}
  /\ Idle.ok = FALSE
BY SmsAssumption DEF Idle, PhoneType

LEMMA NoClaimFields == NoClaim \in ClaimType /\ NoClaim.ph = "none" /\ NoClaim.stale = {}
BY DEF NoClaim, ClaimType

\* After a message the thread goes on with the rest of its batch.
LEMMA AfterFields ==
  ASSUME NEW p \in PhoneType
  PROVE  /\ AfterMessage(p) \in PhoneType
         /\ AfterMessage(p).batch = p.batch \ {p.msg}
         /\ AfterMessage(p).ph = IF p.batch = {p.msg} THEN "idle" ELSE "send"
         /\ AfterMessage(p).ok = FALSE
<1> DEFINE b == p.batch \ {p.msg}
           h == IF p.batch = {p.msg} THEN "idle" ELSE "send"
<1>1. AfterMessage(p) = [Idle EXCEPT !.batch = b, !.ph = h] BY DEF AfterMessage
<1>2. h \in {"idle", "send"} /\ b \in SUBSET Messages BY DEF PhoneType
<1> HIDE DEF b, h
<1>3. /\ AfterMessage(p) \in PhoneType /\ AfterMessage(p).ok = FALSE
      /\ AfterMessage(p).batch = b /\ AfterMessage(p).ph = h
  BY <1>1, <1>2, IdleFields DEF PhoneType
<1> QED BY <1>3 DEF b, h

\* Of an answer the phone takes no notice, or it goes on with its batch.
LEMMA AnswerPhone ==
  ASSUME TypeOK, NEW q \in posts, Answer(q)
  PROVE  \/ phone' = phone
         \/ /\ phone[q.dev].ph = "await" /\ phone[q.dev].msg = q.msg
            /\ phone' = [phone EXCEPT ![q.dev] = AfterMessage(phone[q.dev])]
BY DEF Answer

LEMMA AnswerType ==
  ASSUME TypeOK, NEW q \in posts, Answer(q) PROVE phone' \in [Devices -> PhoneType]
<1> q.dev \in Devices /\ phone[q.dev] \in PhoneType BY DEF TypeOK, PostType
<1> QED BY AnswerPhone, AfterFields DEF TypeOK

LEMMA GrantedQueue ==
  ASSUME TypeOK, NEW r \in Requests
  PROVE  /\ Granted(r) \subseteq Messages
         /\ Granted(r) \subseteq Queue(r)
         /\ Queue(r) \subseteq Requeued(r) \cup {m \in Messages : row[m].st = "QUEUED"}
         /\ Requeued(r) \subseteq Messages
<1> claim[r] \in ClaimType BY DEF TypeOK
<1> QED BY DEF Granted, Picked, Queue, Requeued, ClaimType

\* What the commit of a claim makes of a row.
LEMMA ClaimedShape ==
  ASSUME TypeOK, NEW r \in Requests, claim[r].dev \in Devices, NEW m \in Messages
  PROVE  /\ ClaimedRow(r, m) \in RowType
         /\ m \in Granted(r) => ClaimedRow(r, m).st = "SENDING" /\ ClaimedRow(r, m).dev = claim[r].dev
         /\ \/ m \in Granted(r)
            \/ ClaimedRow(r, m).st = "FAILED"
            \/ m \in Requeued(r) /\ ClaimedRow(r, m).st = "QUEUED"
            \/ ClaimedRow(r, m) = row[m]
<1> claim[r] \in ClaimType /\ row[m] \in RowType BY DEF TypeOK
<1> Tries(r, m) + 1 \in Nat BY DEF Tries, ClaimType, RowType
<1>1. CASE m \in Granted(r)
  <2> DEFINE x == [row[m] EXCEPT !.st = "SENDING", !.dev = claim[r].dev, !.stale = FALSE,
                                 !.tries = Tries(r, m) + 1]
  <2> m \in Picked(r) /\ m \in active /\ m \in Queue(r) BY <1>1 DEF Granted, Picked
  <2>1. ClaimedRow(r, m) = x BY <1>1 DEF ClaimedRow
  <2>2. x \in RowType /\ x.st = "SENDING" /\ x.dev = claim[r].dev BY DEF RowType
  <2> HIDE DEF x
  <2> QED BY <1>1, <2>1, <2>2
<1>2. CASE m \notin Granted(r)
  <2>1. CASE m \in Picked(r) \ active BY <1>2, <2>1 DEF ClaimedRow, RowType
  <2>2. CASE m \notin Picked(r) \ active
    <3>1. m \notin Picked(r) BY <1>2, <2>2 DEF Granted
    <3>2. CASE m \in Requeued(r)
      <4> DEFINE x == [row[m] EXCEPT !.st = "QUEUED", !.dev = NoDevice]
      <4> m \in Queue(r) BY <3>2 DEF Queue
      <4>1. ClaimedRow(r, m) = x BY <1>2, <3>1, <3>2 DEF ClaimedRow
      <4>2. x \in RowType /\ x.st = "QUEUED" BY DEF RowType
      <4> HIDE DEF x
      <4> QED BY <1>2, <3>2, <4>1, <4>2
    <3>3. CASE m \notin Requeued(r) BY <1>2, <3>1, <3>3 DEF ClaimedRow, RowType
    <3> QED BY <3>2, <3>3
  <2> QED BY <2>1, <2>2
<1> QED BY <1>1, <1>2

-------------------------------------------------------------------------------
(* Types, and what a phone's thread holds.                                 *)

\* A claim under way is some phone's.
Asked == \A r \in Requests : claim[r].ph # "none" => claim[r].dev \in Devices

TypeInv == TypeOK /\ Thread /\ Asked

\* The steps that only change the rows and who may get one.
TableStep ==
  \E m \in Messages :
    \/ Enqueue(m) \/ CancelRead(m) \/ CancelCommit(m)
    \/ Toggle(m) \/ GoStale(m) \/ GrowOld(m)

LEMMA NextSteps ==
  ASSUME Next
  PROVE  \/ TableStep
         \/ \E r \in Requests :
              \/ ClaimRead(r) \/ ClaimCommit(r)
              \/ \E d \in Devices : Poll(d, r)
         \/ \E d \in Devices :
              Send(d) \/ Post(d) \/ PollTimeout(d) \/ PostTimeout(d) \/ Restart(d)
         \/ \E q \in posts : ReportRead(q) \/ ReportCommit(q)
BY DEF Next, Calm, Faults, Server, Sender, Asking, Reporting, Retry, TableStep

LEMMA TableTypes ==
  ASSUME TypeOK, TableStep
  PROVE  TypeOK' /\ UNCHANGED <<claim, posts, phone, sends, past>>
<1> PICK m \in Messages : \/ Enqueue(m) \/ CancelRead(m) \/ CancelCommit(m)
                          \/ Toggle(m) \/ GoStale(m) \/ GrowOld(m)
  BY DEF TableStep
<1>1. row' \in [Messages -> RowType]
  <2>1. \/ row' = row
        \/ row' = [row EXCEPT ![m].st = "QUEUED"] \/ row' = [row EXCEPT ![m].st = "CANCELED"]
        \/ row' = [row EXCEPT ![m].stale = TRUE] \/ row' = [row EXCEPT ![m].old = TRUE]
    BY DEF Enqueue, CancelRead, CancelCommit, Toggle, GoStale, GrowOld
  <2>2. row \in [Messages -> RowType] BY DEF TypeOK
  <2>3. /\ [row EXCEPT ![m].st = "QUEUED"] \in [Messages -> RowType]
        /\ [row EXCEPT ![m].st = "CANCELED"] \in [Messages -> RowType]
    BY <2>2 DEF RowType
  <2>4. /\ [row EXCEPT ![m].stale = TRUE] \in [Messages -> RowType]
        /\ [row EXCEPT ![m].old = TRUE] \in [Messages -> RowType]
    BY <2>2 DEF RowType
  <2> QED BY <2>1, <2>2, <2>3, <2>4
<1>2. active' \subseteq Messages /\ canceling' \subseteq Messages
  BY DEF TypeOK, Enqueue, CancelRead, CancelCommit, Toggle, GoStale, GrowOld
<1>3. UNCHANGED <<claim, posts, phone, sends, past>>
  BY DEF Enqueue, CancelRead, CancelCommit, Toggle, GoStale, GrowOld
<1> QED BY <1>1, <1>2, <1>3 DEF TypeOK, past

\* The message being sent is one of the batch, and the batch stays.
LEMMA SendShape ==
  ASSUME TypeInv, NEW d \in Devices, Send(d)
  PROVE  /\ phone[d].ph = "send"
         /\ phone' \in [Devices -> PhoneType]
         /\ \A e \in Devices \ {d} : phone'[e] = phone[e]
         /\ \E m \in phone[d].batch :
              /\ m \in Messages
              /\ \/ sends' = [sends EXCEPT ![m] = @ + 1]
                 \/ sends' = sends /\ phone'[d].ok = FALSE
              /\ phone'[d].ph = "report" /\ phone'[d].batch = phone[d].batch
              /\ phone'[d].msg = m /\ phone'[d].try = 0
         /\ UNCHANGED <<row, active, canceling, claim, posts, past>>
<1> DEFINE m == CHOOSE n \in phone[d].batch : \A k \in phone[d].batch : n <= k
<1>1. phone[d].batch \subseteq Messages /\ phone[d].batch # {}
  BY DEF TypeInv, TypeOK, PhoneType, Thread, Send
<1>2. m \in phone[d].batch /\ m \in Messages BY <1>1, FirstOfBatch
<1>3. PICK went \in BOOLEAN, ok \in BOOLEAN :
        /\ ok => went
        /\ sends' = [sends EXCEPT ![m] = IF went THEN @ + 1 ELSE @]
        /\ phone' = [phone EXCEPT ![d].ph = "report", ![d].msg = m, ![d].ok = ok, ![d].try = 0]
  BY DEF Send
<1>4. phone[d].ph = "send" /\ UNCHANGED <<row, active, canceling, claim, posts, past>>
  BY DEF Send
<1> HIDE DEF m
<1>5. sends' = [sends EXCEPT ![m] = @ + 1] \/ (sends' = sends /\ ok = FALSE)
  BY <1>2, <1>3 DEF TypeInv, TypeOK
<1>6. /\ phone' \in [Devices -> PhoneType]
      /\ \A e \in Devices \ {d} : phone'[e] = phone[e]
      /\ phone'[d].ph = "report" /\ phone'[d].batch = phone[d].batch
      /\ phone'[d].msg = m /\ phone'[d].ok = ok /\ phone'[d].try = 0
  <2> DEFINE p == [phone[d] EXCEPT !.ph = "report", !.msg = m, !.ok = ok, !.try = 0]
  <2>1. phone \in [Devices -> PhoneType] BY DEF TypeInv, TypeOK
  <2>2. m \in Messages \cup {NoMessage} /\ 0 \in 0..MaxPosts BY <1>2, SmsAssumption
  <2>3. /\ p \in PhoneType /\ p.ph = "report" /\ p.batch = phone[d].batch
        /\ p.msg = m /\ p.ok = ok /\ p.try = 0
    BY <2>1, <2>2 DEF PhoneType
  <2>4. phone' = [phone EXCEPT ![d] = p] BY <1>3, <2>1
  <2> HIDE DEF p
  <2> QED BY <2>1, <2>3, <2>4
<1> QED BY <1>2, <1>4, <1>5, <1>6

\* A phone asks.
LEMMA PollTypes ==
  ASSUME TypeInv, NEW d \in Devices, NEW r \in Requests, Poll(d, r)
  PROVE  /\ TypeOK' /\ Asked'
         /\ phone[d].ph = "idle" /\ phone'[d].ph = "wait" /\ phone'[d].batch = phone[d].batch
         /\ \A e \in Devices \ {d} : phone'[e] = phone[e]
         /\ UNCHANGED <<row, active, canceling, posts, sends, past>>
<1> TypeOK /\ Asked BY DEF TypeInv
<1> phone \in [Devices -> PhoneType] /\ claim \in [Requests -> ClaimType] BY DEF TypeOK
<1>1. phone' = [phone EXCEPT ![d].ph = "wait", ![d].req = r] BY DEF Poll
<1>2. /\ phone' \in [Devices -> PhoneType]
      /\ phone'[d].ph = "wait" /\ phone'[d].batch = phone[d].batch
      /\ \A e \in Devices \ {d} : phone'[e] = phone[e]
  BY <1>1 DEF PhoneType
<1>3. claim' = [claim EXCEPT ![r].ph = "sent", ![r].dev = d] BY DEF Poll
<1>4. claim' \in [Requests -> ClaimType] /\ Asked' BY <1>3 DEF Asked, ClaimType
<1> QED BY <1>2, <1>4 DEF Poll, TypeOK, past

\* A phone gives up asking.
LEMMA PollTimeoutTypes ==
  ASSUME TypeInv, NEW d \in Devices, PollTimeout(d)
  PROVE  /\ TypeOK' /\ Asked'
         /\ phone[d].ph = "wait" /\ phone' = [phone EXCEPT ![d] = Idle]
         /\ UNCHANGED <<row, active, canceling, posts, sends, past>>
<1> TypeOK /\ Asked BY DEF TypeInv
<1> phone \in [Devices -> PhoneType] /\ claim \in [Requests -> ClaimType] BY DEF TypeOK
<1>1. claim' = claim \/ claim' = [claim EXCEPT ![phone[d].req] = NoClaim] BY DEF PollTimeout
<1>2. claim' \in [Requests -> ClaimType] /\ Asked' BY <1>1, NoClaimFields DEF Asked
<1> QED BY <1>2, IdleFields DEF PollTimeout, TypeOK, past

LEMMA ClaimReadTypes ==
  ASSUME TypeInv, NEW r \in Requests, ClaimRead(r)
  PROVE  /\ TypeOK' /\ Asked'
         /\ UNCHANGED <<row, active, canceling, posts, phone, sends, past>>
<1> TypeOK /\ Asked BY DEF TypeInv
<1> DEFINE S == {m \in Messages : row[m].st = "SENDING" /\ row[m].stale}
           t == [m \in Messages |-> IF m \in S THEN row[m].tries ELSE 0]
<1>1. S \in SUBSET Messages /\ t \in [Messages -> Nat] BY DEF TypeOK, RowType
<1>2. claim' = [claim EXCEPT ![r].ph = "read", ![r].stale = S, ![r].tries = t]
  BY DEF ClaimRead
<1>3. claim[r].ph = "sent" BY DEF ClaimRead
<1> HIDE DEF S, t
<1> DEFINE c == [claim[r] EXCEPT !.ph = "read", !.stale = S, !.tries = t]
<1>c. claim \in [Requests -> ClaimType] BY DEF TypeOK
<1>4. c \in ClaimType /\ c.dev = claim[r].dev BY <1>1, <1>c DEF ClaimType
<1>7. claim' = [claim EXCEPT ![r] = c] BY <1>2, <1>c
<1> HIDE DEF c
<1>5. /\ claim' \in [Requests -> ClaimType] /\ claim'[r].dev = claim[r].dev
      /\ \A q \in Requests \ {r} : claim'[q] = claim[q]
  BY <1>4, <1>7, <1>c
<1>6. Asked' BY <1>3, <1>5 DEF Asked
<1> QED BY <1>5, <1>6 DEF ClaimRead, TypeOK, past

LEMMA ClaimCommitTypes ==
  ASSUME TypeInv, NEW r \in Requests, ClaimCommit(r), NEW d, d = claim[r].dev
  PROVE  /\ TypeOK' /\ Asked' /\ d \in Devices
         /\ row' = [m \in Messages |-> ClaimedRow(r, m)]
         /\ \/ phone' = phone
            \/ /\ phone[d].ph = "wait" /\ phone'[d].batch = Granted(r)
               /\ phone'[d].ph = IF Granted(r) = {} THEN "idle" ELSE "send"
               /\ phone'[d].ok = FALSE
               /\ \A e \in Devices \ {d} : phone'[e] = phone[e]
         /\ seized' = seized \cup Seized(r)
         /\ UNCHANGED <<active, canceling, posts, sends, unreported>>
<1> TypeOK /\ Asked BY DEF TypeInv
<1> phone \in [Devices -> PhoneType] /\ claim \in [Requests -> ClaimType] BY DEF TypeOK
<1>0. d \in Devices BY DEF Asked, ClaimCommit
<1>1. row' \in [Messages -> RowType] BY <1>0, ClaimedShape DEF ClaimCommit
<1>2. claim' \in [Requests -> ClaimType] /\ Asked' BY NoClaimFields DEF ClaimCommit, Asked
<1> DEFINE h == IF Granted(r) = {} THEN "idle" ELSE "send"  G == Granted(r)
           p == [Idle EXCEPT !.ph = h, !.batch = G]
<1>3. phone' = phone \/ (phone[d].ph = "wait" /\ phone' = [phone EXCEPT ![d] = p])
  BY DEF ClaimCommit
<1>4. h \in {"idle", "send"} /\ G \in SUBSET Messages BY GrantedQueue
<1> HIDE DEF h, G
<1>5. p \in PhoneType /\ p.ph = h /\ p.batch = G /\ p.ok = FALSE BY <1>4, IdleFields DEF PhoneType
<1> HIDE DEF p
<1>6. /\ phone' \in [Devices -> PhoneType]
      /\ \/ phone' = phone
         \/ /\ phone[d].ph = "wait" /\ phone'[d].batch = G /\ phone'[d].ph = h
            /\ phone'[d].ok = FALSE
            /\ \A e \in Devices \ {d} : phone'[e] = phone[e]
  BY <1>0, <1>3, <1>5
<1>7. seized' \subseteq Messages BY GrantedQueue DEF ClaimCommit, Seized, TypeOK
<1> QED BY <1>0, <1>1, <1>2, <1>6, <1>7 DEF ClaimCommit, TypeOK, h, G

LEMMA PostTypes ==
  ASSUME TypeOK, Thread, NEW d \in Devices, Post(d)
  PROVE  /\ TypeOK'
         /\ phone[d].ph = "report" /\ phone'[d].ph = "await" /\ phone'[d].msg = phone[d].msg
         /\ phone'[d].batch = phone[d].batch /\ phone'[d].ok = phone[d].ok
         /\ \A e \in Devices \ {d} : phone'[e] = phone[e]
         /\ \A q \in posts' \ posts : q.ok = phone[d].ok /\ q.msg = phone[d].msg
         /\ UNCHANGED <<row, active, canceling, claim, sends, past>>
<1> DEFINE p == phone[d]
           q0 == [dev |-> d, msg |-> p.msg, ok |-> p.ok, try |-> p.try + 1, ph |-> "sent"]
<1>0. phone \in [Devices -> PhoneType] /\ p \in PhoneType BY DEF TypeOK
<1>1. p.ph = "report" /\ p.msg \in Messages
  BY <1>0 DEF Post, Thread, Reporter, PhoneType
<1>2. p.try < MaxPosts BY <1>1 DEF Thread
<1>3. q0 \in PostType BY <1>0, <1>1, <1>2, SmsAssumption DEF PhoneType, PostType
<1>4. q0.ok = phone[d].ok /\ q0.msg = phone[d].msg OBVIOUS
<1>5. posts' = posts \cup {q0} BY DEF Post
<1> HIDE DEF q0
<1>6. posts' \subseteq PostType /\ \A q \in posts' \ posts : q.ok = phone[d].ok /\ q.msg = phone[d].msg
  BY <1>3, <1>4, <1>5 DEF TypeOK
<1>7. phone' = [phone EXCEPT ![d].ph = "await", ![d].try = @ + 1] BY DEF Post
<1>8. p.try + 1 \in 0..MaxPosts BY <1>0, <1>2, SmsAssumption DEF PhoneType
<1>9. /\ phone' \in [Devices -> PhoneType]
      /\ phone'[d].ph = "await" /\ phone'[d].msg = phone[d].msg
      /\ phone'[d].batch = phone[d].batch /\ phone'[d].ok = phone[d].ok
      /\ \A e \in Devices \ {d} : phone'[e] = phone[e]
  BY <1>0, <1>7, <1>8 DEF PhoneType
<1> QED BY <1>1, <1>6, <1>9 DEF Post, TypeOK, past

\* The thread posts a report again, or gives it up and goes on.
LEMMA PostTimeoutTypes ==
  ASSUME TypeOK, Thread, NEW d \in Devices, PostTimeout(d)
  PROVE  /\ TypeOK' /\ posts' \subseteq posts /\ phone[d].ph = "await"
         /\ \/ /\ unreported' = unreported
               /\ phone'[d].ph = "report" /\ phone'[d].batch = phone[d].batch
               /\ phone'[d].msg = phone[d].msg /\ phone'[d].ok = phone[d].ok
               /\ phone'[d].try < MaxPosts
            \/ /\ unreported' = unreported \cup {phone[d].msg}
               /\ phone'[d] = AfterMessage(phone[d])
         /\ \A e \in Devices \ {d} : phone'[e] = phone[e]
         /\ UNCHANGED <<row, active, canceling, claim, sends, seized>>
<1> DEFINE p == phone[d]
<1>0. phone \in [Devices -> PhoneType] /\ p \in PhoneType BY DEF TypeOK
<1>1. posts' \subseteq posts /\ p.ph = "await" BY DEF PostTimeout
<1>2. p.msg \in Messages BY <1>0, <1>1 DEF Thread, Reporter, PhoneType
<1>3. UNCHANGED <<row, active, canceling, claim, sends, seized>> BY DEF PostTimeout
<1>4. CASE p.try < MaxPosts
  <2>1. phone' = [phone EXCEPT ![d].ph = "report"] /\ unreported' = unreported
    BY <1>4 DEF PostTimeout
  <2>2. phone' \in [Devices -> PhoneType] BY <2>1, <1>0 DEF PhoneType
  <2>3. /\ phone'[d].ph = "report" /\ phone'[d].batch = phone[d].batch
        /\ phone'[d].msg = phone[d].msg /\ phone'[d].ok = phone[d].ok
        /\ phone'[d].try = phone[d].try
        /\ \A e \in Devices \ {d} : phone'[e] = phone[e]
    BY <2>1, <1>0 DEF PhoneType
  <2> QED BY <1>1, <1>3, <1>4, <2>1, <2>2, <2>3 DEF TypeOK
<1>5. CASE ~ (p.try < MaxPosts)
  <2>1. phone' = [phone EXCEPT ![d] = AfterMessage(p)] /\ unreported' = unreported \cup {p.msg}
    BY <1>5 DEF PostTimeout
  <2>2. AfterMessage(p) \in PhoneType BY <1>0, AfterFields
  <2> QED BY <1>0, <1>1, <1>2, <1>3, <2>1, <2>2 DEF TypeOK
<1> QED BY <1>4, <1>5

LEMMA RestartTypes ==
  ASSUME TypeOK, Thread, NEW d \in Devices, Restart(d)
  PROVE  /\ TypeOK' /\ phone' = [phone EXCEPT ![d] = Idle]
         /\ unreported' = IF Reporter(d) THEN unreported \cup {phone[d].msg} ELSE unreported
         /\ UNCHANGED <<row, active, canceling, claim, posts, sends, seized>>
<1> phone \in [Devices -> PhoneType] BY DEF TypeOK
<1>1. Reporter(d) => phone[d].msg \in Messages BY DEF Thread, PhoneType
<1> QED BY <1>1, IdleFields DEF Restart, TypeOK, Reporter

\* The server has read or written a result, and may have answered.
LEMMA ReportTypes ==
  ASSUME TypeOK, NEW q \in posts, ReportRead(q) \/ ReportCommit(q)
  PROVE  /\ TypeOK' /\ q \in PostType
         /\ \/ row' = [row EXCEPT ![q.msg].st = IF q.ok THEN "SENT" ELSE "FAILED"]
            \/ /\ row' = row
               /\ phone' = phone \/ row[q.msg].st # "SENDING" \/ row[q.msg].dev # q.dev
         /\ \/ phone' = phone
            \/ /\ phone[q.dev].ph = "await" /\ phone[q.dev].msg = q.msg
               /\ phone' = [phone EXCEPT ![q.dev] = AfterMessage(phone[q.dev])]
         /\ \A r \in posts' : r \in posts \/ (r.msg = q.msg /\ r.ok = q.ok)
         /\ UNCHANGED <<active, canceling, claim, sends, past>>
<1>1. q \in PostType BY DEF TypeOK
<1>2. UNCHANGED <<active, canceling, claim, sends, past>> BY DEF ReportRead, ReportCommit
<1>3. CASE ReportRead(q)
  <2> DEFINE r == [q EXCEPT !.ph = "read"]
  <2>1. r \in PostType /\ r.msg = q.msg /\ r.ok = q.ok BY <1>1 DEF PostType
  <2> HIDE DEF r
  <2>2. CASE row[q.msg].st = "SENDING" /\ row[q.msg].dev = q.dev
    <3>1. posts' = (posts \ {q}) \cup {r} /\ phone' = phone /\ row' = row
      BY <1>3, <2>2 DEF ReportRead, r
    <3> QED BY <1>1, <1>2, <2>1, <3>1 DEF TypeOK, past
  <2>3. CASE ~ (row[q.msg].st = "SENDING" /\ row[q.msg].dev = q.dev)
    <3>1. posts' = posts \ {q} /\ Answer(q) /\ row' = row BY <1>3, <2>3 DEF ReportRead
    <3> QED BY <1>1, <1>2, <2>3, <3>1, AnswerPhone, AnswerType DEF TypeOK, past
  <2> QED BY <2>2, <2>3
<1>4. CASE ReportCommit(q)
  <2>1. /\ row' = [row EXCEPT ![q.msg].st = IF q.ok THEN "SENT" ELSE "FAILED"]
        /\ posts' = posts \ {q} /\ Answer(q)
    BY <1>4 DEF ReportCommit
  <2> DEFINE v == IF q.ok THEN "SENT" ELSE "FAILED"
  <2>2. v \in {"SENT", "FAILED"} OBVIOUS
  <2>3. row' = [row EXCEPT ![q.msg].st = v] BY <2>1
  <2> HIDE DEF v
  <2>4. row' \in [Messages -> RowType] BY <2>2, <2>3 DEF TypeOK, RowType
  <2> QED BY <1>1, <1>2, <2>1, <2>4, AnswerPhone, AnswerType DEF TypeOK, past
<1> QED BY <1>3, <1>4

LEMMA TypeInit == Init => TypeInv
<1> SUFFICES ASSUME Init PROVE TypeInv OBVIOUS
<1>1. TypeOK BY IdleFields, NoClaimFields DEF Init, TypeOK, RowType
<1>2. Thread BY IdleFields DEF Init, Thread, Reporter
<1>3. Asked BY NoClaimFields DEF Init, Asked
<1> QED BY <1>1, <1>2, <1>3 DEF TypeInv

\* A phone for which nothing changed holds what it held.
LEMMA ThreadFrame ==
  ASSUME Thread, NEW d \in Devices, phone'[d] = phone[d]
  PROVE  /\ phone'[d].ph \in {"idle", "wait"} <=> phone'[d].batch = {}
         /\ Reporter(d)' => phone'[d].msg \in phone'[d].batch
         /\ phone'[d].ph = "report" => phone'[d].try < MaxPosts
BY DEF Thread, Reporter

\* After a message the thread holds the rest of its batch.
LEMMA ThreadGoesOn ==
  ASSUME TypeOK, Thread, NEW d \in Devices, phone[d].ph = "await",
         phone'[d] = AfterMessage(phone[d])
  PROVE  /\ phone'[d].ph \in {"idle", "wait"} <=> phone'[d].batch = {}
         /\ Reporter(d)' => phone'[d].msg \in phone'[d].batch
         /\ phone'[d].ph = "report" => phone'[d].try < MaxPosts
<1> phone[d] \in PhoneType BY DEF TypeOK
<1>1. phone[d].msg \in phone[d].batch BY DEF Thread, Reporter
<1> QED BY <1>1, AfterFields DEF Reporter

LEMMA TypeStep ==
  ASSUME TypeInv, [Next]_vars PROVE TypeInv'
<1> TypeOK /\ Thread /\ Asked BY DEF TypeInv
<1> DEFINE Holds(e) ==
             /\ phone'[e].ph \in {"idle", "wait"} <=> phone'[e].batch = {}
             /\ Reporter(e)' => phone'[e].msg \in phone'[e].batch
             /\ phone'[e].ph = "report" => phone'[e].try < MaxPosts
           Good == TypeOK' /\ Asked' /\ \A e \in Devices : Holds(e)
<1>0. SUFFICES Good BY DEF TypeInv, Thread
<1>f. ASSUME NEW e \in Devices, phone'[e] = phone[e] PROVE Holds(e)
  BY <1>f, ThreadFrame
<1>g. ASSUME NEW e \in Devices, phone[e].ph = "await", phone'[e] = AfterMessage(phone[e])
      PROVE  Holds(e)
  BY <1>g, ThreadGoesOn
<1>a. claim' = claim => Asked' BY DEF Asked
<1>p. phone \in [Devices -> PhoneType] BY DEF TypeOK
<1> HIDE DEF Holds
<1>1. CASE UNCHANGED vars
  <2>1. TypeOK' BY <1>1 DEF vars, past, TypeOK
  <2> QED BY <1>1, <1>a, <1>f, <2>1 DEF vars
<1>2. CASE TableStep BY <1>2, <1>a, <1>f, TableTypes
<1>3. ASSUME NEW d \in Devices, NEW r \in Requests, Poll(d, r) PROVE Good
  <2>1. phone'[d].ph = "wait" /\ phone'[d].batch = {} BY <1>3, PollTypes DEF Thread
  <2>2. Holds(d) BY <2>1 DEF Holds, Reporter
  <2> QED BY <1>3, <1>f, <2>2, PollTypes
<1>4. ASSUME NEW d \in Devices, PollTimeout(d) PROVE Good
  <2>1. phone'[d] = Idle /\ \A e \in Devices \ {d} : phone'[e] = phone[e]
    BY <1>4, <1>p, PollTimeoutTypes
  <2>2. Holds(d) BY <2>1, IdleFields DEF Holds, Reporter
  <2> QED BY <1>4, <1>f, <2>1, <2>2, PollTimeoutTypes
<1>5. ASSUME NEW r \in Requests, ClaimRead(r) PROVE Good
  BY <1>5, <1>f, ClaimReadTypes
<1>6. ASSUME NEW r \in Requests, ClaimCommit(r) PROVE Good
  <2>0. PICK d \in Devices : d = claim[r].dev BY <1>6, ClaimCommitTypes
  <2>1. TypeOK' /\ Asked' BY <1>6, ClaimCommitTypes
  <2>2. CASE phone' = phone BY <1>f, <2>1, <2>2
  <2>3. CASE phone' # phone
    <3>1. /\ phone'[d].batch = Granted(r)
          /\ phone'[d].ph = IF Granted(r) = {} THEN "idle" ELSE "send"
          /\ \A e \in Devices \ {d} : phone'[e] = phone[e]
      BY <1>6, <2>0, <2>3, ClaimCommitTypes
    <3>2. Holds(d) BY <2>1, <3>1 DEF Holds, Reporter
    <3> QED BY <1>f, <2>1, <3>1, <3>2
  <2> QED BY <2>2, <2>3
<1>7. ASSUME NEW d \in Devices, Send(d) PROVE Good
  <2>1. /\ phone' \in [Devices -> PhoneType] /\ phone[d].ph = "send"
        /\ \A e \in Devices \ {d} : phone'[e] = phone[e]
        /\ UNCHANGED <<row, active, canceling, claim, posts, past>>
    BY <1>7, SendShape
  <2>2. PICK m \in phone[d].batch :
          /\ m \in Messages
          /\ sends' = [sends EXCEPT ![m] = @ + 1] \/ sends' = sends
          /\ phone'[d].ph = "report" /\ phone'[d].batch = phone[d].batch
          /\ phone'[d].msg = m /\ phone'[d].try = 0
    BY <1>7, SendShape
  <2>3. TypeOK' BY <2>1, <2>2 DEF TypeOK, past
  <2>4. Holds(d) BY <2>1, <2>2, SmsAssumption DEF Holds, Reporter
  <2> QED BY <1>a, <1>f, <2>1, <2>3, <2>4
<1>8. ASSUME NEW d \in Devices, Post(d) PROVE Good
  <2>1. phone[d].msg \in phone[d].batch BY <1>8, PostTypes DEF Thread, Reporter
  <2>2. Holds(d) BY <1>8, <2>1, PostTypes DEF Holds, Reporter, Thread
  <2> QED BY <1>8, <1>a, <1>f, <2>2, PostTypes
<1>9. ASSUME NEW d \in Devices, PostTimeout(d) PROVE Good
  <2>1. phone[d].msg \in phone[d].batch /\ claim' = claim
    BY <1>9, PostTimeoutTypes DEF Thread, Reporter
  <2>2. CASE phone'[d] = AfterMessage(phone[d])
    <3>1. Holds(d) BY <1>9, <1>g, <2>1, <2>2, PostTimeoutTypes
    <3> QED BY <1>9, <1>a, <1>f, <2>1, <3>1, PostTimeoutTypes
  <2>3. CASE phone'[d] # AfterMessage(phone[d])
    <3>1. Holds(d) BY <1>9, <2>1, <2>3, PostTimeoutTypes DEF Holds, Reporter, Thread
    <3> QED BY <1>9, <1>a, <1>f, <2>1, <3>1, PostTimeoutTypes
  <2> QED BY <2>2, <2>3
<1>10. ASSUME NEW d \in Devices, Restart(d) PROVE Good
  <2>1. phone'[d] = Idle /\ claim' = claim /\ \A e \in Devices \ {d} : phone'[e] = phone[e]
    BY <1>10, <1>p, RestartTypes
  <2>2. Holds(d) BY <2>1, IdleFields DEF Holds, Reporter
  <2> QED BY <1>10, <1>a, <1>f, <2>1, <2>2, RestartTypes
<1>11. ASSUME NEW q \in posts, ReportRead(q) \/ ReportCommit(q) PROVE Good
  <2>1. q.dev \in Devices /\ claim' = claim /\ TypeOK' BY <1>11, ReportTypes DEF PostType
  <2>2. CASE phone' = phone BY <1>a, <1>f, <2>1, <2>2
  <2>3. CASE phone' # phone
    <3>1. phone[q.dev].ph = "await" /\ phone' = [phone EXCEPT ![q.dev] = AfterMessage(phone[q.dev])]
      BY <1>11, <2>3, ReportTypes
    <3>2. Holds(q.dev) BY <1>g, <1>p, <2>1, <3>1
    <3> QED BY <1>a, <1>f, <1>p, <2>1, <3>1, <3>2
  <2> QED BY <2>2, <2>3
<1> HIDE DEF Good
<1> QED BY <1>1, <1>2, <1>3, <1>4, <1>5, <1>6, <1>7, <1>8, <1>9, <1>10, <1>11, NextSteps

LEMMA TypeInvariant == Spec => []TypeInv
<1>1. TypeInv /\ [Next]_vars => TypeInv' BY TypeStep
<1> QED BY TypeInit, <1>1, PTL DEF Spec

\* The server's rows, what a phone's thread holds and the requests between them keep
\* their types: a row always says whom it was given to.
THEOREM TypeCorrect == Spec => []TypeOK
<1>1. TypeInv => TypeOK BY DEF TypeInv
<1> QED BY TypeInvariant, <1>1, PTL

-------------------------------------------------------------------------------
(* SENT is never wrong.                                                    *)

\* A success that is reported, on its way or in the row is one that a carrier gave.
Vouched ==
  /\ \A d \in Devices : Reporter(d) /\ phone[d].ok => sends[phone[d].msg] > 0
  /\ \A q \in posts : q.ok => sends[q.msg] > 0

SentInv == TypeInv /\ Vouched /\ SentWentOut

LEMMA SentStep ==
  ASSUME SentInv, [Next]_vars PROVE SentInv'
<1> TypeInv /\ TypeOK /\ Thread /\ Vouched /\ SentWentOut BY DEF SentInv, TypeInv
<1>0. TypeOK' /\ TypeInv' BY TypeStep DEF SentInv, TypeInv
<1>p. /\ phone \in [Devices -> PhoneType] /\ sends \in [Messages -> Nat]
      /\ row \in [Messages -> RowType]
  BY DEF TypeOK
<1> DEFINE Rows == \A m \in Messages : row'[m].st = "SENT" => sends'[m] > 0
           Phones == \A d \in Devices : Reporter(d)' /\ phone'[d].ok => sends'[phone'[d].msg] > 0
           Posts == \A q \in posts' : q.ok => sends'[q.msg] > 0
<1> SUFFICES Rows /\ Phones /\ Posts BY <1>0 DEF SentInv, Vouched, SentWentOut
<1>1. ASSUME row' = row, sends' = sends PROVE Rows BY <1>1 DEF SentWentOut
<1>2. ASSUME phone' = phone, sends' = sends PROVE Phones BY <1>2 DEF Vouched, Reporter
<1>3. ASSUME posts' \subseteq posts, sends' = sends PROVE Posts BY <1>3 DEF Vouched
<1>4. ASSUME NEW d \in Devices, sends' = sends, \A e \in Devices \ {d} : phone'[e] = phone[e],
             ~ Reporter(d)' \/ ~ phone'[d].ok
                \/ (Reporter(d) /\ phone'[d].msg = phone[d].msg /\ phone'[d].ok = phone[d].ok)
      PROVE  Phones
  BY <1>4 DEF Vouched, Reporter
<1> HIDE DEF Rows, Phones, Posts
<1>5. CASE UNCHANGED vars BY <1>1, <1>2, <1>3, <1>5 DEF vars
<1>6. CASE TableStep
  <2>1. UNCHANGED <<posts, phone, sends>> BY <1>6, TableTypes
  <2>2. PICK m \in Messages : \/ Enqueue(m) \/ CancelRead(m) \/ CancelCommit(m)
                              \/ Toggle(m) \/ GoStale(m) \/ GrowOld(m)
    BY <1>6 DEF TableStep
  <2>3. \/ row' = row
        \/ row' = [row EXCEPT ![m].st = "QUEUED"] \/ row' = [row EXCEPT ![m].st = "CANCELED"]
        \/ row' = [row EXCEPT ![m].stale = TRUE] \/ row' = [row EXCEPT ![m].old = TRUE]
    BY <2>2 DEF Enqueue, CancelRead, CancelCommit, Toggle, GoStale, GrowOld
  <2>4. \A k \in Messages : row'[k].st \in {row[k].st, "QUEUED", "CANCELED"}
    BY <1>p, <2>3 DEF RowType
  <2>5. Rows BY <2>1, <2>4 DEF Rows, SentWentOut
  <2> QED BY <1>2, <1>3, <2>1, <2>5
<1>7. ASSUME NEW d \in Devices, NEW r \in Requests, Poll(d, r) PROVE Rows /\ Phones /\ Posts
  <2>1. ~ Reporter(d)' BY <1>7, PollTypes DEF Reporter
  <2> QED BY <1>1, <1>3, <1>4, <1>7, <2>1, PollTypes
<1>15. ASSUME NEW d \in Devices, PollTimeout(d) PROVE Rows /\ Phones /\ Posts
  <2>1. ~ Reporter(d)' /\ \A e \in Devices \ {d} : phone'[e] = phone[e]
    BY <1>15, <1>p, PollTimeoutTypes, IdleFields DEF Reporter
  <2> QED BY <1>1, <1>3, <1>4, <1>15, <2>1, PollTimeoutTypes
<1>8. ASSUME NEW r \in Requests, ClaimRead(r) PROVE Rows /\ Phones /\ Posts
  BY <1>1, <1>2, <1>3, <1>8, ClaimReadTypes
<1>9. ASSUME NEW r \in Requests, ClaimCommit(r) PROVE Rows /\ Phones /\ Posts
  <2>0. PICK d \in Devices : d = claim[r].dev BY <1>9, ClaimCommitTypes
  <2>1. UNCHANGED <<posts, sends>> /\ row' = [m \in Messages |-> ClaimedRow(r, m)]
    BY <1>9, ClaimCommitTypes
  <2>2. \A m \in Messages : row'[m].st = "SENT" => row[m].st = "SENT"
    BY <2>0, <2>1, ClaimedShape
  <2>3. Rows BY <2>1, <2>2 DEF Rows, SentWentOut
  <2>4. Phones
    <3>1. CASE phone' = phone BY <1>2, <2>1, <3>1
    <3>2. CASE phone' # phone
      <4>1. ~ Reporter(d)' /\ \A e \in Devices \ {d} : phone'[e] = phone[e]
        BY <1>9, <2>0, <3>2, ClaimCommitTypes DEF Reporter
      <4> QED BY <1>4, <2>1, <4>1
    <3> QED BY <3>1, <3>2
  <2> QED BY <1>3, <2>1, <2>3, <2>4
<1>10. ASSUME NEW d \in Devices, Send(d) PROVE Rows /\ Phones /\ Posts
  <2>1. /\ UNCHANGED <<row, posts>> /\ \A e \in Devices \ {d} : phone'[e] = phone[e]
    BY <1>10, SendShape
  <2>2. PICK m \in Messages :
          /\ \/ sends' = [sends EXCEPT ![m] = @ + 1]
             \/ sends' = sends /\ phone'[d].ok = FALSE
          /\ phone'[d].msg = m
    BY <1>10, SendShape
  <2>3. \A k \in Messages : sends[k] > 0 => sends'[k] > 0 BY <1>p, <2>2
  <2>4. phone'[d].ok => sends'[phone'[d].msg] > 0 BY <1>p, <2>2
  <2>5. Rows BY <2>1, <2>3 DEF Rows, SentWentOut
  <2>6. Posts BY <2>1, <2>3 DEF Posts, Vouched, TypeOK, PostType
  <2>7. Phones
    <3> SUFFICES ASSUME NEW e \in Devices \ {d}, Reporter(e)', phone'[e].ok
                 PROVE  sends'[phone'[e].msg] > 0
      BY <2>4 DEF Phones
    <3>1. Reporter(e) /\ phone[e].msg = phone'[e].msg /\ phone[e].ok BY <2>1 DEF Reporter
    <3>2. phone[e].msg \in Messages BY <1>p, <3>1 DEF Thread, PhoneType
    <3> QED BY <2>3, <3>1, <3>2 DEF Vouched
  <2> QED BY <2>5, <2>6, <2>7
<1>11. ASSUME NEW d \in Devices, Post(d) PROVE Rows /\ Phones /\ Posts
  <2>1. Reporter(d) BY <1>11, PostTypes DEF Reporter
  <2>2. Posts BY <1>11, <2>1, PostTypes DEF Posts, Vouched
  <2> QED BY <1>1, <1>4, <1>11, <2>1, <2>2, PostTypes
<1>12. ASSUME NEW d \in Devices, PostTimeout(d) PROVE Rows /\ Phones /\ Posts
  <2>1. Reporter(d) /\ phone[d] \in PhoneType BY <1>12, <1>p, PostTimeoutTypes DEF Reporter
  <2>2. \/ phone'[d].msg = phone[d].msg /\ phone'[d].ok = phone[d].ok
        \/ ~ phone'[d].ok
    BY <1>12, <2>1, PostTimeoutTypes, AfterFields
  <2> QED BY <1>1, <1>3, <1>4, <1>12, <2>1, <2>2, PostTimeoutTypes
<1>13. ASSUME NEW d \in Devices, Restart(d) PROVE Rows /\ Phones /\ Posts
  <2>1. ~ Reporter(d)' /\ \A e \in Devices \ {d} : phone'[e] = phone[e]
    BY <1>13, <1>p, RestartTypes, IdleFields DEF Reporter
  <2> QED BY <1>1, <1>3, <1>4, <1>13, <2>1, RestartTypes
<1>14. ASSUME NEW q \in posts, ReportRead(q) \/ ReportCommit(q) PROVE Rows /\ Phones /\ Posts
  <2>1. /\ q \in PostType /\ sends' = sends
        /\ \A r \in posts' : r \in posts \/ (r.msg = q.msg /\ r.ok = q.ok)
        /\ row' = row \/ row' = [row EXCEPT ![q.msg].st = IF q.ok THEN "SENT" ELSE "FAILED"]
    BY <1>14, ReportTypes
  <2>2. Posts BY <2>1 DEF Posts, Vouched
  <2>3. q.dev \in Devices /\ q.msg \in Messages BY <2>1 DEF PostType
  <2>4. Rows
    <3>1. \A m \in Messages : row'[m].st = "SENT" => row[m].st = "SENT" \/ (m = q.msg /\ q.ok)
      BY <1>p, <2>1, <2>3 DEF RowType
    <3> QED BY <2>1, <3>1 DEF Rows, SentWentOut, Vouched
  <2>5. Phones
    <3>1. CASE phone' = phone BY <1>2, <2>1, <3>1
    <3>2. CASE phone' # phone
      <4>1. phone' = [phone EXCEPT ![q.dev] = AfterMessage(phone[q.dev])]
        BY <1>14, <3>2, ReportTypes
      <4>2. /\ ~ phone'[q.dev].ok
            /\ \A e \in Devices \ {q.dev} : phone'[e] = phone[e]
        BY <1>p, <2>3, <4>1, AfterFields
      <4> QED BY <1>4, <2>1, <2>3, <4>2
    <3> QED BY <3>1, <3>2
  <2> QED BY <2>2, <2>4, <2>5
<1> QED BY <1>5, <1>6, <1>7, <1>8, <1>9, <1>10, <1>11, <1>12, <1>13, <1>14, <1>15, NextSteps

\* A message that says SENT was accepted by a carrier, however many phones held it and
\* however late its result came, doubled or not: the outbox promises nothing it has not.
THEOREM SentIsTrue == Spec => []SentWentOut
<1>1. Init => SentInv
  BY TypeInit, IdleFields DEF Init, SentInv, Vouched, SentWentOut, Reporter
<1>2. SentInv /\ [Next]_vars => SentInv' BY SentStep
<1>3. SentInv => SentWentOut BY DEF SentInv
<1> QED BY <1>1, <1>2, <1>3, PTL DEF Spec
-------------------------------------------------------------------------------
(* A message goes out again only when a result of it could not be reported *)
(* or its row was taken back from a phone or from a later claim.           *)

\* In these two cases nothing is said of a message; they are never forgotten.
Excused(m) == m \in unreported \cup seized

AtHand(m) == \E d \in Devices : Reporter(d) /\ phone[d].msg = m

\* Otherwise one phone at most has it, the one that its row names; a message that waits
\* has not been sent, and one that a phone has only if its result is about to be told.
Proper(m) ==
  /\ sends[m] <= 1
  /\ row[m].st \in {"NONE", "QUEUED"} => sends[m] = 0
  /\ row[m].st = "SENDING" => sends[m] = 0 \/ AtHand(m)
  /\ \A d \in Devices : m \in phone[d].batch =>
       /\ row[m].st \notin {"NONE", "QUEUED"}
       /\ row[m].st = "SENDING" => row[m].dev = d
       /\ sends[m] = 0 \/ (Reporter(d) /\ phone[d].msg = m)
       /\ \A e \in Devices : m \in phone[e].batch => e = d

OnceInv == TypeInv /\ \A m \in Messages : Excused(m) \/ Proper(m)

LEMMA OnceInit == Init => OnceInv
<1> SUFFICES ASSUME Init PROVE OnceInv OBVIOUS
<1>1. \A m \in Messages : Proper(m) BY IdleFields DEF Init, Proper
<1> QED BY <1>1, TypeInit DEF OnceInv

\* Phones that hold what they held, or nothing, and rows that are as they were, or at an
\* end, or that began to wait.
LEMMA ProperKeeps ==
  ASSUME TypeInv, NEW m \in Messages, Proper(m), sends' = sends,
         \/ row'[m].st = row[m].st /\ row'[m].dev = row[m].dev
         \/ row'[m].st \in Final
         \/ row[m].st = "NONE" /\ row'[m].st = "QUEUED",
         \A d \in Devices :
           \/ /\ phone'[d].batch = phone[d].batch
              /\ Reporter(d) <=> Reporter(d)'
              /\ Reporter(d) => phone'[d].msg = phone[d].msg
           \/ phone'[d].batch = {} /\ ~ Reporter(d)
  PROVE  Proper(m)'
<1> Thread BY DEF TypeInv
<1>1. AtHand(m) => AtHand(m)' BY DEF AtHand, Reporter
<1>2. \A d \in Devices : m \in phone'[d].batch =>
        /\ m \in phone[d].batch
        /\ Reporter(d) => Reporter(d)' /\ phone'[d].msg = phone[d].msg
  OBVIOUS
<1> QED BY <1>1, <1>2 DEF Proper, Final

\* A phone has told the result of a message, and goes on with other ones or with none.
LEMMA ProperTold ==
  ASSUME TypeInv, NEW d \in Devices, Reporter(d), NEW m \in Messages, Proper(m),
         phone'[d].batch \subseteq phone[d].batch \ {phone[d].msg}, ~ Reporter(d)',
         \A e \in Devices \ {d} : phone'[e] = phone[e], sends' = sends,
         \/ row'[m].st = row[m].st /\ row'[m].dev = row[m].dev
         \/ row'[m].st \in Final,
         m = phone[d].msg => row'[m].st \notin {"NONE", "QUEUED", "SENDING"}
  PROVE  Proper(m)'
<1> Thread BY DEF TypeInv
<1>1. phone[d].msg \in phone[d].batch BY DEF Thread
<1>2. \A e \in Devices : m \in phone'[e].batch => m \in phone[e].batch /\ (e = d => m # phone[d].msg)
  OBVIOUS
<1>3. \A e \in Devices \ {d} : Reporter(e)' <=> Reporter(e) BY DEF Reporter
<1>4. m # phone[d].msg /\ AtHand(m) => AtHand(m)' BY <1>3 DEF AtHand
<1> QED BY <1>1, <1>2, <1>3, <1>4 DEF Proper, Final

\* A claim gives a phone what waits and what is stuck, and neither is sent or at hand.
LEMMA ProperClaim ==
  ASSUME TypeInv, NEW r \in Requests, ClaimCommit(r), NEW m \in Messages, Proper(m), ~ Excused(m)'
  PROVE  Proper(m)'
<1> TypeOK /\ Thread BY DEF TypeInv
<1>0. PICK d \in Devices : d = claim[r].dev BY ClaimCommitTypes
<1>1. /\ row'[m] = ClaimedRow(r, m) /\ UNCHANGED <<sends, unreported>>
      /\ seized' = seized \cup Seized(r)
      /\ \/ phone' = phone
         \/ /\ phone[d].ph = "wait" /\ phone'[d].batch = Granted(r) /\ ~ Reporter(d)'
            /\ \A e \in Devices \ {d} : phone'[e] = phone[e]
  BY <1>0, ClaimCommitTypes DEF Reporter
<1>2. m \notin Seized(r) BY <1>1 DEF Excused
<1>3. m \in Queue(r) => sends[m] = 0 /\ ~ InHand(m)
  <2>1. CASE m \in Requeued(r)
    <3>1. ~ InHand(m) /\ row[m].st = "SENDING" BY <1>2, <2>1 DEF Seized, Stuck
    <3>2. ~ AtHand(m) BY <3>1 DEF AtHand, InHand, Thread
    <3> QED BY <3>1, <3>2 DEF Proper
  <2>2. CASE m \notin Requeued(r)
    <3> SUFFICES ASSUME m \in Queue(r) PROVE sends[m] = 0 /\ ~ InHand(m) OBVIOUS
    <3>1. row[m].st = "QUEUED" BY <2>2 DEF Queue
    <3> QED BY <3>1 DEF Proper, InHand
  <2> QED BY <2>1, <2>2
<1>4. Requeued(r) \subseteq Queue(r) BY DEF Queue
<1>5. phone' # phone => phone[d].batch = {} /\ ~ Reporter(d) BY <1>1 DEF Thread, Reporter
<1>6. CASE m \in Granted(r)
  <2>1. sends[m] = 0 /\ ~ InHand(m) BY <1>3, <1>6, GrantedQueue
  <2>2. row'[m].st = "SENDING" /\ row'[m].dev = d BY <1>0, <1>1, <1>6, ClaimedShape
  <2>3. \A e \in Devices : m \in phone'[e].batch => e = d BY <1>1, <2>1 DEF InHand
  <2> QED BY <1>1, <2>1, <2>2, <2>3 DEF Proper
<1>7. CASE m \notin Granted(r)
  <2>1. \A e \in Devices : m \in phone'[e].batch => phone'[e] = phone[e] /\ m \in phone[e].batch
    BY <1>1, <1>7
  <2>2. AtHand(m) => AtHand(m)' BY <1>1, <1>5 DEF AtHand, Reporter
  <2>3. CASE m \in Requeued(r) /\ row'[m].st = "QUEUED"
    <3>1. sends[m] = 0 /\ ~ InHand(m) BY <1>3, <1>4, <2>3
    <3>2. \A e \in Devices : m \notin phone'[e].batch BY <2>1, <3>1 DEF InHand
    <3> QED BY <1>1, <2>3, <3>1, <3>2 DEF Proper
  <2>4. CASE row'[m].st = "FAILED" \/ row'[m] = row[m]
    BY <1>1, <2>1, <2>2, <2>4 DEF Proper, Reporter
  <2> QED BY <1>0, <1>1, <1>7, <2>3, <2>4, ClaimedShape
<1> QED BY <1>6, <1>7

\* A phone sends a message that it alone has, and for the first time.
LEMMA ProperSend ==
  ASSUME TypeInv, NEW d \in Devices, Send(d), NEW m \in Messages, Proper(m)
  PROVE  Proper(m)'
<1> TypeOK /\ Thread BY DEF TypeInv
<1>1. /\ phone[d].ph = "send" /\ UNCHANGED row /\ ~ Reporter(d)
      /\ \A e \in Devices \ {d} : phone'[e] = phone[e]
  BY SendShape DEF Reporter
<1>2. PICK n \in phone[d].batch :
        /\ n \in Messages
        /\ sends' = [sends EXCEPT ![n] = @ + 1] \/ sends' = sends
        /\ phone'[d].ph = "report" /\ phone'[d].batch = phone[d].batch /\ phone'[d].msg = n
  BY SendShape
<1>3. Reporter(d)' /\ \A e \in Devices \ {d} : Reporter(e)' <=> Reporter(e)
  BY <1>1, <1>2 DEF Reporter
<1>4. \A e \in Devices : phone'[e].batch = phone[e].batch BY <1>1, <1>2
<1>5. CASE m = n
  <2>1. sends[m] = 0 BY <1>1, <1>2, <1>5 DEF Proper
  <2>2. sends'[m] <= 1 BY <1>2, <2>1 DEF TypeOK
  <2>3. AtHand(m)' BY <1>2, <1>3, <1>5 DEF AtHand
  <2>4. \A e \in Devices : m \in phone[e].batch => e = d BY <1>2, <1>5 DEF Proper
  <2>5. row[m].st \notin {"NONE", "QUEUED"} BY <1>2, <1>5 DEF Proper
  <2> QED BY <1>1, <1>2, <1>3, <1>4, <1>5, <2>2, <2>3, <2>4, <2>5 DEF Proper
<1>6. CASE m # n
  <2>1. sends'[m] = sends[m] BY <1>2, <1>6 DEF TypeOK
  <2>2. AtHand(m) => AtHand(m)' BY <1>1, <1>3 DEF AtHand
  <2>3. \A e \in Devices : Reporter(e) /\ phone[e].msg = m => Reporter(e)' /\ phone'[e].msg = m
    BY <1>1, <1>3
  <2> QED BY <1>1, <1>4, <2>1, <2>2, <2>3 DEF Proper
<1> QED BY <1>5, <1>6

LEMMA OnceStep ==
  ASSUME OnceInv, [Next]_vars PROVE OnceInv'
<1> TypeInv /\ TypeOK /\ Thread BY DEF OnceInv, TypeInv
<1>0. TypeInv' BY TypeStep
<1>p. phone \in [Devices -> PhoneType] /\ row \in [Messages -> RowType] BY DEF TypeOK
<1> SUFFICES ASSUME NEW m \in Messages, ~ Excused(m)' PROVE Proper(m)' BY <1>0 DEF OnceInv
<1>e. ~ Excused(m) => Proper(m) BY DEF OnceInv
<1>k. ASSUME UNCHANGED <<row, phone, sends, past>> PROVE Proper(m)'
  <2>1. Proper(m) BY <1>e, <1>k DEF Excused, past
  <2> QED BY <1>k, <2>1, ProperKeeps DEF Reporter
<1>1. CASE UNCHANGED vars BY <1>1, <1>k DEF vars
<1>2. CASE TableStep
  <2>1. UNCHANGED <<phone, sends, past>> BY <1>2, TableTypes
  <2>2. Proper(m) BY <1>e, <2>1 DEF Excused, past
  <2>3. PICK n \in Messages : \/ Enqueue(n) \/ CancelRead(n) \/ CancelCommit(n)
                              \/ Toggle(n) \/ GoStale(n) \/ GrowOld(n)
    BY <1>2 DEF TableStep
  <2>4. \/ row' = row
        \/ row[n].st = "NONE" /\ row' = [row EXCEPT ![n].st = "QUEUED"]
        \/ row' = [row EXCEPT ![n].st = "CANCELED"]
        \/ row' = [row EXCEPT ![n].stale = TRUE] \/ row' = [row EXCEPT ![n].old = TRUE]
    BY <2>3 DEF Enqueue, CancelRead, CancelCommit, Toggle, GoStale, GrowOld
  <2>5. \/ row'[m].st = row[m].st /\ row'[m].dev = row[m].dev
        \/ row'[m].st \in Final
        \/ row[m].st = "NONE" /\ row'[m].st = "QUEUED"
    BY <1>p, <2>4 DEF RowType, Final
  <2> QED BY <2>1, <2>2, <2>5, ProperKeeps DEF Reporter
<1>3. ASSUME NEW d \in Devices, NEW r \in Requests, Poll(d, r) PROVE Proper(m)'
  <2>1. /\ UNCHANGED <<row, sends, past>> /\ ~ Reporter(d) /\ ~ Reporter(d)'
        /\ phone'[d].batch = phone[d].batch
        /\ \A e \in Devices \ {d} : phone'[e] = phone[e]
    BY <1>3, PollTypes DEF Reporter
  <2>2. Proper(m) BY <1>e, <2>1 DEF Excused, past
  <2> QED BY <2>1, <2>2, ProperKeeps DEF Reporter
<1>4. ASSUME NEW d \in Devices, phone' = [phone EXCEPT ![d] = Idle], ~ Reporter(d),
             UNCHANGED <<row, sends, past>>
      PROVE  Proper(m)'
  <2>1. Proper(m) BY <1>e, <1>4 DEF Excused, past
  <2>2. phone'[d].batch = {} /\ \A e \in Devices \ {d} : phone'[e] = phone[e]
    BY <1>4, <1>p, IdleFields
  <2> QED BY <1>4, <2>1, <2>2, ProperKeeps DEF Reporter
<1>5. ASSUME NEW d \in Devices, PollTimeout(d) PROVE Proper(m)'
  BY <1>4, <1>5, PollTimeoutTypes DEF Reporter
<1>6. ASSUME NEW r \in Requests, ClaimRead(r) PROVE Proper(m)' BY <1>6, <1>k, ClaimReadTypes
<1>7. ASSUME NEW r \in Requests, ClaimCommit(r) PROVE Proper(m)'
  <2>1. Proper(m) BY <1>e, <1>7, ClaimCommitTypes DEF Excused
  <2> QED BY <1>7, <2>1, ProperClaim
<1>8. ASSUME NEW d \in Devices, Send(d) PROVE Proper(m)'
  <2>1. Proper(m) BY <1>e, <1>8, SendShape DEF Excused, past
  <2> QED BY <1>8, <2>1, ProperSend
<1>9. ASSUME NEW d \in Devices, Reporter(d), Reporter(d)', phone'[d].msg = phone[d].msg,
             phone'[d].batch = phone[d].batch, \A e \in Devices \ {d} : phone'[e] = phone[e],
             UNCHANGED <<row, sends, past>>
      PROVE  Proper(m)'
  <2>1. Proper(m) BY <1>e, <1>9 DEF Excused, past
  <2> QED BY <1>9, <2>1, ProperKeeps DEF Reporter
<1>10. ASSUME NEW d \in Devices, Post(d) PROVE Proper(m)'
  BY <1>9, <1>10, PostTypes DEF Reporter
<1>11. ASSUME NEW d \in Devices, Reporter(d), ~ Reporter(d)',
              phone'[d].batch \subseteq phone[d].batch \ {phone[d].msg},
              \A e \in Devices \ {d} : phone'[e] = phone[e], UNCHANGED <<row, sends, seized>>,
              unreported' = unreported \cup {phone[d].msg}
       PROVE  Proper(m)'
  <2>1. Proper(m) /\ m # phone[d].msg BY <1>e, <1>11 DEF Excused
  <2> QED BY <1>11, <2>1, ProperTold
<1>12. ASSUME NEW d \in Devices, PostTimeout(d) PROVE Proper(m)'
  <2>1. Reporter(d) /\ UNCHANGED <<row, sends, seized>> /\ phone[d] \in PhoneType
        /\ \A e \in Devices \ {d} : phone'[e] = phone[e]
    BY <1>12, <1>p, PostTimeoutTypes DEF Reporter
  <2>2. CASE phone'[d] = AfterMessage(phone[d]) /\ unreported' = unreported \cup {phone[d].msg}
    <3>1. phone'[d].batch = phone[d].batch \ {phone[d].msg} /\ ~ Reporter(d)'
      BY <2>1, <2>2, AfterFields DEF Reporter
    <3> QED BY <1>11, <2>1, <2>2, <3>1
  <2>3. CASE ~ (phone'[d] = AfterMessage(phone[d]) /\ unreported' = unreported \cup {phone[d].msg})
    BY <1>9, <1>12, <2>1, <2>3, PostTimeoutTypes DEF Reporter, past
  <2> QED BY <2>2, <2>3
<1>13. ASSUME NEW d \in Devices, Restart(d) PROVE Proper(m)'
  <2>1. /\ phone' = [phone EXCEPT ![d] = Idle] /\ UNCHANGED <<row, sends, seized>>
        /\ unreported' = IF Reporter(d) THEN unreported \cup {phone[d].msg} ELSE unreported
    BY <1>13, RestartTypes
  <2>2. CASE Reporter(d)
    <3>1. /\ phone'[d].batch = {} /\ ~ Reporter(d)'
          /\ \A e \in Devices \ {d} : phone'[e] = phone[e]
      BY <1>p, <2>1, IdleFields DEF Reporter
    <3> QED BY <1>11, <2>1, <2>2, <3>1
  <2>3. CASE ~ Reporter(d) BY <1>4, <2>1, <2>3 DEF past
  <2> QED BY <2>2, <2>3
<1>14. ASSUME NEW q \in posts, ReportRead(q) \/ ReportCommit(q) PROVE Proper(m)'
  <2>1. /\ q.dev \in Devices /\ q.msg \in Messages /\ UNCHANGED <<sends, past>>
        /\ \/ row' = [row EXCEPT ![q.msg].st = IF q.ok THEN "SENT" ELSE "FAILED"]
           \/ /\ row' = row
              /\ phone' = phone \/ row[q.msg].st # "SENDING" \/ row[q.msg].dev # q.dev
        /\ \/ phone' = phone
           \/ /\ phone[q.dev].ph = "await" /\ phone[q.dev].msg = q.msg
              /\ phone' = [phone EXCEPT ![q.dev] = AfterMessage(phone[q.dev])]
    BY <1>14, ReportTypes DEF PostType
  <2>2. Proper(m) BY <1>e, <2>1 DEF Excused, past
  <2>3. \/ row'[m] = row[m]
        \/ m = q.msg /\ row'[m].st \in {"SENT", "FAILED"}
    BY <1>p, <2>1 DEF RowType
  <2>4. CASE phone' = phone
    BY <2>1, <2>2, <2>3, <2>4, ProperKeeps DEF Reporter, Final
  <2>5. CASE phone' # phone
    <3>1. PICK d \in Devices : d = q.dev BY <2>1
    <3>2. /\ Reporter(d) /\ phone[d].msg = q.msg /\ phone[d] \in PhoneType
          /\ phone' = [phone EXCEPT ![d] = AfterMessage(phone[d])]
      BY <1>p, <2>1, <2>5, <3>1 DEF Reporter
    <3>3. /\ phone'[d].batch = phone[d].batch \ {phone[d].msg} /\ ~ Reporter(d)'
          /\ \A e \in Devices \ {d} : phone'[e] = phone[e]
      BY <1>p, <3>2, AfterFields DEF Reporter
    <3>4. m = phone[d].msg => row'[m].st \in {"SENT", "FAILED", "CANCELED"}
      <4> SUFFICES ASSUME m = q.msg PROVE row'[m].st \in {"SENT", "FAILED", "CANCELED"}
        BY <3>2
      <4>1. m \in phone[d].batch BY <3>2 DEF Thread
      <4>2. /\ row[m].st \notin {"NONE", "QUEUED"}
            /\ row[m].st = "SENDING" => row[m].dev = d
        BY <2>2, <4>1 DEF Proper
      <4>3. CASE row' = row
        <5>1. row[m].st # "SENDING" BY <2>1, <2>5, <3>1, <4>2, <4>3, <1>p DEF RowType
        <5> QED BY <1>p, <4>2, <4>3, <5>1 DEF RowType
      <4>4. CASE row' # row BY <1>p, <2>1, <4>4 DEF RowType
      <4> QED BY <4>3, <4>4
    <3> QED BY <2>1, <2>2, <2>3, <3>2, <3>3, <3>4, ProperTold DEF Final
  <2> QED BY <2>4, <2>5
<1> QED BY <1>1, <1>2, <1>3, <1>5, <1>6, <1>7, <1>8, <1>10, <1>12, <1>13, <1>14, NextSteps

\* For any number of phones and of claims at a time, whatever is lost or late and however
\* often a phone restarts, a message is sent again only when a phone could not report an
\* earlier attempt or its row was requeued under a phone or a later claim.
THEOREM ResentWhenSeized == Spec => []ResentOnlyIfSeized
<1>1. OnceInv /\ [Next]_vars => OnceInv' BY OnceStep
<1>2. OnceInv => ResentOnlyIfSeized
  BY DEF OnceInv, Excused, Proper, ResentOnlyIfSeized, TypeInv, TypeOK
<1> QED BY OnceInit, <1>1, <1>2, PTL DEF Spec

===============================================================================
