------------------------- MODULE DepositDetector_proofs -------------------------
(***************************************************************************)
(* Theorems about DepositDetector for any deposits, any finite number of   *)
(* threads, any bounds of the remembered keys and the log, and any numbers *)
(* of notices, openings and deaths.                                        *)
(***************************************************************************)
EXTENDS DepositDetector, FiniteSetTheorems, TLAPS

\* A thread at work has a deposit and a notice.
Busy == \A t \in Threads : thread[t].phase # "idle" =>
          thread[t].dep \in Deposits /\ thread[t].entry \in Entries
TypeInv == TypeOK /\ Busy

-------------------------------------------------------------------------------
(* Sequences and rows.                                                     *)

\* A sequence of members of S stays one, and within its bound, if an element is
\* pushed, and then has it as a member.
LEMMA PushType ==
  ASSUME NEW S, NEW s \in Seq(S), NEW e \in S, NEW n \in Nat \ {0}, Len(s) <= n
  PROVE  /\ Push(s, e, n) \in Seq(S) /\ Len(Push(s, e, n)) <= n
         /\ e \in Members(Push(s, e, n))
<1>1. CASE Len(s) < n
  <2>1. Push(s, e, n) = Append(s, e) BY <1>1 DEF Push
  <2>2. Append(s, e)[Len(s) + 1] = e /\ Len(Append(s, e)) = Len(s) + 1 OBVIOUS
  <2> QED BY <1>1, <2>1, <2>2 DEF Members
<1>2. CASE ~(Len(s) < n)
  <2>1. s # << >> /\ Len(s) \in Nat
    <3>1. Len(s) \in Nat /\ Len(s) >= 1 BY <1>2
    <3>2. Len(<< >>) = 0 OBVIOUS
    <3> QED BY <3>1, <3>2
  <2>2. Tail(s) \in Seq(S) /\ Len(Tail(s)) = Len(s) - 1 BY <2>1, <1>2
  <2>3. Push(s, e, n) = Append(Tail(s), e) BY <1>2 DEF Push
  <2>4. Append(Tail(s), e)[Len(s)] = e /\ Len(Append(Tail(s), e)) = Len(s) BY <2>1, <2>2
  <2>5. Len(s) >= 1 /\ Len(s) <= n BY <2>1
  <2>6. Append(Tail(s), e) \in Seq(S) BY <2>2
  <2>7. e \in Members(Append(Tail(s), e)) BY <2>4, <2>5 DEF Members
  <2> QED BY <2>3, <2>4, <2>5, <2>6, <2>7
<1> QED BY <1>1, <1>2

\* Pushing adds no other member.
LEMMA PushMembers ==
  ASSUME NEW S, NEW s \in Seq(S), NEW e \in S, NEW n \in Nat \ {0}, NEW x \in Members(Push(s, e, n))
  PROVE  x = e \/ x \in Members(s)
<1>1. CASE Len(s) < n
  <2>1. Push(s, e, n) = Append(s, e) BY <1>1 DEF Push
  <2>2. PICK i \in 1..(Len(s) + 1) : x = Append(s, e)[i] BY <2>1 DEF Members
  <2>3. i = Len(s) + 1 \/ i \in 1..Len(s) BY <2>2
  <2> QED BY <2>2, <2>3 DEF Members
<1>2. CASE ~(Len(s) < n)
  <2>1. s # << >> /\ Len(s) \in Nat
    <3>1. Len(s) \in Nat /\ Len(s) >= 1 BY <1>2
    <3>2. Len(<< >>) = 0 OBVIOUS
    <3> QED BY <3>1, <3>2
  <2>2. Tail(s) \in Seq(S) /\ Len(Tail(s)) = Len(s) - 1 BY <2>1
  <2>3. Push(s, e, n) = Append(Tail(s), e) BY <1>2 DEF Push
  <2>4. PICK i \in 1..Len(s) : x = Append(Tail(s), e)[i]
    <3>1. Len(Append(Tail(s), e)) = Len(s) BY <2>1, <2>2
    <3> QED BY <2>3, <3>1 DEF Members
  <2>5. CASE i = Len(s)
    <3>1. Append(Tail(s), e)[Len(s)] = e BY <2>1, <2>2
    <3> QED BY <2>4, <2>5, <3>1
  <2>6. CASE i \in 1..(Len(s) - 1)
    <3>1. x = Tail(s)[i] BY <2>2, <2>4, <2>6
    <3>2. x = s[i + 1] /\ i + 1 \in 1..Len(s) BY <2>1, <2>6, <3>1
    <3> QED BY <3>2 DEF Members
  <2> QED BY <2>1, <2>4, <2>5, <2>6
<1> QED BY <1>1, <1>2

\* The members of a sequence are elements of its set.
LEMMA MembersType ==
  ASSUME NEW S, NEW s \in Seq(S) PROVE Members(s) \subseteq S
BY DEF Members

LEMMA EmptyQueue == << >> \in Queues
<1>1. << >> \in Seq(Entries) /\ Len(<< >>) = 0 OBVIOUS
<1> QED BY <1>1, DetectorAssumption DEF Queues

\* A thread that goes on keeps its type; so does a counter of a deposit.
LEMMA GoType ==
  ASSUME TypeInv, NEW t \in Threads, NEW p \in Phases \ {"idle"}, thread[t].phase # "idle", Go(t, p)
  PROVE  thread' \in [Threads -> Thread] /\ Busy'
<1>1. [thread[t] EXCEPT !.phase = p] \in Thread BY DEF TypeInv, TypeOK, Thread
<1>2. thread' = [thread EXCEPT ![t] = [thread[t] EXCEPT !.phase = p]] BY DEF Go, TypeInv, TypeOK
<1>3. thread' \in [Threads -> Thread] BY <1>1, <1>2 DEF TypeInv, TypeOK
<1>4. ASSUME NEW u \in Threads PROVE thread'[u].dep = thread[u].dep /\ thread'[u].entry = thread[u].entry
                                     /\ (thread'[u].phase # "idle" => thread[u].phase # "idle")
  BY <1>2, <1>4 DEF TypeInv, TypeOK, Thread
<1> QED BY <1>3, <1>4 DEF Busy, TypeInv, Entries

\* A thread that ends does so, too.
LEMMA IdleType ==
  ASSUME TypeInv, NEW t \in Threads, thread' = [thread EXCEPT ![t] = Idle]
  PROVE  thread' \in [Threads -> Thread] /\ Busy'
<1>1. Idle \in Thread BY EmptyQueue, DetectorAssumption DEF Idle, Thread, Phases
<1>2. thread' \in [Threads -> Thread] BY <1>1 DEF TypeInv, TypeOK
<1>3. ASSUME NEW u \in Threads, thread'[u].phase # "idle" PROVE thread'[u] = thread[u]
  BY <1>3 DEF TypeInv, TypeOK, Idle
<1> QED BY <1>2, <1>3 DEF Busy, TypeInv, Entries

\* So does a thread whose row becomes another one of a thread at work.
LEMMA RowType ==
  ASSUME TypeInv, NEW t \in Threads, NEW row \in Thread, thread' = [thread EXCEPT ![t] = row],
         row.dep \in Deposits, row.entry \in Entries
  PROVE  thread' \in [Threads -> Thread] /\ Busy'
<1>1. thread' \in [Threads -> Thread] BY DEF TypeInv, TypeOK
<1>2. ASSUME NEW u \in Threads, thread'[u].phase # "idle"
      PROVE  thread'[u].dep \in Deposits /\ thread'[u].entry \in Entries
  <2>1. CASE u = t BY <2>1 DEF TypeInv, TypeOK
  <2>2. CASE u # t BY <1>2, <2>2 DEF TypeInv, TypeOK, Busy
  <2> QED BY <2>1, <2>2
<1> QED BY <1>1, <1>2 DEF Busy, Entries

\* How the row of a thread changes when it goes on after its log.
LEMMA ContinueRow ==
  ASSUME TypeInv, NEW t \in Threads, Continue(t)
  PROVE  /\ \A u \in Threads \ {t} : thread'[u] = thread[u]
         /\ thread'[t].queue = << >>
         /\ \/ /\ thread'[t] = [thread[t] EXCEPT !.phase = "commit", !.queue = << >>]
               /\ thread'[t].phase = "commit" /\ thread'[t].dep = thread[t].dep
               /\ thread'[t].result = thread[t].result
               /\ thread[t].result \in {"refused", "failed"}
            \/ /\ thread'[t] = Idle /\ thread'[t].phase = "idle" /\ thread'[t].result = "none"
               /\ thread[t].result \notin {"refused", "failed"}
<1> DEFINE row == IF thread[t].result \in {"refused", "failed"}
                    THEN [thread[t] EXCEPT !.phase = "commit", !.queue = << >>] ELSE Idle
<1>1. thread \in [Threads -> Thread] BY DEF TypeInv, TypeOK
<1>2. thread' = [thread EXCEPT ![t] = row] BY <1>1 DEF Continue
<1>3. /\ row.queue = << >>
      /\ \/ /\ row = [thread[t] EXCEPT !.phase = "commit", !.queue = << >>]
            /\ row.phase = "commit" /\ row.dep = thread[t].dep
            /\ row.result = thread[t].result /\ thread[t].result \in {"refused", "failed"}
         \/ /\ row = Idle /\ row.phase = "idle" /\ row.result = "none"
            /\ thread[t].result \notin {"refused", "failed"}
  <2>1. thread[t] \in Thread BY <1>1
  <2> QED BY <2>1 DEF Idle, Thread
<1> HIDE DEF row
<1>4. thread'[t] = row /\ \A u \in Threads \ {t} : thread'[u] = thread[u] BY <1>1, <1>2
<1> QED BY <1>3, <1>4

LEMMA ContinueType ==
  ASSUME TypeInv, NEW t \in Threads, thread[t].phase # "idle", Continue(t)
  PROVE  thread' \in [Threads -> Thread] /\ Busy'
<1>1. thread \in [Threads -> Thread] /\ thread[t].dep \in Deposits /\ thread[t].entry \in Entries
  BY DEF TypeInv, TypeOK, Busy
<1>2. CASE thread[t].result \in {"refused", "failed"}
  <2> DEFINE row == [thread[t] EXCEPT !.phase = "commit", !.queue = << >>]
  <2>1. row \in Thread /\ row.dep = thread[t].dep /\ row.entry = thread[t].entry
    BY <1>1, EmptyQueue DEF Thread, Phases
  <2>2. thread' = [thread EXCEPT ![t] = row] BY <1>1, <1>2 DEF Continue
  <2> HIDE DEF row
  <2> QED BY <1>1, <2>1, <2>2, RowType
<1>3. CASE thread[t].result \notin {"refused", "failed"}
  <2>1. thread' = [thread EXCEPT ![t] = Idle] BY <1>1, <1>3 DEF Continue
  <2> QED BY <2>1, IdleType
<1> QED BY <1>2, <1>3

\* How it changes when enqueueLog reads the queue.
LEMMA PutRow ==
  ASSUME TypeInv, NEW t \in Threads, Enqueue(t)
  PROVE  /\ \A u \in Threads \ {t} : thread'[u] = thread[u]
         /\ thread[t].phase = "enqueue" /\ thread'[t].phase = "put"
         /\ thread'[t].dep = thread[t].dep /\ thread'[t].entry = thread[t].entry
         /\ thread'[t].result = thread[t].result /\ thread'[t].queue = logQueue
         /\ thread' \in [Threads -> Thread] /\ Busy'
<1> DEFINE row == [thread[t] EXCEPT !.phase = "put", !.queue = logQueue]
<1>1. thread \in [Threads -> Thread] /\ logQueue \in Queues /\ thread[t].phase = "enqueue"
  BY DEF TypeInv, TypeOK, Enqueue, In
<1>2. thread' = [thread EXCEPT ![t] = row] BY <1>1 DEF Enqueue
<1>3. /\ row \in Thread /\ row.phase = "put" /\ row.dep = thread[t].dep
      /\ row.entry = thread[t].entry /\ row.result = thread[t].result /\ row.queue = logQueue
  BY <1>1 DEF Thread, Phases
<1> HIDE DEF row
<1>4. thread[t].dep \in Deposits /\ thread[t].entry \in Entries BY <1>1 DEF TypeInv, Busy
<1>5. thread'[t] = row /\ \A u \in Threads \ {t} : thread'[u] = thread[u] BY <1>1, <1>2
<1> QED BY <1>1, <1>2, <1>3, <1>4, <1>5, RowType

LEMMA DoubtType ==
  ASSUME TypeInv, NEW d, NEW b, Doubt(d, b) PROVE doubts' \in [Deposits -> Nat]
<1>1. Count(b) \in Nat BY DEF Count
<1>2. doubts \in [Deposits -> Nat] BY DEF TypeInv, TypeOK
<1>3. \A x \in Deposits : doubts[x] + Count(b) \in Nat BY <1>1, <1>2
<1>4. doubts' = [doubts EXCEPT ![d] = doubts[d] + Count(b)] BY DEF Doubt
<1>5. CASE d \in Deposits BY <1>2, <1>3, <1>4, <1>5
<1>6. CASE d \notin Deposits BY <1>2, <1>4, <1>6
<1> QED BY <1>5, <1>6

\* What recording a key does to the keys and to the reasons.
LEMMA CommitType ==
  ASSUME TypeInv, NEW d \in Deposits, CommitSeen(d)
  PROVE  /\ seen' \in Seq(Deposits) /\ Len(seen') <= MaxSeen
         /\ d \in Members(seen') /\ doubts' \in [Deposits -> Nat]
<1>1. seen \in Seq(Deposits) /\ Len(seen) <= MaxSeen /\ MaxSeen \in Nat \ {0}
  BY DetectorAssumption DEF TypeInv, TypeOK
<1>2. seen' \in Seq(Deposits) /\ Len(seen') <= MaxSeen /\ d \in Members(seen')
  BY <1>1, PushType DEF CommitSeen
<1>3. \A b : Count(b) \in Nat BY DEF Count
<1>4. doubts' \in [Deposits -> Nat] BY <1>3 DEF CommitSeen, TypeInv, TypeOK
<1> QED BY <1>2, <1>4

LEMMA ShowType ==
  ASSUME TypeInv, NEW es, Show(es) PROVE shown' \in [Entries -> Nat]
<1>1. \A b : Count(b) \in Nat BY DEF Count
<1> QED BY <1>1 DEF Show, TypeInv, TypeOK

-------------------------------------------------------------------------------
(* Type correctness, by the actions.                                       *)

LEMMA InitType == Init => TypeInv
<1> SUFFICES ASSUME Init PROVE TypeInv OBVIOUS
<1> USE DetectorAssumption
<1>1. Idle \in Thread BY EmptyQueue DEF Idle, Thread, Phases
<1>2. thread \in [Threads -> Thread] BY <1>1 DEF Init
<1>3. notices \in 0..MaxNotices /\ opens \in Nat /\ kills \in Nat BY DEF Init
<1>4. << >> \in Seq(Deposits) /\ Len(<< >>) = 0 OBVIOUS
<1>5. disk \in [seen : Seq(Deposits), logs : Queues] BY <1>4, EmptyQueue DEF Init
<1>6. TypeOK BY <1>2, <1>3, <1>4, <1>5, EmptyQueue DEF Init, TypeOK
<1>7. Busy BY DEF Init, Busy, Idle
<1> QED BY <1>6, <1>7 DEF TypeInv

\* The steps of a thread.
LEMMA ThreadType ==
  ASSUME TypeInv, NEW t \in Threads, Runs(t) \/ Serve(t) \/ \E d \in Deposits : Arrive(t, d)
  PROVE  TypeInv'
<1>a. \A p \in {"log", "sent", "enqueue", "commit"} : p \in Phases \ {"idle"} BY DEF Phases
<1>b. thread[t].phase # "idle" => thread[t].dep \in Deposits /\ thread[t].entry \in Entries
  BY DEF TypeInv, Busy
<1>1. CASE Ignore(t)
  <2>1. thread[t].phase # "idle" BY <1>1 DEF Ignore, In
  <2>2. thread' \in [Threads -> Thread] /\ Busy' BY <1>1, <1>a, <2>1, GoType, IdleType DEF Ignore
  <2> QED BY <1>1, <2>2 DEF Ignore, TypeInv, TypeOK, prefs, server, screen, history
<1>2. CASE Process(t)
  <2>1. thread[t].phase # "idle" BY <1>2 DEF Process, In
  <2>2. thread' \in [Threads -> Thread] /\ Busy' BY <1>2, <1>a, <2>1, GoType DEF Process
  <2>3. doubts' \in [Deposits -> Nat]
    <3>1. CASE UNCHANGED doubts BY <3>1 DEF TypeInv, TypeOK
    <3>2. CASE Doubt(thread[t].dep, Overlaps(t)) BY <3>2, DoubtType
    <3> QED BY <1>2, <3>1, <3>2 DEF Process
  <2> QED BY <1>2, <2>2, <2>3 DEF Process, TypeInv, TypeOK, prefs, server, screen
<1>3. CASE Heard(t)
  <2>1. thread[t].phase # "idle" BY <1>3 DEF Heard, In
  <2>2. thread' \in [Threads -> Thread] /\ Busy' BY <1>3, <1>a, <2>1, GoType DEF Heard
  <2>3. doubts' \in [Deposits -> Nat] /\ seen' \in Seq(Deposits) /\ Len(seen') <= MaxSeen
    <3>1. CASE UNCHANGED <<seen, doubts>> BY <3>1 DEF TypeInv, TypeOK
    <3>2. CASE CommitSeen(thread[t].dep) BY <3>2, <1>b, <2>1, CommitType
    <3> QED BY <1>3, <3>1, <3>2 DEF Heard
  <2> QED BY <1>3, <2>2, <2>3 DEF Heard, TypeInv, TypeOK, server, screen
<1>4. CASE GiveUp(t)
  <2>1. PICK b \in BOOLEAN : thread[t].phase # "idle" /\ Forget(t, b) BY <1>4 DEF GiveUp, In
  <2>2. [thread[t] EXCEPT !.phase = "log", !.result = "none"] \in Thread
    BY DEF TypeInv, TypeOK, Thread, Phases
  <2>3. thread' = [thread EXCEPT ![t] = [thread[t] EXCEPT !.phase = "log", !.result = "none"]]
    BY <2>1 DEF Forget, TypeInv, TypeOK
  <2>4. thread' \in [Threads -> Thread] BY <2>2, <2>3 DEF TypeInv, TypeOK
  <2>5. ASSUME NEW u \in Threads, thread'[u].phase # "idle"
        PROVE  thread'[u].dep \in Deposits /\ thread'[u].entry \in Entries
    <3>1. thread'[u].dep = thread[u].dep /\ thread'[u].entry = thread[u].entry /\ thread[u].phase # "idle"
      BY <2>1, <2>3, <2>5 DEF TypeInv, TypeOK, Thread
    <3> QED BY <3>1 DEF TypeInv, Busy
  <2>6. Busy' BY <2>5 DEF Busy, Entries
  <2>7. doubts' \in [Deposits -> Nat] BY <2>1, DoubtType DEF Forget
  <2>8. late' \in [Deposits -> Nat]
    <3>1. late \in [Deposits -> Nat] /\ thread[t].dep \in Deposits BY <1>b, <2>1 DEF TypeInv, TypeOK
    <3>2. late[thread[t].dep] + Count(b) \in Nat BY <3>1 DEF Count
    <3>3. late' = [late EXCEPT ![thread[t].dep] = late[thread[t].dep] + Count(b)] BY <2>1 DEF Forget
    <3> QED BY <3>1, <3>2, <3>3
  <2> QED BY <2>1, <2>4, <2>6, <2>7, <2>8 DEF Forget, TypeInv, TypeOK, prefs, screen
<1>5. CASE LogEntry(t)
  <2>1. thread[t].phase # "idle" BY <1>5 DEF LogEntry, In
  <2>2. thread' \in [Threads -> Thread] /\ Busy'
    BY <1>5, <1>a, <2>1, GoType, ContinueType DEF LogEntry
  <2>3. shown' \in [Entries -> Nat]
    <3>1. CASE UNCHANGED shown BY <3>1 DEF TypeInv, TypeOK
    <3>2. CASE Show(<<thread[t].entry>>) BY <3>2, ShowType
    <3> QED BY <1>5, <3>1, <3>2 DEF LogEntry
  <2> QED BY <1>5, <2>2, <2>3 DEF LogEntry, TypeInv, TypeOK, prefs, server, history
<1>6. CASE Enqueue(t)
  <2>1. thread' \in [Threads -> Thread] /\ Busy' BY <1>6, PutRow
  <2> QED BY <1>6, <2>1 DEF Enqueue, TypeInv, TypeOK, prefs, server, screen, history
<1>e. CASE EnqueueWrite(t)
  <2>1. thread[t].phase # "idle" BY <1>e DEF EnqueueWrite, In
  <2>2. thread' \in [Threads -> Thread] /\ Busy' BY <1>e, <2>1, ContinueType DEF EnqueueWrite
  <2>3. /\ thread[t].queue \in Seq(Entries) /\ Len(thread[t].queue) <= MaxLog
        /\ MaxLog \in Nat \ {0} /\ thread[t].entry \in Entries
    BY <1>b, <2>1, DetectorAssumption DEF TypeInv, TypeOK, Thread, Queues
  <2>4. logQueue' \in Queues
    BY <1>e, <2>3, PushType DEF EnqueueWrite, Queues
  <2>5. replayed' \subseteq Entries
    <3>1. Members(thread[t].queue) \subseteq Entries BY <2>3, MembersType
    <3> QED BY <1>e, <3>1 DEF EnqueueWrite, TypeInv, TypeOK
  <2> QED BY <1>e, <2>2, <2>4, <2>5 DEF EnqueueWrite, TypeInv, TypeOK, server, screen
<1>7. CASE CommitRefused(t)
  <2>1. thread[t].phase # "idle" BY <1>7 DEF CommitRefused, In
  <2>2. thread' \in [Threads -> Thread] /\ Busy' BY <1>7, IdleType DEF CommitRefused
  <2>3. doubts' \in [Deposits -> Nat] /\ seen' \in Seq(Deposits) /\ Len(seen') <= MaxSeen
    BY <1>7, <1>b, <2>1, CommitType DEF CommitRefused
  <2> QED BY <1>7, <2>2, <2>3 DEF CommitRefused, TypeInv, TypeOK, server, screen
<1>8. CASE Serve(t)
  <2>1. PICK a \in Answers :
          /\ registered' = [registered EXCEPT ![thread[t].dep] =
               registered[thread[t].dep] + Count(a \in {"ok", "failed"})]
          /\ refused' = IF a = "refused" THEN refused \cup {thread[t].dep} ELSE refused
          /\ thread' = [thread EXCEPT ![t] = [thread[t] EXCEPT !.phase = "answered", !.result = a]]
    BY <1>8 DEF Serve, TypeInv, TypeOK
  <2>2. thread[t].phase # "idle" BY <1>8 DEF Serve, In
  <2>3. [thread[t] EXCEPT !.phase = "answered", !.result = a] \in Thread
    BY DEF TypeInv, TypeOK, Thread, Phases
  <2>4. thread' \in [Threads -> Thread] BY <2>1, <2>3 DEF TypeInv, TypeOK
  <2>5. ASSUME NEW u \in Threads, thread'[u].phase # "idle"
        PROVE  thread'[u].dep \in Deposits /\ thread'[u].entry \in Entries
    <3>1. thread'[u].dep = thread[u].dep /\ thread'[u].entry = thread[u].entry /\ thread[u].phase # "idle"
      BY <2>1, <2>2, <2>5 DEF TypeInv, TypeOK, Thread
    <3> QED BY <3>1 DEF TypeInv, Busy
  <2>6. Busy' BY <2>5 DEF Busy, Entries
  <2>7. registered' \in [Deposits -> Nat] /\ refused' \subseteq Deposits
    <3>1. registered \in [Deposits -> Nat] /\ thread[t].dep \in Deposits /\ refused \subseteq Deposits
      BY <1>b, <2>2 DEF TypeInv, TypeOK
    <3>2. registered[thread[t].dep] + Count(a \in {"ok", "failed"}) \in Nat BY <3>1 DEF Count
    <3> QED BY <2>1, <3>1, <3>2
  <2> QED BY <1>8, <2>4, <2>6, <2>7 DEF Serve, TypeInv, TypeOK, prefs, screen, history
<1>9. ASSUME NEW d \in Deposits, Arrive(t, d) PROVE TypeInv'
  <2>1. notices \in 0..MaxNotices /\ notices > 0 /\ MaxNotices \in Nat
    BY <1>9, DetectorAssumption DEF Arrive, TypeInv, TypeOK
  <2> DEFINE row == [Idle EXCEPT !.phase = "begun", !.dep = d, !.entry = notices]
  <2>2. row \in Thread /\ row.dep = d /\ row.entry = notices
    BY <2>1, EmptyQueue DEF Idle, Thread, Phases
  <2>3. thread' = [thread EXCEPT ![t] = row] BY <1>9 DEF Arrive
  <2> HIDE DEF row
  <2>4. thread' \in [Threads -> Thread] BY <2>2, <2>3 DEF TypeInv, TypeOK
  <2>5. ASSUME NEW u \in Threads, thread'[u].phase # "idle"
        PROVE  thread'[u].dep \in Deposits /\ thread'[u].entry \in Entries
    <3>1. CASE u = t BY <2>1, <2>2, <2>3, <3>1 DEF TypeInv, TypeOK, Entries
    <3>2. CASE u # t BY <2>3, <2>5, <3>2 DEF TypeInv, TypeOK, Busy
    <3> QED BY <3>1, <3>2
  <2>6. Busy' BY <2>5 DEF Busy, Entries
  <2>7. notices' \in 0..MaxNotices
    <3>1. notices' = notices - 1 BY <1>9 DEF Arrive
    <3> QED BY <2>1, <3>1
  <2> QED BY <1>9, <2>4, <2>6, <2>7 DEF Arrive, TypeInv, TypeOK, prefs, server, screen, history
<1> QED BY <1>1, <1>2, <1>3, <1>4, <1>5, <1>6, <1>e, <1>7, <1>8, <1>9 DEF Runs

\* The steps of the network, the application and its process.
LEMMA WorldType ==
  ASSUME TypeInv, Application \/ Kill \/ (\E d \in Deposits : ServeLate(d)) \/ UNCHANGED vars
  PROVE  TypeInv'
<1>1. ASSUME NEW d \in Deposits, ServeLate(d) PROVE TypeInv'
  <2>1. PICK n \in {0, 1} : registered' = [registered EXCEPT ![d] = registered[d] + n]
    BY <1>1 DEF ServeLate
  <2>2. late \in [Deposits -> Nat] /\ registered \in [Deposits -> Nat] /\ late[d] > 0
    BY <1>1 DEF ServeLate, TypeInv, TypeOK
  <2>3. late' = [late EXCEPT ![d] = late[d] - 1] BY <1>1 DEF ServeLate
  <2>4. late[d] - 1 \in Nat /\ registered[d] + n \in Nat BY <2>2
  <2>5. late' \in [Deposits -> Nat] /\ registered' \in [Deposits -> Nat] BY <2>1, <2>2, <2>3, <2>4
  <2> QED BY <1>1, <2>5 DEF ServeLate, TypeInv, TypeOK, Busy, notice, prefs, screen, history
<1>2. CASE Open
  <2>1. opens - 1 \in Nat /\ timers + 1 \in Nat BY <1>2 DEF Open, TypeInv, TypeOK
  <2> QED BY <1>2, <2>1 DEF Open, TypeInv, TypeOK, Busy, notice, prefs, server, history
<1>3. CASE PageLoads
  BY <1>3 DEF PageLoads, TypeInv, TypeOK, Busy, notice, prefs, server, history
<1>4. CASE Close
  BY <1>4 DEF Close, TypeInv, TypeOK, Busy, notice, prefs, server, history
<1>5. CASE DrainRead
  <2>1. timers - 1 \in Nat BY <1>5 DEF DrainRead, TypeInv, TypeOK
  <2>2. draining' \in Seq(Entries) BY <1>5 DEF DrainRead, TypeInv, TypeOK, Queues
  <2> QED BY <1>5, <2>1, <2>2 DEF DrainRead, TypeInv, TypeOK, Busy, notice, prefs, server, history
<1>6. CASE DrainEnd
  <2>1. shown' \in [Entries -> Nat] BY <1>6, ShowType DEF DrainEnd
  <2>2. << >> \in Queues /\ << >> \in Seq(Entries) BY EmptyQueue
  <2> QED BY <1>6, <2>1, <2>2 DEF DrainEnd, TypeInv, TypeOK, Busy, notice, server, history
<1>7. CASE Flush
  BY <1>7 DEF Flush, TypeInv, TypeOK, Busy, notice, prefs, server, screen, history
<1>8. CASE Kill
  <2>1. Idle \in Thread BY EmptyQueue, DetectorAssumption DEF Idle, Thread, Phases
  <2>2. thread' \in [Threads -> Thread] /\ Busy' BY <1>8, <2>1 DEF Kill, Busy, Idle
  <2>3. \A S \in SUBSET Threads : Cardinality(S) \in Nat
    BY DetectorAssumption, FS_Subset, FS_CardinalityType
  <2>4. \A d : Sent(d) \in SUBSET Threads /\ Tryers(d) \in SUBSET Threads
    BY DEF Sent, Tryers
  <2>5. late' \in [Deposits -> Nat]
    <3>1. \A d : Cardinality(Sent(d)) \in Nat BY <2>3, <2>4
    <3>2. late' = [d \in Deposits |-> late[d] + Cardinality(Sent(d))] BY <1>8 DEF Kill
    <3>3. \A d \in Deposits : late[d] \in Nat BY DEF TypeInv, TypeOK
    <3> QED BY <3>1, <3>2, <3>3
  <2>6. doubts' \in [Deposits -> Nat]
    <3>1. \A b : Count(b) \in Nat BY DEF Count
    <3>2. \A d : Cardinality(Tryers(d)) \in Nat BY <2>3, <2>4
    <3>3. \A d \in Deposits : doubts[d] \in Nat BY DEF TypeInv, TypeOK
    <3>4. doubts' = [d \in Deposits |-> doubts[d] + Cardinality(Tryers(d))
                       + Count(d \in Members(seen) \ Members(disk.seen))]
      BY <1>8 DEF Kill
    <3>5. \A d : Count(d \in Members(seen) \ Members(disk.seen)) \in Nat BY <3>1
    <3> QED BY <3>2, <3>3, <3>4, <3>5
  <2>7. disk.seen \in Seq(Deposits) /\ disk.logs \in Queues /\ disk.logs \in Seq(Entries)
    BY DEF TypeInv, TypeOK, Queues
  <2>8. seen' = disk.seen /\ logQueue' = disk.logs BY <1>8 DEF Kill
  <2>9. replayed' \subseteq Entries BY <1>8, <2>7, MembersType DEF Kill, TypeInv, TypeOK
  <2>10. kills' \in Nat BY <1>8 DEF Kill, TypeInv, TypeOK
  <2> QED BY <1>8, <2>2, <2>5, <2>6, <2>7, <2>8, <2>9, <2>10 DEF Kill, TypeInv, TypeOK
<1>9. CASE UNCHANGED vars
  BY <1>9 DEF vars, TypeInv, TypeOK, Busy, notice, prefs, server, screen, history
<1> QED BY <1>1, <1>2, <1>3, <1>4, <1>5, <1>6, <1>7, <1>8, <1>9 DEF Application

LEMMA TypeStep == TypeInv /\ [Next]_vars => TypeInv'
<1> SUFFICES ASSUME TypeInv, [Next]_vars PROVE TypeInv' OBVIOUS
<1>1. ASSUME NEW t \in Threads, Runs(t) \/ Serve(t) \/ \E d \in Deposits : Arrive(t, d)
      PROVE  TypeInv' BY <1>1, ThreadType
<1>2. CASE Application \/ Kill \/ (\E d \in Deposits : ServeLate(d)) \/ UNCHANGED vars
  BY <1>2, WorldType
<1> QED BY <1>1, <1>2 DEF Next

\* Every reachable state is well typed: the remembered keys and the queue, in
\* memory and on the disk, never exceed their bounds.
THEOREM TypeCorrect == Spec => []TypeOK
<1>1. TypeInv => TypeOK BY DEF TypeInv
<1> QED BY InitType, TypeStep, <1>1, PTL DEF Spec

-------------------------------------------------------------------------------
(* Keys that suppress notices.                                             *)

\* The server has taken the deposit or turned it down.
Decided(d) == registered[d] > 0 \/ d \in refused
Bound == \A t \in Threads :
  /\ thread[t].result \in {"ok", "failed", "refused"} =>
       thread[t].dep \in Deposits /\ Decided(thread[t].dep)
  /\ thread[t].phase = "commit" => thread[t].result \in {"failed", "refused"}
DecidedInv == SkippedOnlyIfDecided /\ Bound

\* Whatever happens, what is decided stays decided.
LEMMA StaysDecided ==
  ASSUME TypeInv, [Next]_vars, NEW d \in Deposits, Decided(d) PROVE Decided(d)'
<1>1. registered \in [Deposits -> Nat] BY DEF TypeInv, TypeOK
<1>2. ASSUME NEW t \in Threads, Serve(t) PROVE Decided(d)'
  <2>1. PICK a \in Answers :
          /\ registered' = [registered EXCEPT ![thread[t].dep] =
               registered[thread[t].dep] + Count(a \in {"ok", "failed"})]
          /\ refused' = IF a = "refused" THEN refused \cup {thread[t].dep} ELSE refused
    BY <1>2 DEF Serve
  <2> QED BY <1>1, <2>1 DEF Decided, Count
<1>3. ASSUME NEW x \in Deposits, ServeLate(x) PROVE Decided(d)'
  BY <1>1, <1>3 DEF ServeLate, Decided
<1>4. CASE UNCHANGED <<registered, refused>> BY <1>4 DEF Decided
<1>5. CASE Application \/ Kill \/ UNCHANGED vars
  BY <1>4, <1>5 DEF Application, Open, PageLoads, Close, DrainRead, DrainEnd, Flush, Kill, vars, server
<1>6. ASSUME NEW t \in Threads, Runs(t) \/ \E x \in Deposits : Arrive(t, x) PROVE Decided(d)'
  BY <1>4, <1>6 DEF Runs, Ignore, Process, Heard, GiveUp, Forget, LogEntry, Enqueue,
                    EnqueueWrite, CommitRefused, Arrive, server
<1> QED BY <1>2, <1>3, <1>5, <1>6 DEF Next

\* A key that is recorded belongs to a decided deposit, so its memory does.
LEMMA CommitDecided ==
  ASSUME TypeInv, SkippedOnlyIfDecided, NEW d \in Deposits, Decided(d), CommitSeen(d)
  PROVE  \A x \in Members(seen') : x \in Deposits /\ Decided(x)
<1>1. seen \in Seq(Deposits) /\ MaxSeen \in Nat \ {0} BY DetectorAssumption DEF TypeInv, TypeOK
<1>2. ASSUME NEW x \in Members(seen') PROVE x = d \/ x \in Members(seen)
  BY <1>1, PushMembers DEF CommitSeen
<1>3. Members(seen) \subseteq Deposits BY <1>1, MembersType
<1> QED BY <1>2, <1>3 DEF SkippedOnlyIfDecided, Decided

\* A thread that changes keeps its deposit and its answer, or forgets them.
LEMMA BoundStep ==
  ASSUME TypeInv, [Next]_vars, NEW t \in Threads, Bound,
         \A u \in Threads \ {t} : thread'[u] = thread[u],
         \/ thread'[t].dep = thread[t].dep /\ thread'[t].result = thread[t].result
         \/ thread'[t].result = "none",
         thread'[t].phase = "commit" => thread'[t].result \in {"failed", "refused"}
  PROVE  Bound'
<1>1. ASSUME NEW u \in Threads, thread'[u].result \in {"ok", "failed", "refused"}
      PROVE  (thread[u].dep \in Deposits /\ Decided(thread[u].dep))'
  <2>1. thread'[u].dep = thread[u].dep /\ thread'[u].result = thread[u].result BY <1>1
  <2>2. thread[u].dep \in Deposits /\ Decided(thread[u].dep) BY <1>1, <2>1 DEF Bound
  <2>3. ASSUME NEW d \in Deposits, Decided(d) PROVE Decided(d)' BY <2>3, StaysDecided
  <2> QED BY <2>1, <2>2, <2>3 DEF Decided
<1>2. ASSUME NEW u \in Threads, thread'[u].phase = "commit"
      PROVE  thread'[u].result \in {"failed", "refused"}
  BY <1>2 DEF Bound
<1> QED BY <1>1, <1>2 DEF Bound, Decided

\* If the keys stay as they are, they stay those of decided deposits.
LEMMA KeysStay ==
  ASSUME TypeInv, [Next]_vars, SkippedOnlyIfDecided,
         Members(seen)' \cup Members(disk.seen)' \subseteq Members(seen) \cup Members(disk.seen)
  PROVE  SkippedOnlyIfDecided'
<1>1. seen \in Seq(Deposits) /\ disk.seen \in Seq(Deposits) BY DEF TypeInv, TypeOK
<1>2. Members(seen) \cup Members(disk.seen) \subseteq Deposits BY <1>1, MembersType
<1>3. ASSUME NEW d \in Members(seen)' \cup Members(disk.seen)' PROVE Decided(d)'
  <2>1. d \in Deposits /\ Decided(d) BY <1>2 DEF SkippedOnlyIfDecided, Decided
  <2> QED BY <2>1, StaysDecided
<1> QED BY <1>3 DEF SkippedOnlyIfDecided, Decided

\* How the row of a thread changes when it goes on or ends.
LEMMA GoRow ==
  ASSUME TypeInv, NEW t \in Threads, NEW p, Go(t, p)
  PROVE  /\ \A u \in Threads \ {t} : thread'[u] = thread[u]
         /\ thread'[t].phase = p /\ thread'[t].dep = thread[t].dep
         /\ thread'[t].result = thread[t].result
<1>1. thread \in [Threads -> Thread] BY DEF TypeInv, TypeOK
<1>2. thread' = [thread EXCEPT ![t] = [thread[t] EXCEPT !.phase = p]] BY <1>1 DEF Go
<1> QED BY <1>1, <1>2 DEF Thread

LEMMA IdleRow ==
  ASSUME TypeInv, NEW t \in Threads, thread' = [thread EXCEPT ![t] = Idle]
  PROVE  /\ \A u \in Threads \ {t} : thread'[u] = thread[u]
         /\ thread'[t] = Idle /\ thread'[t].phase = "idle" /\ thread'[t].result = "none"
BY DEF TypeInv, TypeOK, Idle

LEMMA DecidedStep == TypeInv /\ DecidedInv /\ [Next]_vars => DecidedInv'
<1> SUFFICES ASSUME TypeInv, DecidedInv, [Next]_vars PROVE DecidedInv' OBVIOUS
<1>a. SkippedOnlyIfDecided /\ Bound BY DEF DecidedInv
<1>b. Idle.phase = "idle" /\ Idle.result = "none" BY DEF Idle
<1>1. ASSUME NEW t \in Threads, Serve(t) PROVE DecidedInv'
  <2>1. PICK a \in Answers :
          /\ registered' = [registered EXCEPT ![thread[t].dep] =
               registered[thread[t].dep] + Count(a \in {"ok", "failed"})]
          /\ refused' = IF a = "refused" THEN refused \cup {thread[t].dep} ELSE refused
          /\ thread' = [thread EXCEPT ![t] = [thread[t] EXCEPT !.phase = "answered", !.result = a]]
    BY <1>1 DEF Serve, TypeInv, TypeOK
  <2>2. SkippedOnlyIfDecided' BY <1>1, <1>a, KeysStay DEF Serve, prefs, Members
  <2>3. thread \in [Threads -> Thread] /\ registered \in [Deposits -> Nat] BY DEF TypeInv, TypeOK
  <2>4. thread[t].dep \in Deposits BY <1>1 DEF Serve, In, TypeInv, Busy
  <2>5. a \in {"ok", "failed", "refused"} => Decided(thread[t].dep)'
    BY <2>1, <2>3, <2>4 DEF Decided, Count
  <2>6. thread'[t].phase = "answered" /\ thread'[t].dep = thread[t].dep /\ thread'[t].result = a
    BY <2>1, <2>3 DEF Thread
  <2>7. ASSUME NEW u \in Threads \ {t} PROVE thread'[u] = thread[u] BY <2>1, <2>3
  <2>8. ASSUME NEW d \in Deposits, Decided(d) PROVE Decided(d)' BY <2>8, StaysDecided
  <2>9. Bound'
    <3>1. ASSUME NEW u \in Threads, thread'[u].result \in {"ok", "failed", "refused"}
          PROVE  (thread[u].dep \in Deposits /\ Decided(thread[u].dep))'
      <4>1. CASE u = t BY <2>4, <2>5, <2>6, <3>1, <4>1 DEF Decided
      <4>2. CASE u # t BY <1>a, <2>7, <2>8, <3>1, <4>2 DEF Bound, Decided
      <4> QED BY <4>1, <4>2
    <3>2. ASSUME NEW u \in Threads, thread'[u].phase = "commit"
          PROVE  thread'[u].result \in {"failed", "refused"}
      BY <1>a, <2>6, <2>7, <3>2 DEF Bound
    <3> QED BY <3>1, <3>2 DEF Bound, Decided
  <2> QED BY <2>2, <2>9 DEF DecidedInv
<1>2. ASSUME NEW t \in Threads, NEW d \in Deposits, Arrive(t, d) PROVE DecidedInv'
  <2>1. SkippedOnlyIfDecided' BY <1>2, <1>a, KeysStay DEF Arrive, prefs, Members
  <2>2. thread' = [thread EXCEPT ![t] = [Idle EXCEPT !.phase = "begun", !.dep = d, !.entry = notices]]
    BY <1>2 DEF Arrive
  <2>3. thread'[t].phase = "begun" /\ thread'[t].result = "none" /\ \A u \in Threads \ {t} : thread'[u] = thread[u]
    BY <2>2 DEF TypeInv, TypeOK, Idle
  <2>4. Bound' BY <1>a, <2>3, BoundStep
  <2> QED BY <2>1, <2>4 DEF DecidedInv
<1>3. ASSUME NEW t \in Threads, \/ Ignore(t) \/ Process(t) \/ GiveUp(t) \/ LogEntry(t)
                                \/ Enqueue(t) \/ EnqueueWrite(t)
      PROVE  DecidedInv'
  <2>1. UNCHANGED <<seen, disk>>
    BY <1>3 DEF Ignore, Process, GiveUp, Forget, LogEntry, Enqueue, EnqueueWrite, prefs
  <2>2. SkippedOnlyIfDecided' BY <1>a, <2>1, KeysStay DEF Members
  <2>3. Go(t, "log") \/ Go(t, "sent") \/ Go(t, "enqueue") \/ Continue(t) \/ Enqueue(t)
          \/ thread' = [thread EXCEPT ![t] = Idle]
          \/ thread' = [thread EXCEPT ![t].phase = "log", ![t].result = "none"]
    BY <1>3 DEF Ignore, Process, GiveUp, Forget, LogEntry, EnqueueWrite
  <2>4. CASE thread' = [thread EXCEPT ![t].phase = "log", ![t].result = "none"]
    <3>1. thread'[t].phase = "log" /\ thread'[t].result = "none" /\ \A u \in Threads \ {t} : thread'[u] = thread[u]
      BY <2>4 DEF TypeInv, TypeOK, Thread
    <3>2. Bound' BY <1>a, <3>1, BoundStep
    <3> QED BY <2>2, <3>2 DEF DecidedInv
  <2>5. ASSUME NEW p \in {"log", "sent", "enqueue"}, Go(t, p) PROVE DecidedInv'
    <3>1. /\ \A u \in Threads \ {t} : thread'[u] = thread[u]
          /\ thread'[t].phase # "commit" /\ thread'[t].dep = thread[t].dep
          /\ thread'[t].result = thread[t].result
      BY <2>5, GoRow
    <3>2. Bound' BY <1>a, <3>1, BoundStep
    <3> QED BY <2>2, <3>2 DEF DecidedInv
  <2>6. CASE Continue(t) \/ Enqueue(t) \/ thread' = [thread EXCEPT ![t] = Idle]
    <3>1. /\ \A u \in Threads \ {t} : thread'[u] = thread[u]
          /\ \/ thread'[t].dep = thread[t].dep /\ thread'[t].result = thread[t].result
             \/ thread'[t].result = "none"
          /\ thread'[t].phase = "commit" => thread'[t].result \in {"failed", "refused"}
      BY <2>6, IdleRow, ContinueRow, PutRow
    <3>2. Bound' BY <1>a, <3>1, BoundStep
    <3> QED BY <2>2, <3>2 DEF DecidedInv
  <2> QED BY <2>3, <2>4, <2>5, <2>6
<1>4. ASSUME NEW t \in Threads, Heard(t) \/ CommitRefused(t) PROVE DecidedInv'
  <2>1. UNCHANGED <<disk, registered, refused>> BY <1>4 DEF Heard, CommitRefused, server
  <2>2. ASSUME UNCHANGED seen PROVE SkippedOnlyIfDecided'
    <3>1. Members(seen)' = Members(seen) /\ Members(disk.seen)' = Members(disk.seen)
      BY <2>1, <2>2 DEF Members
    <3> QED BY <1>a, <3>1, KeysStay
  <2>3. ASSUME CommitSeen(thread[t].dep), thread[t].result \in {"ok", "failed", "refused"}
        PROVE  SkippedOnlyIfDecided'
    <3>1. thread[t].dep \in Deposits /\ Decided(thread[t].dep) BY <1>a, <2>3 DEF Bound
    <3>2. \A x \in Members(seen') : x \in Deposits /\ Decided(x) BY <1>a, <2>3, <3>1, CommitDecided
    <3>3. ASSUME NEW d \in Members(seen)' \cup Members(disk.seen)' PROVE Decided(d)'
      <4>1. d \in Members(seen') \/ d \in Members(disk.seen) BY <2>1 DEF Members
      <4>2. Decided(d) BY <1>a, <3>2, <4>1 DEF SkippedOnlyIfDecided, Decided
      <4> QED BY <2>1, <4>2 DEF Decided
    <3> QED BY <3>3 DEF SkippedOnlyIfDecided, Decided
  <2>4. SkippedOnlyIfDecided'
    BY <1>4, <1>a, <2>2, <2>3 DEF Heard, CommitRefused, Bound, In
  <2>5. Go(t, "log") \/ thread' = [thread EXCEPT ![t] = Idle] BY <1>4 DEF Heard, CommitRefused
  <2>6. /\ \A u \in Threads \ {t} : thread'[u] = thread[u]
        /\ \/ thread'[t].dep = thread[t].dep /\ thread'[t].result = thread[t].result
           \/ thread'[t].result = "none"
        /\ thread'[t].phase # "commit"
    BY <2>5, GoRow, IdleRow
  <2>7. Bound' BY <1>a, <2>6, BoundStep
  <2> QED BY <2>4, <2>7 DEF DecidedInv
<1>5. CASE Kill
  <2>1. seen' = disk.seen /\ disk' = disk /\ UNCHANGED <<registered, refused>> BY <1>5 DEF Kill
  <2>2. SkippedOnlyIfDecided' BY <1>a, <2>1, KeysStay DEF Members
  <2>3. Bound' BY <1>5, <1>b DEF Kill, Bound
  <2> QED BY <2>2, <2>3 DEF DecidedInv
<1>6. CASE Application \/ (\E d \in Deposits : ServeLate(d)) \/ UNCHANGED vars
  <2>1. UNCHANGED thread /\ UNCHANGED seen /\ (disk' = disk \/ disk'.seen = seen)
    BY <1>6 DEF Application, Open, PageLoads, Close, DrainRead, DrainEnd, Flush, ServeLate, vars,
                notice, prefs
  <2>2. SkippedOnlyIfDecided' BY <1>a, <2>1, KeysStay DEF Members
  <2>3. ASSUME NEW d \in Deposits, Decided(d) PROVE Decided(d)' BY <2>3, StaysDecided
  <2>4. Bound' BY <1>a, <2>1, <2>3 DEF Bound, Decided
  <2> QED BY <2>2, <2>4 DEF DecidedInv
<1> QED BY <1>1, <1>2, <1>3, <1>4, <1>5, <1>6 DEF Next, Runs

\* A deposit whose notices are skipped was registered or refused, whatever
\* notices overlap, whatever is lost and whenever the process dies
\* (DepositAutoDetector.registerBankTransaction records nothing else).
THEOREM NothingDropped == Spec => []SkippedOnlyIfDecided
<1>1. Init => DecidedInv
  <2> SUFFICES ASSUME Init PROVE DecidedInv OBVIOUS
  <2>1. Members(seen) = {} /\ Members(disk.seen) = {} BY DEF Init, Members
  <2>2. \A t \in Threads : thread[t] = Idle BY DEF Init
  <2> QED BY <2>1, <2>2 DEF DecidedInv, SkippedOnlyIfDecided, Bound, Idle
<1>2. TypeInv /\ [Next]_vars => TypeInv' BY TypeStep
<1>3. DecidedInv => SkippedOnlyIfDecided BY DEF DecidedInv
<1> QED BY InitType, <1>1, <1>2, <1>3, DecidedStep, PTL DEF Spec

-------------------------------------------------------------------------------
(* Repeated registrations.                                                 *)

\* Each registration of d, made or on its way, has a reason to be a repetition,
\* except one if d is remembered or some thread still has to record it.
Accounted(d) == registered[d] + late[d] + Cardinality(Sent(d))
                  <= doubts[d] + Count(d \in Members(seen) \/ Tryers(d) # {})
Fresh == \A t \in Threads : thread[t].phase \in {"idle", "begun"} => thread[t].result = "none"
CountInv == Fresh /\ \A d \in Deposits : Accounted(d)

LEMMA Sizes ==
  \A S \in SUBSET Threads : IsFiniteSet(S) /\ Cardinality(S) \in Nat /\ (S # {} => Cardinality(S) >= 1)
<1> SUFFICES ASSUME NEW S \in SUBSET Threads
    PROVE IsFiniteSet(S) /\ Cardinality(S) \in Nat /\ (S # {} => Cardinality(S) >= 1) OBVIOUS
<1>1. IsFiniteSet(S) BY DetectorAssumption, FS_Subset
<1>2. Cardinality(S) \in Nat /\ (Cardinality(S) = 0 <=> S = {})
  BY <1>1, FS_CardinalityType, FS_EmptySet
<1> QED BY <1>1, <1>2

\* A set that differs from another one in t only differs in size accordingly.
LEMMA SizeStep ==
  ASSUME NEW t \in Threads, NEW S \in SUBSET Threads, NEW T \in SUBSET Threads, S \ {t} = T \ {t}
  PROVE  Cardinality(T) = Cardinality(S) + (IF t \in T THEN 1 ELSE 0) - (IF t \in S THEN 1 ELSE 0)
<1> DEFINE Rest == S \ {t}
<1>1. IsFiniteSet(Rest) /\ Cardinality(Rest) \in Nat BY Sizes
<1>2. \A U \in SUBSET Threads : U \ {t} = Rest =>
        Cardinality(U) = Cardinality(Rest) + (IF t \in U THEN 1 ELSE 0)
  <2> SUFFICES ASSUME NEW U \in SUBSET Threads, U \ {t} = Rest
      PROVE Cardinality(U) = Cardinality(Rest) + (IF t \in U THEN 1 ELSE 0) OBVIOUS
  <2>1. CASE t \in U
    <3>1. U = Rest \cup {t} /\ t \notin Rest BY <2>1
    <3>2. Cardinality(Rest \cup {t}) = Cardinality(Rest) + 1 BY <1>1, <3>1, FS_AddElement
    <3> QED BY <2>1, <3>1, <3>2
  <2>2. CASE t \notin U
    <3>1. U = Rest BY <2>2
    <3> QED BY <1>1, <2>2, <3>1
  <2> QED BY <2>1, <2>2
<1>3. Cardinality(S) = Cardinality(Rest) + (IF t \in S THEN 1 ELSE 0) BY <1>2
<1>4. Cardinality(T) = Cardinality(Rest) + (IF t \in T THEN 1 ELSE 0) BY <1>2
<1> QED BY <1>1, <1>3, <1>4

\* What a step of thread t alone means for the threads that send or try d.
LEMMA OneThread ==
  ASSUME TypeInv, NEW t \in Threads, NEW d, \A u \in Threads \ {t} : thread'[u] = thread[u]
  PROVE  /\ Cardinality(Sent(d)) \in Nat /\ Cardinality(Sent(d))' \in Nat
         /\ Cardinality(Sent(d))' = Cardinality(Sent(d)) + (IF t \in Sent(d)' THEN 1 ELSE 0)
                                                         - (IF t \in Sent(d) THEN 1 ELSE 0)
         /\ t \in Sent(d) <=> thread[t].dep = d /\ thread[t].phase = "sent"
         /\ t \in Sent(d)' <=> thread'[t].dep = d /\ thread'[t].phase = "sent"
         /\ Tryers(d) # {} <=> Trying(t, d) \/ Tryers(d) \ {t} # {}
         /\ (Tryers(d) # {})' <=> Trying(t, d)' \/ Tryers(d) \ {t} # {}
<1>1. Sent(d) \in SUBSET Threads /\ Sent(d)' \in SUBSET Threads BY DEF Sent
<1>2. Sent(d) \ {t} = Sent(d)' \ {t} BY DEF Sent, In
<1>3. Cardinality(Sent(d)') = Cardinality(Sent(d)) + (IF t \in Sent(d)' THEN 1 ELSE 0)
                                                   - (IF t \in Sent(d) THEN 1 ELSE 0)
  BY <1>1, <1>2, SizeStep
<1>4. Cardinality(Sent(d)) \in Nat /\ Cardinality(Sent(d)') \in Nat BY <1>1, Sizes
<1>5. Tryers(d) \ {t} = Tryers(d)' \ {t} BY DEF Tryers, Trying, In
<1>6. Tryers(d) # {} <=> Trying(t, d) \/ Tryers(d) \ {t} # {} BY DEF Tryers
<1>7. (Tryers(d) # {})' <=> Trying(t, d)' \/ Tryers(d) \ {t} # {} BY <1>5 DEF Tryers
<1>8. t \in Sent(d) <=> thread[t].dep = d /\ thread[t].phase = "sent" BY DEF Sent, In
<1>9. t \in Sent(d)' <=> thread'[t].dep = d /\ thread'[t].phase = "sent" BY DEF Sent, In
<1> QED BY <1>3, <1>4, <1>6, <1>7, <1>8, <1>9

\* Recording a key keeps every deposit remembered or adds a reason.
LEMMA CommitCount ==
  ASSUME TypeInv, NEW e \in Deposits, CommitSeen(e), NEW d \in Deposits
  PROVE  /\ doubts'[d] = doubts[d] + (IF d \in Members(seen) /\ d \notin Members(seen') THEN 1 ELSE 0)
         /\ d = e => d \in Members(seen')
<1>1. e \in Members(seen') BY CommitType
<1>2. doubts' = [x \in Deposits |-> doubts[x] + Count(x \in Members(seen) \ Members(seen'))]
  BY DEF CommitSeen
<1> QED BY <1>1, <1>2 DEF Count

Sends(t, d) == thread[t].dep = d /\ thread[t].phase = "sent"
Others(t, d) == Tryers(d) \ {t} # {}

\* A step of thread t keeps the account of d if what it adds is not more than
\* the reasons it adds.
LEMMA Weigh ==
  ASSUME TypeInv, TypeInv', NEW t \in Threads, NEW d \in Deposits, Accounted(d),
         \A u \in Threads \ {t} : thread'[u] = thread[u],
         registered'[d] + late'[d] + Count(Sends(t, d)') + doubts[d]
             + Count(d \in Members(seen) \/ Trying(t, d) \/ Others(t, d))
           <= registered[d] + late[d] + Count(Sends(t, d)) + doubts'[d]
                + Count(d \in Members(seen') \/ Trying(t, d)' \/ Others(t, d))
  PROVE  Accounted(d)'
<1>1. /\ registered[d] \in Nat /\ late[d] \in Nat /\ doubts[d] \in Nat
      /\ registered'[d] \in Nat /\ late'[d] \in Nat /\ doubts'[d] \in Nat
  BY DEF TypeInv, TypeOK
<1>2. /\ Cardinality(Sent(d)) \in Nat /\ Cardinality(Sent(d))' \in Nat
      /\ Cardinality(Sent(d))' = Cardinality(Sent(d)) + Count(Sends(t, d)') - Count(Sends(t, d))
  <2>1. Count(Sends(t, d)) = IF t \in Sent(d) THEN 1 ELSE 0 BY OneThread DEF Count, Sends
  <2>2. Count(Sends(t, d)') = IF t \in Sent(d)' THEN 1 ELSE 0 BY OneThread DEF Count, Sends
  <2> QED BY <2>1, <2>2, OneThread
<1>3. Count(d \in Members(seen) \/ Tryers(d) # {})
        = Count(d \in Members(seen) \/ Trying(t, d) \/ Others(t, d))
  BY OneThread DEF Count, Others
<1>4. Count(d \in Members(seen) \/ Tryers(d) # {})'
        = Count(d \in Members(seen') \/ Trying(t, d)' \/ Others(t, d))
  <2>1. (d \in Members(seen) \/ Tryers(d) # {})'
          <=> d \in Members(seen') \/ Trying(t, d)' \/ Others(t, d)
    BY OneThread DEF Others, Members
  <2> QED BY <2>1 DEF Count
<1>5. \A b : Count(b) \in 0..1 BY DEF Count
<1>6. registered[d] + late[d] + Cardinality(Sent(d))
        <= doubts[d] + Count(d \in Members(seen) \/ Tryers(d) # {})
  BY DEF Accounted
<1>7. registered'[d] + late'[d] + Cardinality(Sent(d))'
        <= doubts'[d] + Count(d \in Members(seen) \/ Tryers(d) # {})'
  BY <1>1, <1>2, <1>3, <1>4, <1>5, <1>6
<1> QED BY <1>7 DEF Accounted

\* Every step of a thread adds as many reasons as registrations.
LEMMA ThreadAccount ==
  ASSUME TypeInv, TypeInv', Fresh, NEW t \in Threads, NEW d \in Deposits, Accounted(d),
         Runs(t) \/ Serve(t) \/ \E x \in Deposits : Arrive(t, x)
  PROVE  Accounted(d)'
<1>a. /\ registered[d] \in Nat /\ late[d] \in Nat /\ doubts[d] \in Nat
      /\ registered \in [Deposits -> Nat] /\ late \in [Deposits -> Nat] /\ doubts \in [Deposits -> Nat]
      /\ thread \in [Threads -> Thread]
  BY DEF TypeInv, TypeOK
<1>b. thread[t].phase # "idle" => thread[t].dep \in Deposits BY DEF TypeInv, Busy
<1>1. CASE Ignore(t)
  <2>1. UNCHANGED <<registered, late, doubts, seen>> BY <1>1 DEF Ignore, prefs, server, history
  <2>2. /\ \A u \in Threads \ {t} : thread'[u] = thread[u]
        /\ thread[t].phase = "begun" /\ thread[t].result = "none"
        /\ thread'[t].phase \in {"log", "idle"} /\ thread'[t].result = "none"
    BY <1>1, GoRow, IdleRow DEF Ignore, In, Fresh
  <2>3. ~Trying(t, d) /\ ~Trying(t, d)' /\ ~Sends(t, d) /\ ~Sends(t, d)'
    BY <2>2 DEF Trying, In, Sends
  <2> QED BY <1>a, <2>1, <2>2, <2>3, Weigh DEF Count
<1>2. CASE Process(t)
  <2>1. UNCHANGED <<registered, late, seen>> BY <1>2 DEF Process, prefs, server
  <2>2. thread[t].phase = "begun" /\ thread[t].result = "none" BY <1>2 DEF Process, In, Fresh
  <2>3. ~Trying(t, d) /\ ~Sends(t, d) BY <2>2 DEF Trying, In, Sends
  <2>4. CASE thread[t].dep \in Members(seen)
    <3>1. Go(t, "log") /\ UNCHANGED doubts BY <1>2, <2>4 DEF Process
    <3>2. /\ \A u \in Threads \ {t} : thread'[u] = thread[u]
          /\ thread'[t].phase = "log" /\ thread'[t].result = "none"
      BY <2>2, <3>1, GoRow
    <3>3. ~Trying(t, d)' /\ ~Sends(t, d)' BY <3>2 DEF Trying, In, Sends
    <3> QED BY <1>a, <2>1, <2>3, <3>1, <3>2, <3>3, Weigh DEF Count
  <2>5. CASE thread[t].dep \notin Members(seen)
    <3>1. Go(t, "sent") /\ Doubt(thread[t].dep, Overlaps(t)) BY <1>2, <2>5 DEF Process
    <3>2. /\ \A u \in Threads \ {t} : thread'[u] = thread[u]
          /\ thread'[t].phase = "sent" /\ thread'[t].result = "none" /\ thread'[t].dep = thread[t].dep
      BY <2>2, <3>1, GoRow
    <3>3. CASE thread[t].dep # d
      <4>1. ~Trying(t, d)' /\ ~Sends(t, d)' BY <3>2, <3>3 DEF Trying, In, Sends
      <4>2. doubts'[d] = doubts[d] BY <1>a, <3>1, <3>3 DEF Doubt
      <4> QED BY <1>a, <2>1, <2>3, <3>2, <4>1, <4>2, Weigh DEF Count
    <3>4. CASE thread[t].dep = d
      <4>1. Trying(t, d)' /\ Sends(t, d)' BY <3>2, <3>4 DEF Trying, In, Sends
      <4>2. doubts'[d] = doubts[d] + Count(Others(t, d))
        BY <1>a, <3>1, <3>4 DEF Doubt, Overlaps, Others
      <4>3. d \notin Members(seen) BY <2>5, <3>4
      <4> QED BY <1>a, <2>1, <2>3, <3>2, <4>1, <4>2, <4>3, Weigh DEF Count
    <3> QED BY <3>3, <3>4
  <2> QED BY <2>4, <2>5
<1>3. CASE Heard(t)
  <2>1. UNCHANGED <<registered, late>> BY <1>3 DEF Heard, server
  <2>2. /\ \A u \in Threads \ {t} : thread'[u] = thread[u]
        /\ thread[t].phase = "answered"
        /\ thread'[t].phase = "log" /\ thread'[t].dep = thread[t].dep
        /\ thread'[t].result = thread[t].result
    BY <1>3, GoRow DEF Heard, In
  <2>3. ~Sends(t, d) /\ ~Sends(t, d)' BY <2>2 DEF Sends
  <2>4. CASE thread[t].result # "ok"
    <3>1. UNCHANGED <<seen, doubts>> BY <1>3, <2>4 DEF Heard
    <3>2. Trying(t, d)' <=> Trying(t, d) BY <2>2, <2>4 DEF Trying, In
    <3> QED BY <1>a, <2>1, <2>2, <2>3, <3>1, <3>2, Weigh DEF Count
  <2>5. CASE thread[t].result = "ok"
    <3>1. CommitSeen(thread[t].dep) /\ thread[t].dep \in Deposits BY <1>3, <1>b, <2>2, <2>5 DEF Heard
    <3>2. /\ doubts'[d] = doubts[d] + (IF d \in Members(seen) /\ d \notin Members(seen') THEN 1 ELSE 0)
          /\ d = thread[t].dep => d \in Members(seen')
      BY <3>1, CommitCount
    <3>3. d # thread[t].dep => ~Trying(t, d) /\ ~Trying(t, d)' BY <2>2 DEF Trying, In
    <3> QED BY <1>a, <2>1, <2>2, <2>3, <3>2, <3>3, Weigh DEF Count
  <2> QED BY <2>4, <2>5
<1>4. CASE GiveUp(t)
  <2>1. PICK b \in BOOLEAN :
          Forget(t, b) /\ (thread[t].phase = "sent" \/ (thread[t].phase = "answered" /\ ~b))
    BY <1>4 DEF GiveUp, In
  <2>2. UNCHANGED <<registered, seen>> BY <2>1 DEF Forget, prefs
  <2>3. /\ \A u \in Threads \ {t} : thread'[u] = thread[u]
        /\ thread'[t].phase = "log" /\ thread'[t].dep = thread[t].dep /\ thread'[t].result = "none"
    BY <1>a, <2>1 DEF Forget, Thread
  <2>4. ~Trying(t, d)' /\ ~Sends(t, d)' BY <2>3 DEF Trying, In, Sends
  <2>5. thread[t].dep \in Deposits BY <1>b, <2>1
  <2>6. CASE thread[t].dep # d
    <3>1. ~Trying(t, d) /\ ~Sends(t, d) BY <2>6 DEF Trying, Sends
    <3>2. doubts'[d] = doubts[d] /\ late'[d] = late[d] BY <1>a, <2>1, <2>6 DEF Forget, Doubt
    <3> QED BY <1>a, <2>2, <2>3, <2>4, <3>1, <3>2, Weigh DEF Count
  <2>7. CASE thread[t].dep = d
    <3>1. late'[d] = late[d] + Count(b) BY <1>a, <2>1, <2>7 DEF Forget
    <3>2. doubts'[d] = doubts[d] + Count(b \/ thread[t].result \in {"ok", "failed"})
      BY <1>a, <2>1, <2>7 DEF Forget, Doubt
    <3>3. CASE thread[t].phase = "sent"
      <4>1. Sends(t, d) BY <2>7, <3>3 DEF Sends
      <4> QED BY <1>a, <2>2, <2>3, <2>4, <3>1, <3>2, <4>1, Weigh DEF Count
    <3>4. CASE thread[t].phase = "answered" /\ ~b
      <4>1. Trying(t, d) => thread[t].result \in {"ok", "failed"} BY <3>4 DEF Trying, In
      <4>2. ~Sends(t, d) BY <3>4 DEF Sends
      <4> QED BY <1>a, <2>2, <2>3, <2>4, <3>1, <3>2, <3>4, <4>1, <4>2, Weigh DEF Count
    <3> QED BY <2>1, <3>3, <3>4
  <2> QED BY <2>6, <2>7
<1>5. CASE LogEntry(t) \/ Enqueue(t) \/ EnqueueWrite(t)
  <2>1. UNCHANGED <<registered, late, doubts, seen>>
    BY <1>5 DEF LogEntry, Enqueue, EnqueueWrite, prefs, server, history
  <2>2. thread[t].phase \in {"log", "enqueue", "put"}
    BY <1>5 DEF LogEntry, Enqueue, EnqueueWrite, In
  <2>3. ~Sends(t, d) BY <2>2 DEF Sends
  <2>4. CASE Go(t, "enqueue") \/ Enqueue(t)
    <3>1. /\ \A u \in Threads \ {t} : thread'[u] = thread[u]
          /\ thread'[t].phase \in {"enqueue", "put"} /\ thread'[t].dep = thread[t].dep
          /\ thread'[t].result = thread[t].result
      BY <2>4, GoRow, PutRow
    <3>2. (Trying(t, d)' <=> Trying(t, d)) /\ ~Sends(t, d)' BY <2>2, <3>1 DEF Trying, In, Sends
    <3> QED BY <1>a, <2>1, <2>3, <3>1, <3>2, Weigh DEF Count
  <2>5. CASE Continue(t)
    <3>1. \A u \in Threads \ {t} : thread'[u] = thread[u] BY <2>5, ContinueRow
    <3>2. (Trying(t, d) => Trying(t, d)') /\ ~Sends(t, d)'
      BY <2>2, <2>5, ContinueRow DEF Trying, In, Sends
    <3> QED BY <1>a, <2>1, <2>3, <3>1, <3>2, Weigh DEF Count
  <2> QED BY <1>5, <2>4, <2>5 DEF LogEntry, EnqueueWrite
<1>6. CASE CommitRefused(t)
  <2>1. UNCHANGED <<registered, late>> BY <1>6 DEF CommitRefused, server
  <2>2. thread[t].phase = "commit" /\ CommitSeen(thread[t].dep) /\ thread[t].dep \in Deposits
    BY <1>6, <1>b DEF CommitRefused, In
  <2>3. \A u \in Threads \ {t} : thread'[u] = thread[u]
    BY <1>6, IdleRow DEF CommitRefused
  <2>4. ~Sends(t, d) /\ ~Sends(t, d)' BY <2>2, <1>6, IdleRow DEF Sends, CommitRefused
  <2>5. /\ doubts'[d] = doubts[d] + (IF d \in Members(seen) /\ d \notin Members(seen') THEN 1 ELSE 0)
        /\ d = thread[t].dep => d \in Members(seen')
    BY <2>2, CommitCount
  <2>6. d # thread[t].dep => ~Trying(t, d) BY DEF Trying
  <2> QED BY <1>a, <2>1, <2>3, <2>4, <2>5, <2>6, Weigh DEF Count
<1>7. CASE Serve(t)
  <2>1. PICK a \in Answers :
          /\ registered' = [registered EXCEPT ![thread[t].dep] =
               registered[thread[t].dep] + Count(a \in {"ok", "failed"})]
          /\ thread' = [thread EXCEPT ![t] = [thread[t] EXCEPT !.phase = "answered", !.result = a]]
    BY <1>7 DEF Serve, TypeInv, TypeOK
  <2>2. UNCHANGED <<late, doubts, seen>> BY <1>7 DEF Serve, prefs, history
  <2>3. thread[t].phase = "sent" BY <1>7 DEF Serve, In
  <2>4. /\ \A u \in Threads \ {t} : thread'[u] = thread[u]
        /\ thread'[t].phase = "answered" /\ thread'[t].dep = thread[t].dep /\ thread'[t].result = a
    BY <1>a, <2>1 DEF Thread
  <2>5. ~Sends(t, d)' BY <2>4 DEF Sends
  <2>6. CASE thread[t].dep # d
    <3>1. ~Trying(t, d) /\ ~Sends(t, d) /\ ~Trying(t, d)' BY <2>4, <2>6 DEF Trying, Sends
    <3>2. registered'[d] = registered[d] BY <1>a, <2>1, <2>6
    <3> QED BY <1>a, <2>2, <2>4, <2>5, <3>1, <3>2, Weigh DEF Count
  <2>7. CASE thread[t].dep = d
    <3>1. Sends(t, d) BY <2>3, <2>7 DEF Sends
    <3>2. registered'[d] = registered[d] + Count(a \in {"ok", "failed"}) BY <1>a, <2>1, <2>7
    <3>3. a \in {"ok", "failed"} => Trying(t, d)' BY <2>4, <2>7 DEF Trying, In
    <3> QED BY <1>a, <2>2, <2>4, <2>5, <3>1, <3>2, <3>3, Weigh DEF Count
  <2> QED BY <2>6, <2>7
<1>8. ASSUME NEW x \in Deposits, Arrive(t, x) PROVE Accounted(d)'
  <2>1. UNCHANGED <<registered, late, doubts, seen>> BY <1>8 DEF Arrive, prefs, server, history
  <2>2. thread[t].phase = "idle" /\ thread[t].result = "none" BY <1>8 DEF Arrive, In, Fresh
  <2>3. thread' = [thread EXCEPT ![t] = [Idle EXCEPT !.phase = "begun", !.dep = x, !.entry = notices]]
    BY <1>8 DEF Arrive
  <2>4. /\ \A u \in Threads \ {t} : thread'[u] = thread[u]
        /\ thread'[t].phase = "begun" /\ thread'[t].result = "none"
    BY <1>a, <2>3 DEF Idle
  <2>5. ~Trying(t, d) /\ ~Trying(t, d)' /\ ~Sends(t, d) /\ ~Sends(t, d)'
    BY <2>2, <2>4 DEF Trying, In, Sends
  <2> QED BY <1>a, <2>1, <2>4, <2>5, Weigh DEF Count
<1> QED BY <1>1, <1>2, <1>3, <1>4, <1>5, <1>6, <1>7, <1>8 DEF Runs

\* The network and the death of the process do so, too.
LEMMA WorldAccount ==
  ASSUME TypeInv, NEW d \in Deposits, Accounted(d),
         Application \/ Kill \/ (\E x \in Deposits : ServeLate(x)) \/ UNCHANGED vars
  PROVE  Accounted(d)'
<1>a. /\ registered[d] \in Nat /\ late[d] \in Nat /\ doubts[d] \in Nat
      /\ registered \in [Deposits -> Nat] /\ late \in [Deposits -> Nat]
  BY DEF TypeInv, TypeOK
<1>b. Sent(d) \in SUBSET Threads /\ Tryers(d) \in SUBSET Threads BY DEF Sent, Tryers
<1>c. /\ Cardinality(Sent(d)) \in Nat /\ Cardinality(Tryers(d)) \in Nat
      /\ Tryers(d) # {} => Cardinality(Tryers(d)) >= 1
  BY <1>b, Sizes
<1>1. ASSUME NEW x \in Deposits, ServeLate(x) PROVE Accounted(d)'
  <2>1. PICK n \in {0, 1} : registered' = [registered EXCEPT ![x] = registered[x] + n]
    BY <1>1 DEF ServeLate
  <2>2. late' = [late EXCEPT ![x] = late[x] - 1] /\ late[x] \in Nat /\ late[x] > 0
    BY <1>1, <1>a DEF ServeLate
  <2>3. UNCHANGED <<thread, seen, doubts>> BY <1>1 DEF ServeLate, notice, prefs, history
  <2>4. Sent(d)' = Sent(d) /\ Tryers(d)' = Tryers(d) BY <2>3 DEF Sent, Tryers, Trying, In
  <2>5. registered'[d] + late'[d] <= registered[d] + late[d] /\ registered'[d] + late'[d] \in Nat
    BY <1>a, <2>1, <2>2
  <2>6. Count(d \in Members(seen) \/ Tryers(d) # {})' = Count(d \in Members(seen) \/ Tryers(d) # {})
    BY <2>3, <2>4 DEF Count, Members
  <2>7. Count(d \in Members(seen) \/ Tryers(d) # {}) \in 0..1 BY DEF Count
  <2>8. registered'[d] + late'[d] + Cardinality(Sent(d)) <= doubts'[d] + Count(d \in Members(seen) \/ Tryers(d) # {})
    BY <1>a, <1>c, <2>3, <2>5, <2>7 DEF Accounted
  <2> QED BY <2>4, <2>6, <2>8 DEF Accounted
<1>2. CASE Kill
  <2>1. UNCHANGED registered /\ seen' = disk.seen /\ disk' = disk BY <1>2 DEF Kill
  <2>2. late'[d] = late[d] + Cardinality(Sent(d)) BY <1>2 DEF Kill
  <2>3. doubts'[d] = doubts[d] + Cardinality(Tryers(d)) + Count(d \in Members(seen) \ Members(disk.seen))
    BY <1>2 DEF Kill
  <2>4. thread' = [t \in Threads |-> Idle] BY <1>2 DEF Kill
  <2>5. Sent(d)' = {} BY <2>4 DEF Sent, In, Idle
  <2>6. Cardinality(Sent(d)') = 0 BY <2>5, FS_EmptySet
  <2>7. Count(d \in Members(seen) \/ Tryers(d) # {})
          <= Cardinality(Tryers(d)) + Count(d \in Members(seen) \ Members(disk.seen))
               + Count(d \in Members(disk.seen))
    BY <1>c DEF Count
  <2>8. Count(d \in Members(disk.seen)) <= Count(d \in Members(seen) \/ Tryers(d) # {})'
    BY <2>1 DEF Count, Members
  <2>9. \A b : Count(b) \in 0..1 BY DEF Count
  <2>10. Count(d \in Members(seen) \/ Tryers(d) # {})' \in 0..1 BY DEF Count
  <2>11. registered'[d] + late'[d] <= doubts'[d] + Count(d \in Members(seen) \/ Tryers(d) # {})'
    BY <1>a, <1>c, <2>1, <2>2, <2>3, <2>7, <2>8, <2>9, <2>10 DEF Accounted
  <2>12. registered'[d] + late'[d] + 0 = registered'[d] + late'[d] BY <1>a, <1>c, <2>1, <2>2
  <2> QED BY <2>6, <2>11, <2>12 DEF Accounted
<1>3. CASE Application \/ UNCHANGED vars
  <2>1. UNCHANGED <<thread, seen, doubts, registered, late>>
    BY <1>3 DEF Application, Open, PageLoads, Close, DrainRead, DrainEnd, Flush, vars, notice,
                prefs, server, history
  <2>2. Sent(d)' = Sent(d) /\ Tryers(d)' = Tryers(d) BY <2>1 DEF Sent, Tryers, Trying, In
  <2>3. Count(d \in Members(seen) \/ Tryers(d) # {})' = Count(d \in Members(seen) \/ Tryers(d) # {})
    BY <2>1, <2>2 DEF Count, Members
  <2> QED BY <2>1, <2>2, <2>3 DEF Accounted
<1> QED BY <1>1, <1>2, <1>3

\* A thread without work or with a new notice has no answer.
LEMMA FreshStep == TypeInv /\ Fresh /\ [Next]_vars => Fresh'
<1> SUFFICES ASSUME TypeInv, Fresh, [Next]_vars PROVE Fresh' OBVIOUS
<1>a. thread \in [Threads -> Thread] BY DEF TypeInv, TypeOK
<1>1. ASSUME NEW t \in Threads, Runs(t) \/ Serve(t) \/ (\E d \in Deposits : Arrive(t, d))
      PROVE  Fresh'
  <2>1. /\ \A u \in Threads \ {t} : thread'[u] = thread[u]
        /\ thread'[t].phase \in {"idle", "begun"} => thread'[t].result = "none"
    <3>1. ASSUME NEW p \in {"log", "sent", "enqueue"}, Go(t, p)
          PROVE  \A u \in Threads \ {t} : thread'[u] = thread[u]
      BY <3>1, GoRow
    <3>2. ASSUME NEW p \in {"log", "sent", "enqueue"}, Go(t, p) PROVE thread'[t].phase = p
      BY <3>2, GoRow
    <3>3. CASE Ignore(t) \/ CommitRefused(t)
      BY <3>1, <3>2, <3>3, IdleRow DEF Ignore, CommitRefused
    <3>4. CASE Process(t) \/ Heard(t) BY <3>1, <3>2, <3>4 DEF Process, Heard
    <3>5. CASE LogEntry(t) \/ Enqueue(t) \/ EnqueueWrite(t)
      BY <3>1, <3>2, <3>5, ContinueRow, PutRow DEF LogEntry, EnqueueWrite
    <3>6. CASE GiveUp(t)
      <4>1. thread' = [thread EXCEPT ![t].phase = "log", ![t].result = "none"]
        BY <3>6 DEF GiveUp, Forget
      <4> QED BY <1>a, <4>1 DEF Thread
    <3>7. CASE Serve(t)
      <4>1. PICK a \in Answers : thread' = [thread EXCEPT ![t].phase = "answered", ![t].result = a]
        BY <3>7 DEF Serve
      <4> QED BY <1>a, <4>1 DEF Thread
    <3>8. ASSUME NEW d \in Deposits, Arrive(t, d)
          PROVE  /\ \A u \in Threads \ {t} : thread'[u] = thread[u]
                 /\ thread'[t].result = "none"
      <4>1. thread' = [thread EXCEPT ![t] = [Idle EXCEPT !.phase = "begun", !.dep = d, !.entry = notices]]
        BY <3>8 DEF Arrive
      <4> QED BY <1>a, <4>1 DEF Idle
    <3> QED BY <1>1, <3>3, <3>4, <3>5, <3>6, <3>7, <3>8 DEF Runs
  <2> QED BY <2>1 DEF Fresh
<1>2. CASE Application \/ Kill \/ (\E d \in Deposits : ServeLate(d)) \/ UNCHANGED vars
  <2>1. UNCHANGED thread \/ thread' = [t \in Threads |-> Idle]
    BY <1>2 DEF Application, Open, PageLoads, Close, DrainRead, DrainEnd, Flush, Kill, ServeLate,
                vars, notice
  <2> QED BY <2>1 DEF Fresh, Idle
<1> QED BY <1>1, <1>2 DEF Next

LEMMA CountStep == TypeInv /\ CountInv /\ [Next]_vars => CountInv'
<1> SUFFICES ASSUME TypeInv, CountInv, [Next]_vars PROVE CountInv' OBVIOUS
<1>1. TypeInv' BY TypeStep
<1>2. Fresh /\ Fresh' BY FreshStep DEF CountInv
<1>3. ASSUME NEW d \in Deposits PROVE Accounted(d)'
  <2>1. Accounted(d) BY DEF CountInv
  <2>2. ASSUME NEW t \in Threads, Runs(t) \/ Serve(t) \/ (\E x \in Deposits : Arrive(t, x))
        PROVE  Accounted(d)' BY <1>1, <1>2, <2>1, <2>2, ThreadAccount
  <2>3. CASE Application \/ Kill \/ (\E x \in Deposits : ServeLate(x)) \/ UNCHANGED vars
    BY <2>1, <2>3, WorldAccount
  <2> QED BY <2>2, <2>3 DEF Next
<1> QED BY <1>2, <1>3 DEF CountInv

\* No deposit is registered again without a reason of its own: two notices
\* that overlapped, an answer that was not heard, or a key that was forgotten,
\* for any number of threads and any number of remembered keys
\* (DepositAutoDetector.isDuplicate, commitSeen).
THEOREM RepeatsHaveReasons == Spec => []RegisteredForReason
<1>1. Init => CountInv
  <2> SUFFICES ASSUME Init PROVE CountInv OBVIOUS
  <2>1. thread = [t \in Threads |-> Idle] /\ seen = << >> BY DEF Init
  <2>2. ASSUME NEW d \in Deposits PROVE Accounted(d)
    <3>1. Sent(d) = {} BY <2>1 DEF Sent, In, Idle
    <3>2. Cardinality(Sent(d)) = 0 BY <3>1, FS_EmptySet
    <3>3. registered[d] = 0 /\ late[d] = 0 /\ doubts[d] = 0 BY DEF Init
    <3>4. Count(d \in Members(seen) \/ Tryers(d) # {}) \in {0, 1} BY DEF Count
    <3> QED BY <3>2, <3>3, <3>4 DEF Accounted
  <2>3. Fresh BY <2>1 DEF Fresh, Idle
  <2> QED BY <2>2, <2>3 DEF CountInv
<1>2. TypeInv /\ CountInv => RegisteredForReason
  <2> SUFFICES ASSUME TypeInv, CountInv, NEW d \in Deposits PROVE registered[d] <= 1 + doubts[d]
    BY DEF RegisteredForReason
  <2>1. registered[d] \in Nat /\ late[d] \in Nat /\ doubts[d] \in Nat BY DEF TypeInv, TypeOK
  <2>2. Sent(d) \in SUBSET Threads BY DEF Sent
  <2>3. Cardinality(Sent(d)) \in Nat BY <2>2, Sizes
  <2>4. Count(d \in Members(seen) \/ Tryers(d) # {}) \in {0, 1} BY DEF Count
  <2>5. Accounted(d) BY DEF CountInv
  <2> QED BY <2>1, <2>3, <2>4, <2>5 DEF Accounted
<1> QED BY InitType, TypeStep, CountStep, <1>1, <1>2, PTL DEF Spec

-------------------------------------------------------------------------------
(* Entries of the log.                                                     *)

\* Thread t has still to log entry e; a drain or the queue has e.
Telling == {"begun", "sent", "answered", "log", "enqueue", "put"}
Waits(t, e) == thread[t].phase \in Telling /\ thread[t].entry = e
Queued(e) == e \in Members(logQueue) \cup Members(draining)
Copied(e) == \E t \in Threads : e \in Members(thread[t].queue)

\* What nobody has logged yet is nowhere, each notice has one thread, and what
\* nothing has brought back is queued only until the page has shown it.
Untold(e) == shown[e] = 0 /\ ~Queued(e) /\ ~Copied(e) /\ e \notin Members(disk.logs)
OwnNotice(t, e) == Waits(t, e) => e > notices /\ \A u \in Threads : Waits(u, e) => t = u
QueuedOnce(e) == e \in replayed \/ (shown[e] <= 1 /\ (Queued(e) => shown[e] = 0))
LogInv ==
  /\ \A e \in Entries : e <= notices \/ (\E t \in Threads : Waits(t, e)) => Untold(e)
  /\ \A e \in Entries, t \in Threads : OwnNotice(t, e)
  /\ \A e \in Entries : QueuedOnce(e)

LEMMA EmptyMembers == Members(<< >>) = {}
BY DEF Members

\* How a thread goes on with its entry.
LEMMA GoEntry ==
  ASSUME TypeInv, NEW t \in Threads, NEW p, Go(t, p)
  PROVE  /\ thread'[t].entry = thread[t].entry /\ thread'[t].phase = p
         /\ thread'[t].queue = thread[t].queue
<1>1. thread \in [Threads -> Thread] BY DEF TypeInv, TypeOK
<1>2. thread' = [thread EXCEPT ![t] = [thread[t] EXCEPT !.phase = p]] BY <1>1 DEF Go
<1> QED BY <1>1, <1>2 DEF Thread

\* What the step of a thread does to the log: nothing, show the entry, or put it
\* into the queue, in the state in which the thread has read that.
LEMMA LogThread ==
  ASSUME TypeInv, NEW t \in Threads, Runs(t) \/ Serve(t)
  PROVE  /\ UNCHANGED <<notices, disk, draining>>
         /\ \A u \in Threads \ {t} : thread'[u] = thread[u]
         /\ \A e : Waits(t, e)' => Waits(t, e)
         /\ \A e \in Members(thread'[t].queue) : e \in Members(thread[t].queue) \/ e \in Members(logQueue)
         /\ \/ UNCHANGED <<shown, logQueue, replayed>>
            \/ /\ \A e : ~Waits(t, e)'
               /\ Waits(t, thread[t].entry) /\ thread[t].entry \in Entries
               /\ UNCHANGED <<logQueue, replayed>> /\ Show(<<thread[t].entry>>)
            \/ /\ \A e : ~Waits(t, e)'
               /\ Waits(t, thread[t].entry) /\ thread[t].entry \in Entries
               /\ shown' = shown /\ logQueue' = Push(thread[t].queue, thread[t].entry, MaxLog)
               /\ replayed' = replayed \cup (Members(thread[t].queue) \ Members(logQueue))
<1>a. thread \in [Threads -> Thread] BY DEF TypeInv, TypeOK
<1>b. thread[t].phase # "idle" => thread[t].entry \in Entries BY DEF TypeInv, Busy
<1>c. Idle.queue = << >> BY DEF Idle
<1>1. CASE Ignore(t) \/ Process(t) \/ Heard(t) \/ CommitRefused(t)
  <2>1. UNCHANGED <<notices, disk, draining, replayed, shown, logQueue>>
    BY <1>1 DEF Ignore, Process, Heard, CommitRefused, prefs, screen, history
  <2>2. (\E p \in {"log", "sent"} : Go(t, p) /\ thread[t].phase \in Telling)
          \/ thread' = [thread EXCEPT ![t] = Idle]
    BY <1>1 DEF Ignore, Process, Heard, CommitRefused, In, Telling
  <2>3. CASE thread' = [thread EXCEPT ![t] = Idle]
    BY <1>c, <2>1, <2>3, IdleRow, EmptyMembers DEF Waits, Telling
  <2>4. ASSUME NEW p \in {"log", "sent"}, Go(t, p), thread[t].phase \in Telling
        PROVE  /\ \A u \in Threads \ {t} : thread'[u] = thread[u]
               /\ \A e : Waits(t, e)' => Waits(t, e)
               /\ thread'[t].queue = thread[t].queue
    BY <2>4, GoRow, GoEntry DEF Waits
  <2> QED BY <2>1, <2>2, <2>3, <2>4
<1>2. CASE GiveUp(t) \/ Serve(t)
  <2>1. UNCHANGED <<notices, disk, draining, replayed, shown, logQueue>>
    BY <1>2 DEF GiveUp, Forget, Serve, prefs, screen, history
  <2>2. thread[t].phase \in Telling BY <1>2 DEF GiveUp, Serve, In, Telling
  <2>3. /\ thread'[t].entry = thread[t].entry /\ thread'[t].queue = thread[t].queue
        /\ \A u \in Threads \ {t} : thread'[u] = thread[u]
    BY <1>2, <1>a DEF GiveUp, Forget, Serve, Thread
  <2> QED BY <2>1, <2>2, <2>3 DEF Waits
<1>3. CASE LogEntry(t)
  <2>1. UNCHANGED <<notices, disk, draining, replayed, logQueue>> /\ thread[t].phase = "log"
    BY <1>3 DEF LogEntry, prefs, history, In
  <2>2. CASE Go(t, "enqueue") /\ UNCHANGED shown
    BY <2>1, <2>2, GoRow, GoEntry DEF Waits, Telling
  <2>3. CASE Show(<<thread[t].entry>>) /\ Continue(t)
    <3>1. \A e : ~Waits(t, e)' BY <2>3, ContinueRow DEF Waits, Telling
    <3>2. Waits(t, thread[t].entry) BY <2>1 DEF Waits, Telling
    <3> QED BY <2>1, <2>3, <3>1, <3>2, <1>b, ContinueRow, EmptyMembers
  <2> QED BY <1>3, <2>2, <2>3 DEF LogEntry
<1>4. CASE Enqueue(t)
  <2>1. UNCHANGED <<notices, disk, draining, replayed, shown, logQueue>>
    BY <1>4 DEF Enqueue, prefs, screen, history
  <2>2. \A e : Waits(t, e)' => Waits(t, e) BY <1>4, PutRow DEF Waits, Telling
  <2> QED BY <1>4, <2>1, <2>2, PutRow
<1>5. CASE EnqueueWrite(t)
  <2>1. /\ UNCHANGED <<notices, disk, draining, shown>> /\ thread[t].phase = "put"
        /\ Continue(t) /\ logQueue' = Push(thread[t].queue, thread[t].entry, MaxLog)
        /\ replayed' = replayed \cup (Members(thread[t].queue) \ Members(logQueue))
    BY <1>5 DEF EnqueueWrite, screen, In
  <2>2. \A e : ~Waits(t, e)' BY <2>1, ContinueRow DEF Waits, Telling
  <2>3. Waits(t, thread[t].entry) BY <2>1 DEF Waits, Telling
  <2> QED BY <2>1, <2>2, <2>3, <1>b, ContinueRow, EmptyMembers
<1> QED BY <1>1, <1>2, <1>3, <1>4, <1>5 DEF Runs

\* Whose entry the queue has when thread t has put one into it.
LEMMA PushQueued ==
  ASSUME TypeInv, NEW t \in Threads, NEW x \in Entries, logQueue' = Push(thread[t].queue, x, MaxLog),
         UNCHANGED draining, NEW e, Queued(e)'
  PROVE  e = x \/ Queued(e) \/ e \in Members(thread[t].queue) \ Members(logQueue)
<1>1. thread[t].queue \in Seq(Entries) /\ MaxLog \in Nat \ {0}
  BY DetectorAssumption DEF TypeInv, TypeOK, Thread, Queues
<1>2. ASSUME NEW y \in Members(Push(thread[t].queue, x, MaxLog))
      PROVE  y = x \/ y \in Members(thread[t].queue)
  BY <1>1, PushMembers
<1>3. e \in Members(Push(thread[t].queue, x, MaxLog)) \/ e \in Members(draining)
  BY DEF Queued, Members
<1> QED BY <1>2, <1>3 DEF Queued

LEMMA LogThreadStep ==
  ASSUME TypeInv, LogInv, NEW t \in Threads, Runs(t) \/ Serve(t) PROVE LogInv'
<1>0. PICK x : x = thread[t].entry OBVIOUS
<1>a. /\ UNCHANGED <<notices, disk, draining>>
      /\ \A u \in Threads : \A e : Waits(u, e)' => Waits(u, e)
      /\ shown \in [Entries -> Nat]
  BY LogThread DEF Waits, TypeInv, TypeOK
<1>c. ASSUME NEW e, Copied(e)' PROVE Copied(e) \/ Queued(e)
  <2>1. PICK u \in Threads : e \in Members(thread'[u].queue) BY <1>c DEF Copied, Members
  <2>2. CASE u = t BY <2>1, <2>2, LogThread DEF Copied, Queued
  <2>3. CASE u # t BY <2>1, <2>3, LogThread DEF Copied
  <2> QED BY <2>2, <2>3
<1>1. \A e \in Entries, u \in Threads : OwnNotice(u, e)'
  BY <1>a DEF LogInv, OwnNotice
<1>2. ASSUME UNCHANGED <<shown, logQueue, replayed>> PROVE LogInv'
  <2>1. \A e \in Entries : Queued(e)' = Queued(e) BY <1>a, <1>2 DEF Queued, Members
  <2>2. \A e \in Entries : (Untold(e) => Untold(e)') /\ QueuedOnce(e)'
    BY <1>a, <1>2, <1>c, <2>1 DEF Untold, QueuedOnce, LogInv, Members
  <2> QED BY <1>1, <1>a, <2>2 DEF LogInv
<1>3. ASSUME \A e : ~Waits(t, e)', Waits(t, x), x \in Entries
      PROVE  /\ Untold(x) /\ ~(x <= notices') /\ \A u \in Threads : ~Waits(u, x)'
  <2>1. Untold(x) BY <1>3 DEF LogInv
  <2>2. x > notices /\ \A u \in Threads : Waits(u, x) => u = t BY <1>3 DEF LogInv, OwnNotice
  <2>3. notices \in Nat /\ x \in Nat
    BY <1>3, DetectorAssumption DEF TypeInv, TypeOK, Entries
  <2> QED BY <1>3, <1>a, <2>1, <2>2, <2>3
<1>4. ASSUME \A e : ~Waits(t, e)', Waits(t, x), x \in Entries, UNCHANGED <<logQueue, replayed>>,
             Show(<<x>>)
      PROVE  LogInv'
  <2>1. Members(<<x>>) = {x} BY DEF Members
  <2>2. \A e \in Entries : shown'[e] = shown[e] + Count(activity = "loaded" /\ e = x)
    BY <1>4, <2>1 DEF Show
  <2>3. \A e \in Entries \ {x} : shown'[e] = shown[e] BY <2>2, <1>a DEF Count
  <2>4. shown'[x] <= 1 BY <2>2, <1>3, <1>4 DEF Untold, Count
  <2>5. \A e \in Entries : Queued(e)' = Queued(e) BY <1>a, <1>4 DEF Queued, Members
  <2>6. \A e \in Entries : QueuedOnce(e)'
    <3>1. QueuedOnce(x)' BY <1>3, <1>4, <2>4, <2>5 DEF QueuedOnce, Untold
    <3>2. \A e \in Entries \ {x} : QueuedOnce(e)' BY <1>4, <2>3, <2>5 DEF QueuedOnce, LogInv
    <3> QED BY <3>1, <3>2
  <2>7. ASSUME NEW e \in Entries, e <= notices' \/ \E u \in Threads : Waits(u, e)'
        PROVE  Untold(e)'
    <3>1. e # x BY <2>7, <1>3, <1>4
    <3>2. Untold(e) BY <2>7, <1>a DEF LogInv
    <3> QED BY <3>1, <3>2, <2>3, <2>5, <1>a, <1>c DEF Untold, Members
  <2> QED BY <1>1, <2>6, <2>7 DEF LogInv
<1>5. ASSUME \A e : ~Waits(t, e)', Waits(t, x), x \in Entries,
             shown' = shown, logQueue' = Push(thread[t].queue, x, MaxLog),
             replayed' = replayed \cup (Members(thread[t].queue) \ Members(logQueue))
      PROVE  LogInv'
  <2>1. ASSUME NEW e \in Entries, Queued(e)'
        PROVE  e = x \/ Queued(e) \/ e \in Members(thread[t].queue) \ Members(logQueue)
    BY <1>5, <1>a, <2>1, PushQueued
  <2>2. ASSUME NEW e \in Entries PROVE QueuedOnce(e)'
    <3>1. QueuedOnce(e) BY DEF LogInv
    <3>2. CASE e \in Members(thread[t].queue) \ Members(logQueue)
      BY <1>5, <3>2 DEF QueuedOnce
    <3>3. CASE e \notin Members(thread[t].queue) \ Members(logQueue)
      <4>1. CASE e = x BY <1>a, <1>3, <1>5, <4>1 DEF QueuedOnce, Untold
      <4>2. CASE e # x BY <1>5, <2>1, <3>1, <3>3, <4>2 DEF QueuedOnce
      <4> QED BY <4>1, <4>2
    <3> QED BY <3>2, <3>3
  <2>3. ASSUME NEW e \in Entries, e <= notices' \/ \E u \in Threads : Waits(u, e)'
        PROVE  Untold(e)'
    <3>1. e # x BY <2>3, <1>3, <1>5
    <3>2. Untold(e) BY <2>3, <1>a DEF LogInv
    <3>3. e \notin Members(thread[t].queue) BY <3>2 DEF Untold, Copied
    <3> QED BY <3>1, <3>2, <3>3, <2>1, <1>5, <1>a, <1>c DEF Untold, Members
  <2> QED BY <1>1, <2>2, <2>3 DEF LogInv
<1> QED BY <1>0, <1>2, <1>4, <1>5, LogThread

LEMMA LogArriveStep ==
  ASSUME TypeInv, LogInv, NEW t \in Threads, NEW d \in Deposits, Arrive(t, d) PROVE LogInv'
<1>a. /\ notices \in Nat /\ notices > 0 /\ notices' = notices - 1 /\ notices \in Entries
      /\ UNCHANGED <<logQueue, draining, disk, shown, replayed>>
  BY DetectorAssumption DEF Arrive, TypeInv, TypeOK, Entries, prefs, screen, history
<1>b. \A e \in Entries : e \in Nat BY DetectorAssumption DEF Entries
<1>1. thread' = [thread EXCEPT ![t] = [Idle EXCEPT !.phase = "begun", !.dep = d, !.entry = notices]]
  BY DEF Arrive
<1>2. thread'[t].entry = notices /\ \A u \in Threads \ {t} : thread'[u] = thread[u]
  BY <1>1 DEF TypeInv, TypeOK, Idle
<1>3. \A e \in Entries, u \in Threads : Waits(u, e)' => Waits(u, e) \/ (u = t /\ e = notices)
  BY <1>2 DEF Waits
<1>4. /\ \A e \in Entries : Queued(e)' = Queued(e)
      /\ \A e \in Entries : Copied(e)' => Copied(e)
  <2>1. thread'[t].queue = << >> BY <1>1 DEF TypeInv, TypeOK, Idle
  <2> QED BY <1>2, <1>a, <2>1, EmptyMembers DEF Queued, Copied, Members
<1>5. \A e \in Entries, u \in Threads : OwnNotice(u, e)'
  <2> SUFFICES ASSUME NEW e \in Entries, NEW u \in Threads, Waits(u, e)'
               PROVE  e > notices' /\ \A v \in Threads : Waits(v, e)' => u = v
    BY DEF OwnNotice
  <2>1. CASE e = notices
    <3>1. \A v \in Threads : ~Waits(v, e)
      BY <2>1, <1>a, <1>b DEF LogInv, OwnNotice
    <3> QED BY <2>1, <3>1, <1>3, <1>a
  <2>2. CASE e # notices
    BY <2>2, <1>3, <1>a, <1>b DEF LogInv, OwnNotice
  <2> QED BY <2>1, <2>2
<1>6. \A e \in Entries : (Untold(e) => Untold(e)') /\ QueuedOnce(e)'
  BY <1>a, <1>4 DEF Untold, QueuedOnce, LogInv, Members
<1>7. \A e \in Entries : e <= notices' \/ (\E u \in Threads : Waits(u, e)') => Untold(e)
  BY <1>a, <1>b, <1>3 DEF LogInv
<1> QED BY <1>5, <1>6, <1>7 DEF LogInv

LEMMA LogWorldStep ==
  ASSUME TypeInv, LogInv,
         Application \/ Kill \/ (\E d \in Deposits : ServeLate(d)) \/ UNCHANGED vars
  PROVE  LogInv'
<1>a. shown \in [Entries -> Nat] /\ \A e \in Entries : e \in Nat
  BY DetectorAssumption DEF TypeInv, TypeOK, Entries
<1>1. ASSUME UNCHANGED <<notices, thread, replayed>>,
             \A e \in Entries : (Untold(e) => Untold(e)') /\ QueuedOnce(e)'
      PROVE  LogInv'
  BY <1>1 DEF LogInv, OwnNotice, Waits
<1>b. UNCHANGED thread => \A e : Copied(e)' = Copied(e) BY DEF Copied, Members
<1>2. CASE Open \/ PageLoads \/ Close \/ (\E d \in Deposits : ServeLate(d)) \/ UNCHANGED vars
  <2>1. UNCHANGED <<notices, thread, replayed, logQueue, draining, disk, shown>>
    BY <1>2 DEF Open, PageLoads, Close, ServeLate, vars, notice, prefs, screen, history
  <2>2. \A e \in Entries : Queued(e)' = Queued(e) BY <2>1 DEF Queued, Members
  <2> QED BY <1>1, <1>b, <2>1, <2>2 DEF Untold, QueuedOnce, LogInv, Members
<1>3. CASE DrainRead
  <2>1. UNCHANGED <<notices, thread, replayed, logQueue, disk, shown>> /\ draining' = logQueue
    BY <1>3 DEF DrainRead, notice, prefs, history
  <2>2. \A e \in Entries : Queued(e)' => Queued(e) BY <2>1 DEF Queued, Members
  <2> QED BY <1>1, <1>b, <2>1, <2>2 DEF Untold, QueuedOnce, LogInv, Members
<1>4. CASE DrainEnd
  <2>1. /\ UNCHANGED <<notices, thread, replayed, disk>> /\ draining' = << >> /\ logQueue' = << >>
        /\ \A e \in Entries : shown'[e] = shown[e] + Count(activity = "loaded" /\ e \in Members(draining))
    BY <1>4 DEF DrainEnd, Show, notice, history
  <2>2. \A e \in Entries : ~Queued(e)' BY <2>1, EmptyMembers DEF Queued, Members
  <2>3. \A e \in Entries : (~Queued(e) => shown'[e] = shown[e]) /\ shown'[e] <= shown[e] + 1
    BY <2>1, <1>a DEF Queued, Count
  <2>4. ASSUME NEW e \in Entries PROVE (Untold(e) => Untold(e)') /\ QueuedOnce(e)'
    <3>1. Untold(e) => Untold(e)' BY <1>b, <2>1, <2>2, <2>3 DEF Untold, Members
    <3>2. QueuedOnce(e) BY DEF LogInv
    <3>3. QueuedOnce(e)' BY <3>2, <2>1, <2>2, <2>3, <1>a DEF QueuedOnce
    <3> QED BY <3>1, <3>3
  <2> QED BY <1>1, <2>1, <2>4
<1>5. CASE Flush
  <2>1. /\ UNCHANGED <<notices, thread, replayed, logQueue, draining, shown>>
        /\ disk' = [seen |-> seen, logs |-> logQueue]
    BY <1>5 DEF Flush, notice, prefs, screen, history
  <2>2. disk'.logs = logQueue BY <2>1
  <2>3. \A e \in Entries : Queued(e)' = Queued(e) BY <2>1 DEF Queued, Members
  <2>4. \A e \in Entries : e \in Members(disk.logs)' => Queued(e) BY <2>2 DEF Queued, Members
  <2> QED BY <1>1, <1>b, <2>1, <2>3, <2>4 DEF Untold, QueuedOnce, LogInv
<1>6. CASE Kill
  <2>1. /\ UNCHANGED <<notices, disk, shown>> /\ draining' = << >> /\ logQueue' = disk.logs
        /\ thread' = [t \in Threads |-> Idle]
        /\ replayed' = replayed \cup (Members(disk.logs) \ Members(logQueue))
    BY <1>6 DEF Kill
  <2>2. \A t \in Threads : \A e : ~Waits(t, e)' BY <2>1 DEF Waits, Telling, Idle
  <2>3. \A e \in Entries : Queued(e)' <=> e \in Members(disk.logs)
    BY <2>1, EmptyMembers DEF Queued, Members
  <2>c. \A e : ~Copied(e)' BY <2>1, EmptyMembers DEF Copied, Idle, Members
  <2>4. \A e \in Entries : Untold(e) => Untold(e)' BY <2>1, <2>3, <2>c DEF Untold, Members
  <2>5. ASSUME NEW e \in Entries PROVE QueuedOnce(e)'
    <3>1. QueuedOnce(e) BY DEF LogInv
    <3>2. CASE e \in Members(disk.logs) \ Members(logQueue) BY <3>2, <2>1 DEF QueuedOnce
    <3>3. CASE e \notin Members(disk.logs) \ Members(logQueue)
      BY <3>1, <3>3, <2>1, <2>3 DEF QueuedOnce, Queued
    <3> QED BY <3>2, <3>3
  <2> QED BY <2>1, <2>2, <2>4, <2>5 DEF LogInv, OwnNotice
<1> QED BY <1>2, <1>3, <1>4, <1>5, <1>6 DEF Application

LEMMA LogStep == TypeInv /\ LogInv /\ [Next]_vars => LogInv'
<1> SUFFICES ASSUME TypeInv, LogInv, [Next]_vars PROVE LogInv' OBVIOUS
<1>1. ASSUME NEW t \in Threads, Runs(t) \/ Serve(t) PROVE LogInv' BY <1>1, LogThreadStep
<1>2. ASSUME NEW t \in Threads, NEW d \in Deposits, Arrive(t, d) PROVE LogInv'
  BY <1>2, LogArriveStep
<1>3. CASE Application \/ Kill \/ (\E d \in Deposits : ServeLate(d)) \/ UNCHANGED vars
  BY <1>3, LogWorldStep
<1> QED BY <1>1, <1>2, <1>3 DEF Next

\* The page shows an entry of the detection log once, whichever of the queue, a
\* drain and the running activity delivers it, unless it has come back into
\* the queue: the process died after the queue was emptied and before the file was
\* written, or a thread wrote the queue it had read before the drain emptied it
\* (enqueueLog, drainLogQueue).
THEOREM EntriesShownOnce == Spec => []ShownOnce
<1>1. Init => LogInv
  <2> SUFFICES ASSUME Init PROVE LogInv OBVIOUS
  <2>1. \A t \in Threads : \A e : ~Waits(t, e) BY DEF Init, Waits, Telling, Idle
  <2>2. \A e \in Entries : Untold(e) /\ QueuedOnce(e)
    BY EmptyMembers DEF Init, Untold, QueuedOnce, Queued, Copied, Idle
  <2> QED BY <2>1, <2>2 DEF LogInv, OwnNotice
<1>2. TypeInv /\ LogInv => ShownOnce
  <2>1. TypeInv => shown \in [Entries -> Nat] BY DEF TypeInv, TypeOK
  <2> QED BY <2>1 DEF LogInv, QueuedOnce, ShownOnce
<1> QED BY InitType, TypeStep, LogStep, <1>1, <1>2, PTL DEF Spec

===============================================================================
