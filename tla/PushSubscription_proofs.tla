------------------------ MODULE PushSubscription_proofs ------------------------
(***************************************************************************)
(* Theorems about PushSubscription for any accounts and endpoints, any     *)
(* number of uses of the switch that overlap, and whatever may still       *)
(* disturb the device.                                                     *)
(***************************************************************************)
EXTENDS PushSubscription, TLAPS

Asking == {"post", "sync", "remove", "cats", "again", "cats2"}

\* Where processes wait, and the requests there are: a request that somebody waits for is
\* the only one of its process; the worker renews a subscription that there was.
Fit(pr, cs) ==
  /\ pr \in [Procs -> Place] /\ cs \subseteq Call
  /\ \A c \in cs : c.by # None => pr[c.by].pc \in Asking /\ pr[c.by].answer = "none"
  /\ \A c, d \in cs : c.by # None /\ c.by = d.by => c = d
  /\ \A c \in cs : c.op = "report" => c.old \in Endpoints /\ c.by = None
  /\ \A p \in Procs : pr[p].answer = "none" \/ pr[p].pc \in Asking
  /\ pr[Page].pc \in {"idle", "key", "post", "sync"}
  /\ pr[Worker].pc \in {"idle", "key"}
  /\ pr[Worker].pc = "key" => pr[Worker].old \in Endpoints
  /\ \A h \in Hands : pr[h].pc # "sync"
  /\ \A h \in Hands : pr[h].pc \in {"cats", "again", "cats2"} => pr[h].new \in Endpoints

BrowserOK == sub \in Endpoints \cup {None} /\ live \subseteq {sub} \cap Endpoints
ServerOK ==
  /\ rows \in [Endpoints -> Accounts \cup {None}]
  /\ muted \subseteq {e \in Endpoints : rows[e] # None}
LocalOK ==
  /\ enabled \in BOOLEAN /\ due \in BOOLEAN /\ synced \in BOOLEAN
  /\ token \in Accounts \cup {None}
  /\ button \in BOOLEAN /\ box \in BOOLEAN
HistoryOK == quiet \in BOOLEAN /\ off \in BOOLEAN /\ stray \in BOOLEAN /\ wish \in BOOLEAN
BudgetOK == budget \in [app : {"user", "admin"}, left : [Events -> Int]]
TypeInv == BrowserOK /\ ServerOK /\ LocalOK /\ HistoryOK /\ BudgetOK /\ Fit(proc, calls)

LEMMA TypeInvOK == ASSUME TypeInv, barred \subseteq Accounts, kept \subseteq Accounts PROVE TypeOK
BY DEF TypeInv, BrowserOK, ServerOK, LocalOK, HistoryOK, Fit, TypeOK

-------------------------------------------------------------------------------
(* The operators of the model.                                             *)

LEMMA ProcFacts ==
  /\ Page \in Procs /\ Worker \in Procs /\ Hands \subseteq Procs
  /\ Page # Worker /\ Page \notin Hands /\ Worker \notin Hands
  /\ None \notin Procs /\ None \notin Endpoints /\ None \notin Accounts
BY PushAssumption DEF Procs, Page, Worker

LEMMA IdleFields ==
  Idle \in Place /\ Idle.pc = "idle" /\ Idle.old = None /\ Idle.new = None /\ Idle.answer = "none"
BY DEF Idle, Place

LEMMA AskFields ==
  ASSUME LocalOK, NEW op \in {"post", "delete", "leave", "put", "get", "report"}, NEW e \in Endpoints,
         NEW p \in Procs \cup {None}
  PROVE  /\ Ask(op, e, p) \in Call
         /\ Ask(op, e, p).op = op /\ Ask(op, e, p).e = e /\ Ask(op, e, p).old = None
         /\ Ask(op, e, p).owner = token /\ Ask(op, e, p).cats = "keep" /\ Ask(op, e, p).by = p
BY DEF LocalOK, Ask, Call

LEMMA SpendKeeps ==
  ASSUME BudgetOK, NEW k \in Events, Spend(k) PROVE BudgetOK' /\ budget'.app = budget.app
BY DEF BudgetOK, Spend

LEMMA GotoFacts ==
  ASSUME proc \in [Procs -> Place], NEW p \in Procs, NEW place, Goto(p, place)
  PROVE  proc'[p] = place /\ \A q \in Procs \ {p} : proc'[q] = proc[q]
BY DEF Goto

\* A process that does not wait has no request on its way.
LEMMA NoneBy ==
  ASSUME NEW pr, NEW cs, Fit(pr, cs), NEW p \in Procs, pr[p].pc \notin Asking \/ pr[p].answer # "none"
  PROVE  \A c \in cs : c.by # p
BY ProcFacts DEF Fit

LEMMA FreeIdle == ASSUME NEW h \in Hands, Free(h) PROVE proc[h] = Idle
BY DEF Free

\* A process moves on, with new requests of its own or of nobody.
LEMMA FitMove ==
  ASSUME NEW pr, NEW cs, Fit(pr, cs), NEW p \in Procs, NEW place \in Place, NEW new, new \subseteq Call,
         \A c \in cs : c.by # p, place.answer = "none" \/ place.pc \in Asking,
         \A c \in new : c.by \in {None, p},
         \A c \in new : c.by = p => place.pc \in Asking /\ place.answer = "none",
         \A c, d \in new : c.by = p /\ d.by = p => c = d,
         \A c \in new : c.op = "report" => c.old \in Endpoints /\ c.by = None,
         p = Page => place.pc \in {"idle", "key", "post", "sync"},
         p = Worker => place.pc \in {"idle", "key"} /\ (place.pc = "key" => place.old \in Endpoints),
         p \in Hands => /\ place.pc # "sync"
                        /\ place.pc \in {"cats", "again", "cats2"} => place.new \in Endpoints
  PROVE  Fit([pr EXCEPT ![p] = place], cs \cup new)
<1> DEFINE qr == [pr EXCEPT ![p] = place]
<1>1. qr \in [Procs -> Place] /\ qr[p] = place /\ \A q \in Procs \ {p} : qr[q] = pr[q] BY DEF Fit
<1>2. cs \cup new \subseteq Call BY DEF Fit
<1>3. \A c \in cs \cup new : c.by \in Procs \cup {None} BY <1>2 DEF Call
<1> HIDE DEF qr
<1>4. \A c \in cs \cup new : c.by # None => qr[c.by].pc \in Asking /\ qr[c.by].answer = "none"
  BY <1>1, <1>3, ProcFacts DEF Fit
<1>5. \A c, d \in cs \cup new : c.by # None /\ c.by = d.by => c = d BY <1>3 DEF Fit
<1>6. \A c \in cs \cup new : c.op = "report" => c.old \in Endpoints /\ c.by = None BY DEF Fit
<1>7. /\ qr[Page].pc \in {"idle", "key", "post", "sync"}
      /\ qr[Worker].pc \in {"idle", "key"}
      /\ qr[Worker].pc = "key" => qr[Worker].old \in Endpoints
  BY <1>1, ProcFacts DEF Fit
<1>8. /\ \A h \in Hands : qr[h].pc # "sync"
      /\ \A h \in Hands : qr[h].pc \in {"cats", "again", "cats2"} => qr[h].new \in Endpoints
  BY <1>1, ProcFacts DEF Fit
<1>a. \A q \in Procs : qr[q].answer = "none" \/ qr[q].pc \in Asking BY <1>1 DEF Fit
<1>9. Fit(qr, cs \cup new) BY <1>1, <1>2, <1>4, <1>a, <1>5, <1>6, <1>7, <1>8 DEF Fit
<1> QED BY <1>9 DEF qr

\* A process moves on and asks for nothing.
LEMMA FitGoto ==
  ASSUME NEW pr, NEW cs, Fit(pr, cs), NEW p \in Procs, NEW place \in Place,
         \A c \in cs : c.by # p, place.answer = "none" \/ place.pc \in Asking,
         p = Page => place.pc \in {"idle", "key", "post", "sync"},
         p = Worker => place.pc \in {"idle", "key"} /\ (place.pc = "key" => place.old \in Endpoints),
         p \in Hands => /\ place.pc # "sync"
                        /\ place.pc \in {"cats", "again", "cats2"} => place.new \in Endpoints
  PROVE  Fit([pr EXCEPT ![p] = place], cs)
<1> DEFINE new == {}
<1>1. new \subseteq Call /\ cs \cup new = cs /\ \A c \in new : FALSE OBVIOUS
<1> HIDE DEF new
<1>2. Fit([pr EXCEPT ![p] = place], cs \cup new) BY <1>1, FitMove
<1> QED BY <1>1, <1>2

\* A process moves on and sends one request, which it waits for or not.
LEMMA FitAsk ==
  ASSUME NEW pr, NEW cs, Fit(pr, cs), NEW p \in Procs, NEW place \in Place, NEW ask \in Call,
         \A c \in cs : c.by # p, ask.by \in {None, p}, place.answer = "none",
         ask.by = p => place.pc \in Asking,
         ask.op = "report" => ask.old \in Endpoints /\ ask.by = None,
         p = Page => place.pc \in {"idle", "key", "post", "sync"},
         p = Worker => place.pc \in {"idle", "key"} /\ (place.pc = "key" => place.old \in Endpoints),
         p \in Hands => /\ place.pc # "sync"
                        /\ place.pc \in {"cats", "again", "cats2"} => place.new \in Endpoints
  PROVE  Fit([pr EXCEPT ![p] = place], cs \cup {ask})
<1> DEFINE new == {ask}
<1>1. new \subseteq Call /\ \A c \in new : c = ask OBVIOUS
<1> HIDE DEF new
<1>2. Fit([pr EXCEPT ![p] = place], cs \cup new) BY <1>1, FitMove
<1> QED BY <1>2 DEF new

\* One that nobody waits for is sent, or some are taken away.
LEMMA FitSend ==
  ASSUME NEW pr, NEW cs, Fit(pr, cs), NEW new, new \subseteq Call, \A c \in new : c.by = None,
         \A c \in new : c.op = "report" => c.old \in Endpoints
  PROVE  Fit(pr, cs \cup new)
BY DEF Fit

LEMMA FitFewer ==
  ASSUME NEW pr, NEW cs, Fit(pr, cs), NEW fewer, fewer \subseteq cs PROVE Fit(pr, fewer)
BY DEF Fit

\* A request is answered.
LEMMA FitServe ==
  ASSUME NEW pr, NEW cs, Fit(pr, cs), NEW c \in cs, NEW qr, qr \in [Procs -> Place],
         \A p \in Procs : /\ qr[p].pc = pr[p].pc /\ qr[p].old = pr[p].old /\ qr[p].new = pr[p].new
                          /\ c.by # p => qr[p] = pr[p]
  PROVE  Fit(qr, cs \ {c})
<1>1. \A d \in cs : d \in Call /\ d.by \in Procs \cup {None} BY DEF Fit, Call
<1>2. ASSUME NEW d \in cs \ {c}, d.by # None
      PROVE  qr[d.by].pc \in Asking /\ qr[d.by].answer = "none"
  <2>1. d.by # c.by BY <1>2 DEF Fit
  <2>2. pr[d.by].pc \in Asking /\ pr[d.by].answer = "none" BY <1>2 DEF Fit
  <2> QED BY <1>1, <1>2, <2>1, <2>2
<1>3. ASSUME NEW p \in Procs PROVE qr[p].answer = "none" \/ qr[p].pc \in Asking
  <2>1. CASE c.by = p BY <2>1, ProcFacts DEF Fit
  <2>2. CASE c.by # p BY <2>2 DEF Fit
  <2> QED BY <2>1, <2>2
<1>4. /\ cs \ {c} \subseteq Call
      /\ \A d, e \in cs \ {c} : d.by # None /\ d.by = e.by => d = e
      /\ \A d \in cs \ {c} : d.op = "report" => d.old \in Endpoints /\ d.by = None
  BY DEF Fit
<1>5. /\ qr[Page].pc \in {"idle", "key", "post", "sync"}
      /\ qr[Worker].pc \in {"idle", "key"}
      /\ qr[Worker].pc = "key" => qr[Worker].old \in Endpoints
      /\ \A h \in Hands : qr[h].pc # "sync"
      /\ \A h \in Hands : qr[h].pc \in {"cats", "again", "cats2"} => qr[h].new \in Endpoints
  BY ProcFacts DEF Fit
<1> QED BY <1>2, <1>3, <1>4, <1>5 DEF Fit

LEMMA UnsubscribeOK ==
  ASSUME BrowserOK, NEW e, Unsubscribe(e) PROVE BrowserOK' /\ (sub = e => sub' = None)
BY DEF BrowserOK, Unsubscribe

LEMMA FreshFacts ==
  ASSUME NEW e, New(e) PROVE e \in Endpoints /\ rows[e] = None /\ e # sub
<1>1. Fresh # {} /\ e = CHOOSE x \in Fresh : TRUE BY DEF New
<1>2. e \in Fresh BY <1>1
<1> QED BY <1>2 DEF Fresh

\* What the refresh begins with: nothing, a request, or a subscription given up.
LEMMA StartShape ==
  ASSUME TypeInv, NEW others, Fit(others, calls), others[Page] = proc[Page], Start(others)
  PROVE  /\ Fit(proc', calls') /\ BrowserOK'
         /\ \A p \in Procs \ {Page} : proc'[p] = others[p]
         /\ ~enabled /\ sub = None => proc' = others /\ UNCHANGED <<browser, calls>>
<1> BrowserOK /\ LocalOK /\ others \in [Procs -> Place] BY DEF TypeInv, Fit
<1>1. CASE proc[Page] # Idle \/ (~enabled /\ sub = None)
  BY <1>1 DEF Start, browser, BrowserOK
<1>2. CASE proc[Page] = Idle /\ (enabled \/ sub # None) /\ sub # None /\ ~due
  <2>0. sub \in Endpoints BY <1>2 DEF BrowserOK
  <2>1. UNCHANGED browser BY <1>2 DEF Start
  <2>2. BrowserOK' BY <2>1 DEF browser, BrowserOK
  <2>3. CASE token # None /\ ~synced
    <3> DEFINE place == [Idle EXCEPT !.pc = "sync"]  ask == Ask("post", sub, Page)
    <3>1. /\ place \in Place /\ place.pc = "sync" /\ place.answer = "none"
      BY IdleFields DEF Place
    <3>2. ask \in Call /\ ask.by = Page /\ ask.op = "post" BY <2>0, AskFields, ProcFacts
    <3>3. proc' = [others EXCEPT ![Page] = place] /\ calls' = calls \cup {ask}
      BY <1>2, <2>3 DEF Start
    <3> HIDE DEF place, ask
    <3>4. \A c \in calls : c.by # Page BY <1>2, NoneBy, ProcFacts, IdleFields DEF Asking
    <3>5. Fit(proc', calls')
      BY <3>1, <3>2, <3>3, <3>4, FitMove, ProcFacts DEF Asking
    <3> QED BY <1>2, <2>1, <2>2, <3>3, <3>5
  <2>4. CASE ~ (token # None /\ ~synced)
    <3>1. proc' = others /\ calls' = calls BY <1>2, <2>4 DEF Start
    <3> QED BY <1>2, <2>2, <3>1
  <2> QED BY <2>3, <2>4
<1>3. CASE proc[Page] = Idle /\ (enabled \/ sub # None) /\ (sub = None \/ due)
  <2> DEFINE place == [Idle EXCEPT !.pc = "key", !.old = sub]
  <2>1. place \in Place /\ place.pc = "key" /\ place.answer = "none" BY IdleFields DEF Place, BrowserOK
  <2>2. Unsubscribe(sub) /\ calls' = calls /\ proc' = [others EXCEPT ![Page] = place]
    BY <1>3 DEF Start
  <2> HIDE DEF place
  <2>3. \A c \in calls : c.by # Page BY <1>3, NoneBy, ProcFacts, IdleFields DEF Asking
  <2>4. Fit(proc', calls') BY <2>1, <2>2, <2>3, FitGoto, ProcFacts
  <2>5. BrowserOK' BY <2>2, UnsubscribeOK
  <2> QED BY <1>3, <2>2, <2>4, <2>5
<1> QED BY <1>1, <1>2, <1>3

\* The refresh ends, and those who waited for it go on.
LEMMA FinishShape ==
  ASSUME Fit(proc, calls), Finish, \A c \in calls : c.by # Page
  PROVE  /\ Fit(proc', calls) /\ proc'[Page] = Idle
         /\ \A p \in Procs \ {Page} :
              /\ proc'[p] = proc[p] \/ (proc[p].pc = "await" /\ proc'[p].pc = "show")
<1>1. proc \in [Procs -> Place] BY DEF Fit
<1>2. ASSUME NEW p \in Procs \ {Page}
      PROVE  /\ proc'[p] \in Place
             /\ proc'[p] = proc[p] \/ (proc[p].pc = "await" /\ proc'[p].pc = "show")
  <2>1. proc'[p] = [proc[p] EXCEPT !.pc = IF @ = "await" THEN "show" ELSE @] BY DEF Finish
  <2>2. proc[p] \in Place BY <1>1
  <2>3. CASE proc[p].pc = "await" BY <2>1, <2>2, <2>3 DEF Place
  <2>4. CASE proc[p].pc # "await"
    <3>1. proc'[p] = [proc[p] EXCEPT !.pc = proc[p].pc] BY <2>1, <2>4
    <3>2. proc'[p] = proc[p] BY <2>2, <3>1 DEF Place
    <3> QED BY <2>2, <3>2
  <2> QED BY <2>3, <2>4
<1>3. proc'[Page] = Idle BY ProcFacts DEF Finish
<1>4. DOMAIN proc' = Procs /\ proc' = [p \in Procs |-> proc'[p]] BY DEF Finish
<1>5. proc' \in [Procs -> Place] BY <1>2, <1>3, <1>4, IdleFields
<1>6. calls \subseteq Call BY DEF Fit
<1>7. \A c \in calls : c.by # None => proc'[c.by].pc \in Asking /\ proc'[c.by].answer = "none"
  <2> SUFFICES ASSUME NEW c \in calls, c.by # None
               PROVE  proc'[c.by].pc \in Asking /\ proc'[c.by].answer = "none"
    OBVIOUS
  <2>1. c.by \in Procs \ {Page} /\ proc[c.by].pc \in Asking /\ proc[c.by].answer = "none"
    BY <1>6 DEF Fit, Call
  <2> QED BY <1>2, <2>1 DEF Asking
<1>8. /\ proc'[Worker].pc \in {"idle", "key"}
      /\ proc'[Worker].pc = "key" => proc'[Worker].old \in Endpoints
  BY <1>2, ProcFacts DEF Fit
<1>9. \A h \in Hands : /\ proc'[h].pc # "sync"
                       /\ proc'[h].pc \in {"cats", "again", "cats2"} => proc'[h].new \in Endpoints
  BY <1>2, ProcFacts DEF Fit
<1>a. \A p \in Procs : proc'[p].answer = "none" \/ proc'[p].pc \in Asking
  <2> SUFFICES ASSUME NEW p \in Procs \ {Page} PROVE proc'[p].answer = "none" \/ proc'[p].pc \in Asking
    BY <1>3, IdleFields
  <2>1. CASE proc'[p] = proc[p] BY <2>1 DEF Fit
  <2>2. CASE proc'[p] # proc[p]
    <3>1. proc[p].pc = "await" /\ proc[p] \in Place BY <1>1, <1>2, <2>2
    <3>2. proc'[p] = [proc[p] EXCEPT !.pc = "show"] BY <3>1 DEF Finish
    <3>3. proc'[p].answer = proc[p].answer BY <3>1, <3>2 DEF Place
    <3> QED BY <3>1, <3>3 DEF Fit, Asking
  <2> QED BY <2>1, <2>2
<1>10. Fit(proc', calls) BY <1>3, <1>5, <1>7, <1>a, <1>8, <1>9, IdleFields DEF Fit
<1> QED BY <1>2, <1>3, <1>10

LEMMA LogOutShape ==
  ASSUME TypeInv, NEW rest, LogOut(rest)
  PROVE  /\ token' = None /\ synced' = FALSE /\ stray' \in BOOLEAN
         /\ token = None => calls' = rest /\ stray' = stray
         /\ token # None => (stray' <=> Crossed)
         /\ \E new \in SUBSET Call : /\ calls' = rest \cup new
                                     /\ \A c \in new : c.by = None /\ c.op = "leave"
<1>1. Crossed \in BOOLEAN BY DEF Crossed, Busy
<1>2. /\ token' = None /\ synced' = FALSE /\ calls' = rest \cup Farewell
      /\ stray' = IF token = None THEN stray ELSE Crossed
  BY DEF LogOut
<1>3. Farewell \in SUBSET Call /\ \A c \in Farewell : c.by = None /\ c.op = "leave"
  <2>1. CASE sub # None /\ token # None
    <3>1. sub \in Endpoints BY <2>1 DEF TypeInv, BrowserOK
    <3> QED BY <2>1, <3>1, AskFields DEF Farewell, TypeInv
  <2>2. CASE ~ (sub # None /\ token # None) BY <2>2 DEF Farewell
  <2> QED BY <2>1, <2>2
<1>4. token = None => Farewell = {} BY DEF Farewell
<1> QED BY <1>1, <1>2, <1>3, <1>4 DEF TypeInv, HistoryOK

-------------------------------------------------------------------------------
(* What the steps do, and that they keep the types.                        *)

LEMMA ResumeType == ASSUME TypeInv, Resume PROVE TypeInv'
<1>1. Start(proc) /\ UNCHANGED <<server, local, token, shown, budget, off, stray, wish>> /\ quiet' = FALSE
  BY DEF Resume
<1>2. Fit(proc', calls') /\ BrowserOK' BY <1>1, StartShape DEF TypeInv
<1> QED BY <1>1, <1>2 DEF TypeInv, ServerOK, LocalOK, HistoryOK, BudgetOK, server, local, shown

LEMMA FaultKeeps ==
  ASSUME BudgetOK, Fault PROVE BudgetOK' /\ budget'.app = budget.app /\ quiet' = FALSE
BY SpendKeeps DEF Fault, Events

\* A process that has the key gets the subscription there is, or a new one, or nothing.
LEMMA GetShape ==
  ASSUME TypeInv, NEW p \in Procs, GetSubscription(p)
  PROVE  /\ TypeInv' /\ proc[p].pc = "key" /\ budget'.app = budget.app
         /\ \/ quiet' = FALSE /\ UNCHANGED <<browser, calls>>
            \/ /\ UNCHANGED quiet
               /\ \E e \in Endpoints : Subscribed(e) /\ Subscribe(e)
               /\ p # Worker => proc'[p].pc = "post"
               /\ p = Worker => \E c \in Call : /\ calls' = calls \cup {c} /\ c.op = "report"
                                                /\ c.old = proc[p].old
         /\ p # Page => proc'[p].pc \in {"idle", "refresh", "post"} /\ \A q \in Procs \ {p} : proc'[q] = proc[q]
         /\ p = Worker => proc'[p] = Idle
         /\ UNCHANGED <<server, local, token, shown, off, stray, wish>>
<1> BrowserOK /\ LocalOK /\ BudgetOK /\ Fit(proc, calls) /\ proc \in [Procs -> Place]
  BY DEF TypeInv, Fit
<1>0. /\ proc[p].pc = "key" /\ UNCHANGED <<server, local, token, shown, off, stray, wish>>
  BY DEF GetSubscription
<1>a. \A c \in calls : c.by # p BY <1>0, NoneBy DEF Asking
<1>t. BrowserOK' /\ BudgetOK' /\ quiet' \in BOOLEAN /\ Fit(proc', calls') => TypeInv'
  BY <1>0 DEF TypeInv, ServerOK, LocalOK, HistoryOK, server, local, shown
<1>1. CASE /\ Fault /\ UNCHANGED <<browser, calls>>
           /\ IF p = Page THEN Finish
              ELSE Goto(p, IF p \in Hands THEN [Idle EXCEPT !.pc = "refresh"] ELSE Idle)
  <2>1. BrowserOK' /\ BudgetOK' /\ quiet' = FALSE /\ budget'.app = budget.app
    BY <1>1, FaultKeeps DEF browser, BrowserOK
  <2>2. CASE p = Page
    <3>1. Fit(proc', calls') BY <1>1, <1>a, <2>2, FinishShape
    <3> QED BY <1>0, <1>1, <1>t, <2>1, <2>2, <3>1, ProcFacts
  <2>3. CASE p # Page
    <3> DEFINE place == IF p \in Hands THEN [Idle EXCEPT !.pc = "refresh"] ELSE Idle
    <3>1. /\ place \in Place /\ place.pc \in {"idle", "refresh"} /\ place.answer = "none"
          /\ p = Worker => place = Idle /\ place.pc = "idle"
      BY IdleFields, ProcFacts DEF Place
    <3>2. Goto(p, place) BY <1>1, <2>3
    <3> HIDE DEF place
    <3>3. proc'[p] = place /\ \A q \in Procs \ {p} : proc'[q] = proc[q] BY <3>2, GotoFacts
    <3>4. Fit(proc', calls')
      BY <1>1, <1>a, <2>3, <3>1, <3>2, FitGoto DEF Goto
    <3> QED BY <1>0, <1>1, <1>t, <2>1, <2>3, <3>1, <3>3, <3>4
  <2> QED BY <2>2, <2>3
<1>2. ASSUME NEW e \in Endpoints, Subscribed(e), Subscribe(e), NoFault
      PROVE  BrowserOK' /\ BudgetOK' /\ quiet' = quiet /\ budget' = budget /\ quiet' \in BOOLEAN
  <2>1. BrowserOK' BY <1>2, ProcFacts DEF Subscribe, Subscribed, BrowserOK
  <2> QED BY <1>2, <2>1 DEF NoFault, TypeInv, HistoryOK, BudgetOK
<1>3. ASSUME NEW e \in Endpoints, Subscribed(e), Subscribe(e), NoFault, p = Worker, Goto(p, Idle),
             calls' = calls \cup {[Ask("report", e, None) EXCEPT !.old = proc[p].old, !.owner = None]}
      PROVE  Fit(proc', calls') /\ \E c \in Call : /\ calls' = calls \cup {c} /\ c.op = "report"
                                                   /\ c.old = proc[p].old
  <2> DEFINE ask == [Ask("report", e, None) EXCEPT !.old = proc[p].old, !.owner = None]
  <2>0. PICK r \in Call : r = Ask("report", e, None) /\ r.op = "report" /\ r.by = None
    BY AskFields
  <2>1. ask \in Call /\ ask.op = "report" /\ ask.by = None /\ ask.old = proc[p].old /\ ask.old \in Endpoints
    <3>1. proc[p].old \in Endpoints BY <1>0, <1>3 DEF Fit
    <3>2. ask = [r EXCEPT !.old = proc[p].old, !.owner = None] BY <2>0
    <3> HIDE DEF ask
    <3> QED BY <2>0, <3>1, <3>2 DEF Call
  <2>2. calls' = calls \cup {ask} BY <1>3
  <2> HIDE DEF ask
  <2>3. proc' = [proc EXCEPT ![p] = Idle] BY <1>3 DEF Goto
  <2>5. Fit([proc EXCEPT ![p] = Idle], calls \cup {ask})
    BY <1>3, <1>a, <2>1, FitAsk, IdleFields, ProcFacts
  <2>4. Fit(proc', calls') BY <2>2, <2>3, <2>5
  <2> QED BY <2>1, <2>2, <2>4
<1>4. ASSUME NEW e \in Endpoints, p # Worker,
             Goto(p, [proc[p] EXCEPT !.pc = "post", !.new = e]),
             calls' = calls \cup {[Ask("post", e, p) EXCEPT
                     !.cats = IF Admin /\ p \in Hands THEN (IF box THEN "off" ELSE "on") ELSE "keep"]},
             proc[p].answer = "none"
      PROVE  Fit(proc', calls') /\ proc'[p].pc = "post"
  <2> DEFINE cats == IF Admin /\ p \in Hands THEN (IF box THEN "off" ELSE "on") ELSE "keep"
             ask == [Ask("post", e, p) EXCEPT !.cats = cats]
             place == [proc[p] EXCEPT !.pc = "post", !.new = e]
  <2>1. cats \in {"keep", "on", "off"} OBVIOUS
  <2>2. calls' = calls \cup {ask} /\ proc' = [proc EXCEPT ![p] = place] BY <1>4 DEF Goto
  <2> HIDE DEF cats
  <2>3. ask \in Call /\ ask.by = p /\ ask.op = "post"
    <3>1. Ask("post", e, p) \in Call /\ Ask("post", e, p).by = p /\ Ask("post", e, p).op = "post"
      BY AskFields
    <3> QED BY <2>1, <3>1 DEF Call
  <2>4. place \in Place /\ place.pc = "post" /\ place.answer = "none" BY <1>4 DEF Place
  <2> HIDE DEF ask, place
  <2>5. Fit(proc, calls) /\ ask \in Call /\ place.pc \in Asking BY <2>3, <2>4 DEF Asking
  <2>6. Fit([proc EXCEPT ![p] = place], calls \cup {ask})
    BY <1>4, <1>a, <2>3, <2>4, <2>5, FitAsk
  <2>7. Fit(proc', calls') BY <2>2, <2>6
  <2>8. proc'[p] = place BY <2>2
  <2> QED BY <2>4, <2>7, <2>8
<1>n. proc[p].answer = "none" BY <1>0 DEF Fit, Asking
<1>5. CASE \E e \in Endpoints :
             /\ Subscribed(e) /\ Subscribe(e) /\ NoFault
             /\ p = Worker /\ Goto(p, Idle)
             /\ calls' = calls \cup {[Ask("report", e, None) EXCEPT !.old = proc[p].old, !.owner = None]}
  <2>1. proc'[p] = Idle /\ \A q \in Procs \ {p} : proc'[q] = proc[q] BY <1>5, GotoFacts
  <2> QED BY <1>0, <1>2, <1>3, <1>5, <1>t, <2>1, ProcFacts, IdleFields
<1>6. CASE \E e \in Endpoints :
             /\ Subscribed(e) /\ Subscribe(e) /\ NoFault /\ p # Worker
             /\ Goto(p, [proc[p] EXCEPT !.pc = "post", !.new = e])
             /\ calls' = calls \cup {[Ask("post", e, p) EXCEPT
                     !.cats = IF Admin /\ p \in Hands THEN (IF box THEN "off" ELSE "on") ELSE "keep"]}
  <2>1. \A q \in Procs \ {p} : proc'[q] = proc[q] BY <1>6, GotoFacts
  <2> QED BY <1>0, <1>2, <1>4, <1>6, <1>n, <1>t, <2>1
<1> QED BY <1>0, <1>1, <1>5, <1>6 DEF GetSubscription

\* A use of the switch or the view goes on, without or with a request.
LEMMA HandGoes ==
  ASSUME TypeInv, NEW h \in Hands, NEW place \in Place, Goto(h, place), place.answer = "none",
         proc[h].pc \notin Asking \/ proc[h].answer # "none", place.pc # "sync",
         place.pc \in {"cats", "again", "cats2"} => place.new \in Endpoints
  PROVE  /\ Fit(proc', calls)
         /\ proc'[h] = place /\ \A q \in Procs \ {h} : proc'[q] = proc[q]
         /\ \A ask \in Call : /\ ask.by = None /\ ask.op # "report" => Fit(proc', calls \cup {ask})
                              /\ ask.by = h /\ ask.op # "report" /\ place.pc \in Asking =>
                                   Fit(proc', calls \cup {ask})
<1>1. h \in Procs /\ h # Page /\ h # Worker BY ProcFacts
<1>2. Fit(proc, calls) /\ proc \in [Procs -> Place] BY DEF TypeInv, Fit
<1>3. \A c \in calls : c.by # h BY <1>1, <1>2, NoneBy
<1>4. proc' = [proc EXCEPT ![h] = place] BY DEF Goto
<1>5. Fit([proc EXCEPT ![h] = place], calls) BY <1>1, <1>2, <1>3, FitGoto
<1>6. ASSUME NEW ask \in Call, ask.op # "report", ask.by = None \/ (ask.by = h /\ place.pc \in Asking)
      PROVE  Fit([proc EXCEPT ![h] = place], calls \cup {ask})
  <2>1. ask.by \in {None, h} /\ (ask.by = h => place.pc \in Asking) BY <1>1, <1>6, ProcFacts
  <2> QED BY <1>1, <1>2, <1>3, <1>6, <2>1, FitAsk
<1>7. proc'[h] = place /\ \A q \in Procs \ {h} : proc'[q] = proc[q] BY <1>1, <1>2, GotoFacts
<1> QED BY <1>4, <1>5, <1>6, <1>7

LEMMA FitLogOut ==
  ASSUME NEW pr, NEW rest, Fit(pr, rest), NEW new \in SUBSET Call,
         \A c \in new : c.by = None /\ c.op # "report"
  PROVE  Fit(pr, rest \cup new)
BY FitSend

LEMMA HearPostShape ==
  ASSUME TypeInv, HearPost
  PROVE  /\ TypeInv' /\ proc[Page].pc = "post" /\ proc'[Page] = Idle
         /\ \A p \in Procs \ {Page} :
              proc'[p] = proc[p] \/ (proc[p].pc = "await" /\ proc'[p].pc = "show")
         /\ token # None /\ token' = None => stray'
         /\ token' # None => token' = token
         /\ token = None => stray' = stray
         /\ UNCHANGED <<browser, server, shown, budget, quiet, off, wish>>
<1> LocalOK /\ Fit(proc, calls) /\ proc \in [Procs -> Place] BY DEF TypeInv, Fit
<1>1. /\ proc[Page].pc = "post" /\ proc[Page].answer # "none" /\ Finish
      /\ UNCHANGED <<browser, server, shown, budget, quiet, off, wish>>
  BY DEF HearPost
<1>2. \A c \in calls : c.by # Page BY <1>1, NoneBy, ProcFacts
<1>3. /\ Fit(proc', calls) /\ proc'[Page] = Idle
      /\ \A p \in Procs \ {Page} :
              proc'[p] = proc[p] \/ (proc[p].pc = "await" /\ proc'[p].pc = "show")
  BY <1>1, <1>2, FinishShape
<1>t. LocalOK' /\ stray' \in BOOLEAN /\ Fit(proc', calls') => TypeInv'
  BY <1>1 DEF TypeInv, BrowserOK, ServerOK, HistoryOK, BudgetOK, browser, server
<1>4. CASE /\ synced' = TRUE /\ enabled' = TRUE /\ due' = FALSE
           /\ calls' = calls \cup (IF Forgets(proc[Page].old)
                                   THEN {Ask("delete", proc[Page].old, None)} ELSE {})
           /\ UNCHANGED <<token, stray>>
  <2>1. LocalOK' /\ stray' \in BOOLEAN BY <1>1, <1>4 DEF LocalOK, TypeInv, HistoryOK, shown
  <2>2. CASE Forgets(proc[Page].old)
    <3>1. proc[Page].old \in Endpoints BY <2>2, ProcFacts DEF Forgets, Place
    <3> DEFINE ask == Ask("delete", proc[Page].old, None)
    <3>2. ask \in Call /\ ask.by = None /\ ask.op = "delete" BY <3>1, AskFields
    <3>3. calls' = calls \cup {ask} BY <1>4, <2>2
    <3> HIDE DEF ask
    <3>4. Fit(proc', calls') BY <1>3, <3>2, <3>3, FitLogOut
    <3> QED BY <1>1, <1>3, <1>4, <1>t, <2>1, <3>4
  <2>3. CASE ~ Forgets(proc[Page].old)
    <3>1. calls' = calls BY <1>4, <2>3
    <3> QED BY <1>1, <1>3, <1>4, <1>t, <2>1, <3>1
  <2> QED BY <2>2, <2>3
<1>5. CASE LogOut(calls) /\ UNCHANGED <<enabled, due>>
  <2>1. LocalOK' /\ stray' \in BOOLEAN BY <1>1, <1>5, LogOutShape DEF LocalOK, shown
  <2>a. PICK new \in SUBSET Call : /\ calls' = calls \cup new
                                    /\ \A c \in new : c.by = None /\ c.op = "leave"
    BY <1>5, LogOutShape
  <2>2. Fit(proc', calls') BY <1>3, <2>a, FitLogOut
  <2>3. Busy BY <1>1, IdleFields, ProcFacts DEF Busy
  <2>4. token # None => stray' BY <1>5, <2>3, LogOutShape DEF Crossed
  <2> QED BY <1>1, <1>3, <1>5, <1>t, <2>1, <2>2, <2>4, LogOutShape
<1>6. CASE UNCHANGED <<local, calls, token, stray>>
  <2>1. LocalOK' /\ stray' \in BOOLEAN BY <1>1, <1>6 DEF LocalOK, TypeInv, HistoryOK, shown, local
  <2> QED BY <1>1, <1>3, <1>6, <1>t, <2>1
<1> QED BY <1>4, <1>5, <1>6 DEF HearPost

LEMMA HearSyncShape ==
  ASSUME TypeInv, HearSync
  PROVE  /\ TypeInv' /\ proc[Page].pc = "sync" /\ proc'[Page] = Idle
         /\ \A p \in Procs \ {Page} :
              proc'[p] = proc[p] \/ (proc[p].pc = "await" /\ proc'[p].pc = "show")
         /\ token # None /\ token' = None => stray'
         /\ token' # None => token' = token
         /\ token = None => stray' = stray
         /\ UNCHANGED <<browser, server, enabled, due, shown, budget, quiet, off, wish>>
<1> LocalOK /\ Fit(proc, calls) BY DEF TypeInv
<1>1. /\ proc[Page].pc = "sync" /\ proc[Page].answer # "none" /\ Finish
      /\ \/ LogOut(calls)
         \/ synced' = (synced \/ proc[Page].answer = "ok") /\ UNCHANGED <<token, calls, stray>>
      /\ UNCHANGED <<browser, server, enabled, due, shown, budget, quiet, off, wish>>
  BY DEF HearSync
<1>2. \A c \in calls : c.by # Page BY <1>1, NoneBy, ProcFacts
<1>3. /\ Fit(proc', calls) /\ proc'[Page] = Idle
      /\ \A p \in Procs \ {Page} :
              proc'[p] = proc[p] \/ (proc[p].pc = "await" /\ proc'[p].pc = "show")
  BY <1>1, <1>2, FinishShape
<1>t. LocalOK' /\ stray' \in BOOLEAN /\ Fit(proc', calls') => TypeInv'
  BY <1>1 DEF TypeInv, BrowserOK, ServerOK, HistoryOK, BudgetOK, browser, server
<1>4. CASE LogOut(calls)
  <2>1. LocalOK' /\ stray' \in BOOLEAN BY <1>1, <1>4, LogOutShape DEF LocalOK, shown
  <2>2. PICK new \in SUBSET Call : /\ calls' = calls \cup new
                                    /\ \A c \in new : c.by = None /\ c.op = "leave"
    BY <1>4, LogOutShape
  <2>3. Fit(proc', calls') BY <1>3, <2>2, FitLogOut
  <2>4. Busy BY <1>1, IdleFields, ProcFacts DEF Busy
  <2>5. token # None => stray' BY <1>4, <2>4, LogOutShape DEF Crossed
  <2> QED BY <1>1, <1>3, <1>4, <1>t, <2>1, <2>3, <2>5, LogOutShape
<1>5. CASE synced' = (synced \/ proc[Page].answer = "ok") /\ UNCHANGED <<token, calls, stray>>
  <2>1. LocalOK' /\ stray' \in BOOLEAN BY <1>1, <1>5 DEF LocalOK, TypeInv, HistoryOK, shown
  <2> QED BY <1>1, <1>3, <1>5, <1>t, <2>1
<1> QED BY <1>1, <1>4, <1>5

LEMMA ToggleShape ==
  ASSUME TypeInv, NEW h \in Hands, Toggle(h)
  PROVE  /\ TypeInv' /\ token # None /\ off' = FALSE /\ quiet' = ~Busy /\ proc[h] = Idle
         /\ proc'[h].pc = "remove" => enabled' = FALSE /\ proc'[h].new = sub
         /\ \A q \in Procs \ {h} : proc'[q] = proc[q]
         /\ UNCHANGED <<browser, server, due, synced, token, box, stray, wish>>
<1> LocalOK BY DEF TypeInv
<1>1. /\ token # None /\ proc[h] = Idle /\ Spend("toggles") /\ button' = FALSE /\ quiet' = ~Busy /\ off' = FALSE
      /\ UNCHANGED <<browser, server, due, synced, token, box, stray, wish>>
  BY FreeIdle DEF Toggle
<1>2. BudgetOK' BY <1>1, SpendKeeps DEF Events, TypeInv
<1>b. quiet' \in BOOLEAN BY <1>1 DEF Busy
<1>t. enabled' \in BOOLEAN /\ Fit(proc', calls') => TypeInv'
  BY <1>1, <1>2, <1>b DEF TypeInv, BrowserOK, ServerOK, LocalOK, HistoryOK, browser, server
<1>3. CASE sub # None
  <2> DEFINE place == [Idle EXCEPT !.pc = "remove", !.new = sub]  ask == Ask("delete", sub, h)
  <2>0. sub \in Endpoints BY <1>3 DEF TypeInv, BrowserOK
  <2>1. /\ place \in Place /\ place.pc = "remove" /\ place.new = sub /\ place.answer = "none"
    BY <2>0, IdleFields DEF Place
  <2>2. ask \in Call /\ ask.by = h /\ ask.op = "delete" BY <2>0, AskFields, ProcFacts
  <2>3. enabled' = FALSE /\ Goto(h, place) /\ calls' = calls \cup {ask} BY <1>3 DEF Toggle
  <2> HIDE DEF place, ask
  <2>4. Fit(proc', calls') /\ proc'[h] = place /\ \A q \in Procs \ {h} : proc'[q] = proc[q]
    BY <1>1, <2>1, <2>2, <2>3, HandGoes, IdleFields DEF Asking
  <2> QED BY <1>1, <1>t, <2>1, <2>3, <2>4
<1>4. CASE sub = None
  <2> DEFINE place == [Idle EXCEPT !.pc = "key"]
  <2>1. place \in Place /\ place.pc = "key" /\ place.answer = "none" BY IdleFields DEF Place
  <2>2. Goto(h, place) /\ UNCHANGED <<enabled, calls>> BY <1>4 DEF Toggle
  <2> HIDE DEF place
  <2>4. Fit(proc', calls') /\ proc'[h] = place /\ \A q \in Procs \ {h} : proc'[q] = proc[q]
    BY <1>1, <2>1, <2>2, HandGoes, IdleFields DEF Asking
  <2> QED BY <1>1, <1>t, <2>1, <2>2, <2>4 DEF LocalOK
<1> QED BY <1>3, <1>4

LEMMA HearRemoveShape ==
  ASSUME TypeInv, NEW h \in Hands, HearRemove(h)
  PROVE  /\ TypeInv' /\ proc[h].pc = "remove" /\ proc'[h].pc = "refresh"
         /\ \A q \in Procs \ {h} : proc'[q] = proc[q]
         /\ UNCHANGED <<browser, off>> \/ (off' = quiet /\ (sub = proc[h].new => sub' = None))
         /\ token # None /\ token' = None => stray'
         /\ token' # None => token' = token
         /\ token = None => stray' = stray
         /\ UNCHANGED <<server, enabled, due, shown, budget, quiet, wish>>
<1> LocalOK /\ Fit(proc, calls) BY DEF TypeInv
<1>1. /\ proc[h].pc = "remove" /\ proc[h].answer # "none" /\ Goto(h, [Idle EXCEPT !.pc = "refresh"])
      /\ UNCHANGED <<browser, off>> \/ (Unsubscribe(proc[h].new) /\ off' = quiet)
      /\ LogOut(calls) \/ UNCHANGED <<synced, token, calls, stray>>
      /\ UNCHANGED <<server, enabled, due, shown, budget, quiet, wish>>
  BY DEF HearRemove
<1> DEFINE place == [Idle EXCEPT !.pc = "refresh"]
<1>2. place \in Place /\ place.pc = "refresh" /\ place.answer = "none" BY IdleFields DEF Place
<1>3. Goto(h, place) BY <1>1
<1> HIDE DEF place
<1>4. Fit(proc', calls) /\ proc'[h] = place /\ \A q \in Procs \ {h} : proc'[q] = proc[q]
  BY <1>1, <1>2, <1>3, HandGoes
<1>5. BrowserOK' BY <1>1, UnsubscribeOK DEF TypeInv, BrowserOK, browser
<1>6. off' \in BOOLEAN BY <1>1 DEF TypeInv, HistoryOK
<1>t. LocalOK' /\ stray' \in BOOLEAN /\ Fit(proc', calls') => TypeInv'
  BY <1>1, <1>5, <1>6 DEF TypeInv, ServerOK, HistoryOK, BudgetOK, server
<1>7. CASE LogOut(calls)
  <2>1. LocalOK' /\ stray' \in BOOLEAN BY <1>1, <1>7, LogOutShape DEF LocalOK, shown
  <2>2. PICK new \in SUBSET Call : /\ calls' = calls \cup new
                                    /\ \A c \in new : c.by = None /\ c.op = "leave"
    BY <1>7, LogOutShape
  <2>3. Fit(proc', calls') BY <1>4, <2>2, FitLogOut
  <2>4. Busy BY <1>1, IdleFields, ProcFacts DEF Busy
  <2>5. token # None => stray' BY <1>7, <2>4, LogOutShape DEF Crossed
  <2>6. /\ token # None /\ token' = None => stray'
        /\ token' # None => token' = token
        /\ token = None => stray' = stray
    BY <1>7, <2>5, LogOutShape
  <2> QED BY <1>1, <1>2, <1>4, <1>t, <2>1, <2>3, <2>6, UnsubscribeOK DEF TypeInv
<1>8. CASE UNCHANGED <<synced, token, calls, stray>>
  <2>1. LocalOK' /\ stray' \in BOOLEAN BY <1>1, <1>8 DEF LocalOK, TypeInv, HistoryOK, shown
  <2> QED BY <1>1, <1>2, <1>4, <1>8, <1>t, <2>1, UnsubscribeOK DEF TypeInv
<1> QED BY <1>1, <1>7, <1>8

LEMMA HearOnShape ==
  ASSUME TypeInv, NEW h \in Hands, HearOn(h)
  PROVE  /\ TypeInv' /\ proc[h].pc = "post" /\ proc'[h].pc = "refresh"
         /\ \A q \in Procs \ {h} : proc'[q] = proc[q]
         /\ token # None /\ token' = None => stray'
         /\ token' # None => token' = token
         /\ token = None => stray' = stray
         /\ UNCHANGED <<browser, server, due, shown, budget, quiet, off, wish>>
<1> LocalOK /\ Fit(proc, calls) BY DEF TypeInv
<1>1. /\ proc[h].pc = "post" /\ proc[h].answer # "none" /\ Goto(h, [Idle EXCEPT !.pc = "refresh"])
      /\ enabled' = (enabled \/ proc[h].answer = "ok")
      /\ LogOut(calls) \/ UNCHANGED <<synced, token, calls, stray>>
      /\ UNCHANGED <<browser, server, due, shown, budget, quiet, off, wish>>
  BY DEF HearOn
<1> DEFINE place == [Idle EXCEPT !.pc = "refresh"]
<1>2. place \in Place /\ place.pc = "refresh" /\ place.answer = "none" BY IdleFields DEF Place
<1>3. Goto(h, place) BY <1>1
<1> HIDE DEF place
<1>4. Fit(proc', calls) /\ proc'[h] = place /\ \A q \in Procs \ {h} : proc'[q] = proc[q]
  BY <1>1, <1>2, <1>3, HandGoes
<1>t. LocalOK' /\ stray' \in BOOLEAN /\ Fit(proc', calls') => TypeInv'
  BY <1>1 DEF TypeInv, BrowserOK, ServerOK, HistoryOK, BudgetOK, browser, server
<1>5. CASE LogOut(calls)
  <2>1. LocalOK' /\ stray' \in BOOLEAN BY <1>1, <1>5, LogOutShape DEF LocalOK, shown
  <2>2. PICK new \in SUBSET Call : /\ calls' = calls \cup new
                                    /\ \A c \in new : c.by = None /\ c.op = "leave"
    BY <1>5, LogOutShape
  <2>3. Fit(proc', calls') BY <1>4, <2>2, FitLogOut
  <2>4. Busy BY <1>1, IdleFields, ProcFacts DEF Busy
  <2>5. token # None => stray' BY <1>5, <2>4, LogOutShape DEF Crossed
  <2> QED BY <1>1, <1>2, <1>4, <1>5, <1>t, <2>1, <2>3, <2>5, LogOutShape
<1>6. CASE UNCHANGED <<synced, token, calls, stray>>
  <2>1. LocalOK' /\ stray' \in BOOLEAN BY <1>1, <1>6 DEF LocalOK, TypeInv, HistoryOK, shown
  <2> QED BY <1>1, <1>2, <1>4, <1>6, <1>t, <2>1
<1> QED BY <1>1, <1>5, <1>6

LEMMA OpenSettingsShape ==
  ASSUME TypeInv, NEW h \in Hands, OpenSettings(h)
  PROVE  /\ TypeInv' /\ token # None /\ proc[h] = Idle /\ proc'[h].pc = "refresh"
         /\ \A q \in Procs \ {h} : proc'[q] = proc[q]
         /\ UNCHANGED <<browser, server, local, token, shown, calls, history>>
<1>1. /\ token # None /\ proc[h] = Idle /\ Spend("views") /\ Goto(h, [Idle EXCEPT !.pc = "refresh"])
      /\ UNCHANGED <<browser, server, local, token, shown, calls, history>>
  BY FreeIdle DEF OpenSettings
<1>2. BudgetOK' BY <1>1, SpendKeeps DEF Events, TypeInv
<1> DEFINE place == [Idle EXCEPT !.pc = "refresh"]
<1>3. place \in Place /\ place.pc = "refresh" /\ place.answer = "none" BY IdleFields DEF Place
<1>4. Goto(h, place) BY <1>1
<1> HIDE DEF place
<1>5. Fit(proc', calls) /\ proc'[h] = place /\ \A q \in Procs \ {h} : proc'[q] = proc[q]
  BY <1>1, <1>3, <1>4, HandGoes, IdleFields DEF Asking
<1>6. TypeInv'
  BY <1>1, <1>2, <1>5
  DEF TypeInv, BrowserOK, ServerOK, LocalOK, HistoryOK, browser, server, local, shown, history
<1> QED BY <1>1, <1>3, <1>5, <1>6

LEMMA RefreshShape ==
  ASSUME TypeInv, NEW h \in Hands, RefreshButton(h)
  PROVE  /\ TypeInv' /\ proc[h].pc = "refresh" /\ quiet' = FALSE
         /\ ~enabled /\ sub = None =>
              /\ proc'[h].pc \in {"await", "show"}
              /\ \A q \in Procs \ {h} : proc'[q] = proc[q]
              /\ UNCHANGED browser
         /\ UNCHANGED <<server, local, token, shown, budget, off, stray, wish>>
<1> Fit(proc, calls) /\ proc \in [Procs -> Place] BY DEF TypeInv, Fit
<1>1. /\ proc[h].pc = "refresh" /\ quiet' = FALSE
      /\ UNCHANGED <<server, local, token, shown, budget, off, stray, wish>>
  BY DEF RefreshButton
<1>2. PICK pc \in {"await", "show"} : Start([proc EXCEPT ![h] = [Idle EXCEPT !.pc = pc]])
  BY DEF RefreshButton
<1> DEFINE place == [Idle EXCEPT !.pc = pc]
           others == [proc EXCEPT ![h] = place]
<1>3. place \in Place /\ place.pc = pc /\ place.answer = "none" BY IdleFields DEF Place
<1> HIDE DEF place
<1>4. others[Page] = proc[Page] /\ others[h] = place /\ \A q \in Procs \ {h} : others[q] = proc[q]
  BY ProcFacts
<1>5. Fit(others, calls)
  <2>1. \A c \in calls : c.by # h BY <1>1, NoneBy, ProcFacts DEF Asking
  <2> QED BY <1>3, <2>1, FitGoto, ProcFacts
<1>6. Start(others) BY <1>2 DEF place
<1> HIDE DEF others
<1>7. /\ Fit(proc', calls') /\ BrowserOK'
      /\ ~enabled /\ sub = None => proc' = others /\ UNCHANGED <<browser, calls>>
  BY <1>4, <1>5, <1>6, StartShape
<1>8. TypeInv'
  BY <1>1, <1>7 DEF TypeInv, ServerOK, LocalOK, HistoryOK, BudgetOK, server, local, shown
<1> QED BY <1>1, <1>3, <1>4, <1>7, <1>8

LEMMA ShowShape ==
  ASSUME TypeInv, NEW h \in Hands, ShowButton(h)
  PROVE  /\ TypeInv' /\ proc[h].pc = "show" /\ proc'[h].pc \in {"idle", "cats"}
         /\ \A q \in Procs \ {h} : proc'[q] = proc[q]
         /\ UNCHANGED <<browser, server, local, token, box, budget, history>>
<1> LocalOK BY DEF TypeInv
<1>1. /\ proc[h].pc = "show" /\ button' = TRUE
      /\ UNCHANGED <<browser, server, local, token, box, budget, history>>
  BY DEF ShowButton
<1>t. Fit(proc', calls') => TypeInv'
  BY <1>1 DEF TypeInv, BrowserOK, ServerOK, LocalOK, HistoryOK, BudgetOK, browser, server, local, history
<1>2. CASE Admin /\ sub # None
  <2> DEFINE place == [Idle EXCEPT !.pc = "cats", !.new = sub]  ask == Ask("get", sub, h)
  <2>1. sub \in Endpoints BY <1>2 DEF TypeInv, BrowserOK
  <2>2. place \in Place /\ place.pc = "cats" /\ place.new = sub /\ place.answer = "none"
    BY <2>1, IdleFields DEF Place
  <2>3. ask \in Call /\ ask.by = h /\ ask.op = "get" BY <2>1, AskFields, ProcFacts
  <2>4. Goto(h, place) /\ calls' = calls \cup {ask} BY <1>2 DEF ShowButton
  <2> HIDE DEF place, ask
  <2>5. Fit(proc', calls') /\ proc'[h] = place /\ \A q \in Procs \ {h} : proc'[q] = proc[q]
    BY <1>1, <2>1, <2>2, <2>3, <2>4, HandGoes DEF Asking
  <2> QED BY <1>1, <1>t, <2>2, <2>5
<1>3. CASE ~ (Admin /\ sub # None)
  <2>1. Goto(h, Idle) /\ calls' = calls BY <1>3 DEF ShowButton
  <2>2. Fit(proc', calls') /\ proc'[h] = Idle /\ \A q \in Procs \ {h} : proc'[q] = proc[q]
    BY <1>1, <2>1, HandGoes, IdleFields DEF Asking
  <2> QED BY <1>1, <1>t, <2>2, IdleFields
<1> QED BY <1>2, <1>3

LEMMA CategoriesShape ==
  ASSUME TypeInv, NEW h \in Hands, HearCategories(h)
  PROVE  /\ TypeInv' /\ proc[h].pc \in {"cats", "again", "cats2"}
         /\ proc'[h].pc \in {"idle", "again", "cats2"}
         /\ \A q \in Procs \ {h} : proc'[q] = proc[q]
         /\ UNCHANGED <<browser, server, enabled, due, token, button, budget, history>>
<1> LocalOK /\ Fit(proc, calls) BY DEF TypeInv
<1>1. /\ proc[h].answer # "none" /\ proc[h].pc \in {"cats", "again", "cats2"}
      /\ UNCHANGED <<browser, server, enabled, due, token, button, budget, history>>
  BY DEF HearCategories
<1>2. proc[h].new \in Endpoints BY <1>1 DEF Fit
<1>3. LocalOK' BY <1>1 DEF LocalOK, HearCategories
<1>t. Fit(proc', calls') => TypeInv'
  BY <1>1, <1>3 DEF TypeInv, BrowserOK, ServerOK, HistoryOK, BudgetOK, browser, server, history
<1>4. ASSUME NEW pc \in {"again", "cats2"}, NEW op \in {"post", "get"},
             Goto(h, [Idle EXCEPT !.pc = pc, !.new = proc[h].new]),
             calls' = calls \cup {Ask(op, proc[h].new, h)}
      PROVE  Fit(proc', calls') /\ proc'[h].pc = pc /\ \A q \in Procs \ {h} : proc'[q] = proc[q]
  <2> DEFINE place == [Idle EXCEPT !.pc = pc, !.new = proc[h].new]  ask == Ask(op, proc[h].new, h)
  <2>1. place \in Place /\ place.pc = pc /\ place.new = proc[h].new /\ place.answer = "none"
    BY <1>2, IdleFields DEF Place
  <2>2. ask \in Call /\ ask.by = h /\ ask.op = op BY <1>2, AskFields, ProcFacts
  <2>3. Goto(h, place) /\ calls' = calls \cup {ask} BY <1>4
  <2> HIDE DEF place, ask
  <2>4. Fit(proc', calls') /\ proc'[h] = place /\ \A q \in Procs \ {h} : proc'[q] = proc[q]
    BY <1>1, <1>2, <2>1, <2>2, <2>3, HandGoes DEF Asking
  <2> QED BY <2>1, <2>4
<1>5. ASSUME Goto(h, Idle), calls' = calls
      PROVE  Fit(proc', calls') /\ proc'[h].pc = "idle" /\ \A q \in Procs \ {h} : proc'[q] = proc[q]
  BY <1>1, <1>5, HandGoes, IdleFields
<1>6. \/ Goto(h, Idle) /\ calls' = calls
      \/ Goto(h, [Idle EXCEPT !.pc = "again", !.new = proc[h].new])
         /\ calls' = calls \cup {Ask("post", proc[h].new, h)}
      \/ Goto(h, [Idle EXCEPT !.pc = "cats2", !.new = proc[h].new])
         /\ calls' = calls \cup {Ask("get", proc[h].new, h)}
  BY DEF HearCategories
<1> QED BY <1>1, <1>4, <1>5, <1>6, <1>t

LEMMA ChooseShape ==
  ASSUME TypeInv, Choose
  PROVE  /\ TypeInv' /\ Admin
         /\ UNCHANGED <<browser, server, local, token, button, proc, history>>
<1> LocalOK /\ Fit(proc, calls) BY DEF TypeInv
<1>1. /\ Admin /\ sub # None /\ Spend("choices") /\ box' = ~box
      /\ calls' = calls \cup {[Ask("put", sub, None) EXCEPT !.cats = IF box THEN "on" ELSE "off"]}
      /\ UNCHANGED <<browser, server, local, token, button, proc, history>>
  BY DEF Choose
<1>2. BudgetOK' BY <1>1, SpendKeeps DEF Events, TypeInv
<1>3. sub \in Endpoints BY <1>1 DEF TypeInv, BrowserOK
<1> DEFINE ask == [Ask("put", sub, None) EXCEPT !.cats = IF box THEN "on" ELSE "off"]
<1>4. ask \in Call /\ ask.op = "put" /\ ask.by = None
  <2>1. Ask("put", sub, None) \in Call /\ Ask("put", sub, None).op = "put" /\ Ask("put", sub, None).by = None
    BY <1>3, AskFields
  <2> QED BY <2>1 DEF Call
<1>5. calls' = calls \cup {ask} BY <1>1
<1> HIDE DEF ask
<1>6. Fit(proc, calls \cup {ask}) BY <1>4, FitSend
<1>7. Fit(proc', calls') BY <1>1, <1>5, <1>6
<1>8. LocalOK' BY <1>1 DEF LocalOK, local
<1> QED BY <1>1, <1>2, <1>7, <1>8 DEF TypeInv, BrowserOK, ServerOK, HistoryOK, browser, server, history

LEMMA LogoutStep ==
  ASSUME TypeInv, Logout
  PROVE  /\ TypeInv' /\ token # None /\ token' = None /\ ~Admin /\ budget'.app = budget.app
         /\ stray' <=> Crossed
         /\ UNCHANGED <<browser, server, enabled, due, shown, proc, quiet, off, wish>>
<1> LocalOK /\ Fit(proc, calls) BY DEF TypeInv
<1>1. /\ ~Admin /\ token # None /\ Spend("logouts") /\ LogOut(calls)
      /\ UNCHANGED <<browser, server, enabled, due, shown, proc, quiet, off, wish>>
  BY DEF Logout
<1>2. BudgetOK' /\ budget'.app = budget.app BY <1>1, SpendKeeps DEF Events, TypeInv
<1>3. /\ token' = None /\ synced' = FALSE /\ stray' \in BOOLEAN /\ (stray' <=> Crossed)
  BY <1>1, LogOutShape
<1>4. PICK new \in SUBSET Call : /\ calls' = calls \cup new
                                 /\ \A c \in new : c.by = None /\ c.op = "leave"
  BY <1>1, LogOutShape
<1>5. Fit(proc, calls \cup new) BY <1>4, FitLogOut
<1>6. Fit(proc', calls') BY <1>1, <1>4, <1>5
<1>7. LocalOK' BY <1>1, <1>3 DEF LocalOK, shown
<1> QED BY <1>1, <1>2, <1>3, <1>6, <1>7 DEF TypeInv, BrowserOK, ServerOK, HistoryOK, browser, server

LEMMA ExpelShape ==
  ASSUME TypeInv, Expel
  PROVE  /\ TypeInv' /\ token \in barred /\ token' = None /\ (token # None => (stray' <=> Crossed))
         /\ LogOut(calls)
         /\ UNCHANGED <<browser, server, enabled, due, shown, proc, budget, quiet, off, wish>>
<1> LocalOK /\ Fit(proc, calls) BY DEF TypeInv
<1>1. /\ token \in barred /\ LogOut(calls)
      /\ UNCHANGED <<browser, server, enabled, due, shown, proc, budget, quiet, off, wish>>
  BY DEF Expel
<1>2. token' = None /\ synced' = FALSE /\ stray' \in BOOLEAN /\ (token # None => (stray' <=> Crossed))
  BY <1>1, LogOutShape
<1>3. PICK new \in SUBSET Call : /\ calls' = calls \cup new
                                 /\ \A c \in new : c.by = None /\ c.op = "leave"
  BY <1>1, LogOutShape
<1>4. Fit(proc, calls \cup new) BY <1>3, FitLogOut
<1>5. Fit(proc', calls') BY <1>1, <1>3, <1>4
<1>6. LocalOK' BY <1>1, <1>2 DEF LocalOK, shown
<1> QED BY <1>1, <1>2, <1>5, <1>6 DEF TypeInv, BrowserOK, ServerOK, HistoryOK, BudgetOK, browser, server

LEMMA StatusShape ==
  ASSUME TypeInv, NEW a \in Accounts, SetStatus(a)
  PROVE  /\ TypeInv' /\ budget'.app = budget.app
         /\ UNCHANGED <<browser, server, kept, local, token, shown, proc, calls, history>>
<1>1. /\ Spend("statuses")
      /\ UNCHANGED <<browser, server, kept, local, token, shown, proc, calls, history>>
  BY DEF SetStatus
<1>2. BudgetOK' /\ budget'.app = budget.app BY <1>1, SpendKeeps DEF Events, TypeInv
<1> QED
  BY <1>1, <1>2 DEF TypeInv, BrowserOK, ServerOK, LocalOK, HistoryOK, browser, server, local, shown, history

LEMMA LoginShape ==
  ASSUME TypeInv, NEW a \in Accounts, Login(a)
  PROVE  /\ TypeInv' /\ token' # None /\ quiet' = FALSE
         /\ ~enabled /\ sub = None => UNCHANGED <<browser, proc, calls>>
         /\ UNCHANGED <<server, local, shown, budget, off, stray, wish>>
<1> BrowserOK /\ LocalOK /\ Fit(proc, calls) /\ proc \in [Procs -> Place] BY DEF TypeInv, Fit
<1>1. /\ token' = a /\ token' # None /\ quiet' = FALSE
      /\ UNCHANGED <<server, local, shown, budget, off, stray, wish>>
  BY ProcFacts DEF Login
<1>2. LocalOK' BY <1>1 DEF LocalOK, local, shown
<1>t. Fit(proc', calls') /\ BrowserOK' => TypeInv'
  BY <1>1, <1>2 DEF TypeInv, ServerOK, HistoryOK, BudgetOK, server
<1>3. CASE proc[Page] = Idle /\ sub # None /\ ~due
  <2> DEFINE place == [Idle EXCEPT !.pc = "sync"]
             ask == [Ask("post", sub, Page) EXCEPT !.owner = a]
  <2>1. Goto(Page, place) /\ calls' = calls \cup {ask} /\ UNCHANGED browser
    BY <1>3 DEF Login
  <2>2. sub \in Endpoints BY <1>3 DEF BrowserOK
  <2>3. place \in Place /\ place.pc = "sync" /\ place.answer = "none" BY IdleFields DEF Place
  <2>4. ask \in Call /\ ask.by = Page /\ ask.op = "post"
    <3>1. Ask("post", sub, Page) \in Call /\ Ask("post", sub, Page).by = Page /\ Ask("post", sub, Page).op = "post"
      BY <2>2, AskFields, ProcFacts
    <3> QED BY <3>1 DEF Call
  <2>5. proc' = [proc EXCEPT ![Page] = place] BY <2>1 DEF Goto
  <2> HIDE DEF place, ask
  <2>6. \A c \in calls : c.by # Page BY <1>3, NoneBy, ProcFacts, IdleFields DEF Asking
  <2>7. Fit([proc EXCEPT ![Page] = place], calls \cup {ask})
    BY <2>3, <2>4, <2>6, FitAsk, ProcFacts DEF Asking
  <2>8. Fit(proc', calls') /\ BrowserOK' BY <2>1, <2>5, <2>7 DEF BrowserOK, browser
  <2> QED BY <1>1, <1>3, <1>t, <2>8
<1>4. CASE Start(proc)
  <2>1. /\ Fit(proc', calls') /\ BrowserOK'
        /\ ~enabled /\ sub = None => proc' = proc /\ UNCHANGED <<browser, calls>>
    BY <1>4, StartShape
  <2> QED BY <1>1, <1>t, <2>1
<1> QED BY <1>3, <1>4 DEF Login

LEMMA WakeShape ==
  ASSUME TypeInv, Wake
  PROVE  /\ TypeInv' /\ proc[Worker] = Idle /\ sub \in Endpoints /\ sub' = None /\ budget'.app = budget.app
         /\ proc'[Worker].pc = "key" /\ proc'[Worker].old = sub
         /\ \A p \in Procs \ {Worker} : proc'[p] = proc[p]
         /\ quiet' = FALSE /\ stray' = (stray \/ calls # {})
         /\ UNCHANGED <<server, local, token, shown, calls, off, wish>>
<1> BrowserOK /\ Fit(proc, calls) /\ proc \in [Procs -> Place] BY DEF TypeInv, Fit
<1>1. /\ proc[Worker] = Idle /\ sub # None /\ Spend("wakes") /\ Unsubscribe(sub)
      /\ Goto(Worker, [Idle EXCEPT !.pc = "key", !.old = sub])
      /\ quiet' = FALSE /\ stray' = (stray \/ calls # {})
      /\ UNCHANGED <<server, local, token, shown, calls, off, wish>>
  BY DEF Wake
<1>2. BudgetOK' /\ budget'.app = budget.app BY <1>1, SpendKeeps DEF Events, TypeInv
<1>3. sub \in Endpoints BY <1>1 DEF BrowserOK
<1>4. BrowserOK' /\ sub' = None BY <1>1, UnsubscribeOK
<1> DEFINE place == [Idle EXCEPT !.pc = "key", !.old = sub]
<1>5. place \in Place /\ place.pc = "key" /\ place.old = sub /\ place.answer = "none"
  BY <1>3, IdleFields DEF Place
<1>6. Goto(Worker, place) /\ proc' = [proc EXCEPT ![Worker] = place] BY <1>1 DEF Goto
<1> HIDE DEF place
<1>7. \A c \in calls : c.by # Worker BY <1>1, NoneBy, ProcFacts, IdleFields DEF Asking
<1>8. Fit([proc EXCEPT ![Worker] = place], calls) BY <1>3, <1>5, <1>7, FitGoto, ProcFacts
<1>9. Fit(proc', calls') BY <1>1, <1>6, <1>8
<1>10. proc'[Worker] = place /\ \A p \in Procs \ {Worker} : proc'[p] = proc[p]
  BY <1>6, GotoFacts, ProcFacts
<1>11. stray' \in BOOLEAN BY <1>1 DEF TypeInv, HistoryOK
<1>12. TypeInv'
  BY <1>1, <1>2, <1>4, <1>9, <1>11 DEF TypeInv, ServerOK, LocalOK, HistoryOK, server, local, shown
<1> QED BY <1>1, <1>2, <1>3, <1>4, <1>5, <1>10, <1>12

LEMMA RotateShape ==
  ASSUME TypeInv, Rotate
  PROVE  /\ TypeInv' /\ sub \in Endpoints /\ sub' \in Endpoints /\ rows[sub'] = None /\ budget'.app = budget.app
         /\ \E c \in Call : /\ calls' = calls \cup {c} /\ c.op = "report" /\ c.old = sub
         /\ quiet' = FALSE /\ stray' = (stray \/ calls # {})
         /\ UNCHANGED <<server, local, token, shown, proc, off, wish>>
<1> BrowserOK /\ LocalOK /\ Fit(proc, calls) BY DEF TypeInv
<1>1. /\ sub # None /\ Spend("wakes") /\ quiet' = FALSE /\ stray' = (stray \/ calls # {})
      /\ UNCHANGED <<server, local, token, shown, proc, off, wish>>
  BY DEF Rotate
<1>2. PICK e \in Endpoints :
        /\ New(e) /\ sub' = e /\ live' = {e}
        /\ calls' = calls \cup {[Ask("report", e, None) EXCEPT !.old = sub, !.owner = None]}
  BY DEF Rotate
<1>3. BudgetOK' /\ budget'.app = budget.app BY <1>1, SpendKeeps DEF Events, TypeInv
<1>4. sub \in Endpoints BY <1>1 DEF BrowserOK
<1>5. rows[e] = None BY <1>2, FreshFacts
<1>6. PICK r \in Call : r = Ask("report", e, None) /\ r.op = "report" /\ r.by = None BY AskFields
<1> DEFINE ask == [r EXCEPT !.old = sub, !.owner = None]
<1>7. ask \in Call /\ ask.op = "report" /\ ask.by = None /\ ask.old = sub BY <1>4, <1>6 DEF Call
<1>8. calls' = calls \cup {ask} BY <1>2, <1>6
<1> HIDE DEF ask
<1>9. Fit(proc, calls \cup {ask}) BY <1>4, <1>7, FitSend
<1>10. Fit(proc', calls') BY <1>1, <1>8, <1>9
<1>11. BrowserOK' /\ stray' \in BOOLEAN BY <1>1, <1>2 DEF BrowserOK, TypeInv, HistoryOK
<1>12. TypeInv'
  BY <1>1, <1>3, <1>10, <1>11 DEF TypeInv, ServerOK, LocalOK, HistoryOK, server, local, shown
<1> QED BY <1>1, <1>2, <1>3, <1>4, <1>5, <1>7, <1>8, <1>12

\* Time passes, and the push service forgets.
LEMMA OutsideShape ==
  ASSUME TypeInv, Expire \/ SixHours \/ Minute
  PROVE  /\ TypeInv' /\ budget'.app = budget.app
         /\ UNCHANGED <<sub, server, enabled, token, shown, proc, calls, history>>
<1>1. CASE Expire
  <2>1. /\ Spend("expiries") /\ live' = {}
        /\ UNCHANGED <<sub, server, local, token, shown, proc, calls, history>>
    BY <1>1 DEF Expire
  <2>2. BudgetOK' /\ budget'.app = budget.app BY <2>1, SpendKeeps DEF Events, TypeInv
  <2> QED BY <2>1, <2>2 DEF TypeInv, BrowserOK, ServerOK, LocalOK, HistoryOK, server, local, shown, history
<1>2. CASE SixHours \/ Minute
  <2>1. /\ synced' = FALSE /\ due' \in {TRUE, due}
        /\ UNCHANGED <<browser, server, enabled, token, shown, proc, calls, budget, history>>
    BY <1>2 DEF SixHours, Minute
  <2> QED BY <2>1 DEF TypeInv, BrowserOK, ServerOK, LocalOK, HistoryOK, BudgetOK, browser, server, shown, history
<1> QED BY <1>1, <1>2

-------------------------------------------------------------------------------
(* The server.                                                             *)

LEMMA RowOK ==
  ASSUME ServerOK, NEW e \in Endpoints, NEW owner \in Accounts \cup {None}, NEW mutes,
         Row(e, owner, mutes)
  PROVE  ServerOK' /\ rows'[e] = owner /\ \A x \in Endpoints \ {e} : rows'[x] = rows[x]
BY DEF ServerOK, Row

LEMMA ServerSame == ASSUME ServerOK, UNCHANGED server PROVE ServerOK' /\ rows' = rows
BY DEF ServerOK, server

LEMMA ResubscribeOK ==
  ASSUME ServerOK, NEW c \in Call, c.old \in Endpoints, ResubscribePush(c)
  PROVE  ServerOK' /\ \A x \in Endpoints : rows'[x] \in {rows[x], None, rows[c.old]}
<1> c.e \in Endpoints BY DEF Call
<1>1. CASE rows[c.old] = None
  <2>1. UNCHANGED server BY <1>1 DEF ResubscribePush
  <2> QED BY <2>1, ServerSame
<1>2. CASE rows[c.old] # None /\ rows[c.e] # None
  <2>1. Row(c.old, None, FALSE) BY <1>2 DEF ResubscribePush
  <2> QED BY <1>2, <2>1, RowOK
<1>3. CASE rows[c.old] # None /\ rows[c.e] = None
  <2>1. /\ rows' = [rows EXCEPT ![c.old] = None, ![c.e] = rows[c.old]]
        /\ muted' = {IF x = c.old THEN c.e ELSE x : x \in muted}
    BY <1>3 DEF ResubscribePush
  <2>2. c.old # c.e BY <1>3
  <2>3. /\ rows' \in [Endpoints -> Accounts \cup {None}] /\ rows'[c.e] # None
        /\ rows'[c.old] = None /\ rows'[c.e] = rows[c.old]
        /\ \A x \in Endpoints \ {c.old, c.e} : rows'[x] = rows[x]
    BY <1>3, <2>1, <2>2 DEF ServerOK
  <2>4. ASSUME NEW y \in muted' PROVE y \in Endpoints /\ rows'[y] # None
    <3>1. PICK x \in muted : y = IF x = c.old THEN c.e ELSE x BY <2>1
    <3>2. x \in Endpoints /\ rows[x] # None BY DEF ServerOK
    <3>3. CASE x = c.old BY <2>3, <3>1, <3>3
    <3>4. CASE x # c.old
      <4>1. y = x /\ x # c.e BY <1>3, <3>1, <3>2, <3>4
      <4>2. rows'[x] = rows[x] BY <2>3, <3>2, <3>4, <4>1
      <4> QED BY <3>2, <4>1, <4>2
    <3> QED BY <3>3, <3>4
  <2> QED BY <1>3, <2>3, <2>4 DEF ServerOK
<1> QED BY <1>1, <1>2, <1>3

\* What a request that is done does to the rows: the request of a logout has deleted its own
\* row or was refused; a report moves a row at most.
LEMMA ServeShape ==
  ASSUME TypeInv, NEW c \in calls, Serve(c)
  PROVE  /\ TypeInv' /\ c \in Call /\ calls' = calls \ {c} /\ budget'.app = budget.app
         /\ \A p \in Procs : /\ proc'[p].pc = proc[p].pc /\ proc'[p].old = proc[p].old
                             /\ proc'[p].new = proc[p].new /\ (c.by # p => proc'[p] = proc[p])
         /\ quiet' \in {quiet, FALSE} /\ stray' \in {stray, TRUE}
         /\ c.op = "leave" /\ c.owner # None /\ stray' = FALSE =>
              UnsubscribePush(c) \/ (c.owner \in kept' /\ rows' = rows)
         /\ c.op # "leave" => kept' = kept
         /\ c.op = "report" => \A x \in Endpoints : rows'[x] \in {rows[x], None, rows[c.old]}
         /\ UNCHANGED <<browser, local, token, shown, off>>
<1> ServerOK /\ BudgetOK /\ HistoryOK /\ Fit(proc, calls) BY DEF TypeInv
<1>1. c \in Call /\ c.e \in Endpoints /\ c.owner \in Accounts \cup {None}
      /\ (c.op = "report" => c.old \in Endpoints)
  BY DEF Fit, Call
<1>2. PICK a \in {"ok", "refused", "failed", "lost", "missing", "on", "off"}, done \in BOOLEAN :
       /\ a = "refused" => c.by # None \/ c.op = "leave"
       /\ done => ~Refused(c)
       /\ \/ done /\ a = Reply(c) /\ NoFault /\ UNCHANGED stray
          \/ ~done /\ Refused(c) /\ a = "refused" /\ NoFault /\ UNCHANGED stray
          \/ a = "lost" /\ Fault /\ stray' = TRUE
          \/ ~done /\ a = "failed" /\ Fault /\ stray' = TRUE
       /\ IF ~done THEN UNCHANGED <<server, wish>>
          ELSE CASE c.op = "post" -> SubscribePush(c) /\ UNCHANGED wish
                 [] c.op \in {"delete", "leave"} -> UnsubscribePush(c) /\ UNCHANGED wish
                 [] c.op = "report" -> ResubscribePush(c) /\ UNCHANGED wish
                 [] c.op = "put" -> SaveCategories(c)
                 [] OTHER -> UNCHANGED <<server, wish>>
       /\ proc' = IF c.by = None THEN proc ELSE [proc EXCEPT ![c.by].answer = a]
  BY DEF Serve
<1>3. calls' = calls \ {c} /\ UNCHANGED <<browser, local, token, shown, off>> BY DEF Serve
<1>4. NoFault \/ Fault BY <1>2
<1>5. BudgetOK' /\ budget'.app = budget.app /\ quiet' \in {quiet, FALSE}
  BY <1>4, FaultKeeps DEF NoFault, BudgetOK
<1>6. stray' \in {stray, TRUE} BY <1>2
<1>7. /\ ServerOK' /\ wish' \in BOOLEAN
      /\ c.op = "report" => \A x \in Endpoints : rows'[x] \in {rows[x], None, rows[c.old]}
      /\ ~done => rows' = rows
  <2>1. CASE ~done
    <3>1. UNCHANGED server /\ wish' = wish BY <1>2, <2>1
    <3> QED BY <3>1, ServerSame DEF HistoryOK
  <2>2. CASE done /\ c.op = "post"
    <3>1. SubscribePush(c) /\ wish' = wish BY <1>2, <2>2
    <3> QED BY <1>1, <2>2, <3>1, RowOK DEF SubscribePush, HistoryOK
  <2>3. CASE done /\ c.op \in {"delete", "leave"}
    <3>1. UnsubscribePush(c) /\ wish' = wish BY <1>2, <2>3
    <3> QED BY <1>1, <2>3, <3>1, RowOK, ServerSame DEF UnsubscribePush, HistoryOK
  <2>4. CASE done /\ c.op = "report"
    <3>1. ResubscribePush(c) /\ wish' = wish BY <1>2, <2>4
    <3> QED BY <1>1, <2>4, <3>1, ResubscribeOK DEF HistoryOK
  <2>5. CASE done /\ c.op = "put"
    <3>1. SaveCategories(c) BY <1>2, <2>5
    <3>2. CASE rows[c.e] = c.owner
      <4>1. Row(c.e, c.owner, c.cats = "off") /\ wish' = (c.cats = "off") BY <3>1, <3>2 DEF SaveCategories
      <4> QED BY <1>1, <2>5, <4>1, RowOK
    <3>3. CASE rows[c.e] # c.owner
      <4>1. UNCHANGED server /\ wish' = wish BY <3>1, <3>3 DEF SaveCategories
      <4> QED BY <2>5, <4>1, ServerSame DEF HistoryOK
    <3> QED BY <3>2, <3>3
  <2>6. CASE done /\ c.op \notin {"post", "delete", "leave", "report", "put"}
    <3>1. UNCHANGED server /\ wish' = wish BY <1>2, <2>6
    <3> QED BY <2>6, <3>1, ServerSame DEF HistoryOK
  <2> QED BY <2>1, <2>2, <2>3, <2>4, <2>5, <2>6
<1>8. /\ c.op = "leave" /\ c.owner # None /\ stray' = FALSE =>
           UnsubscribePush(c) \/ (c.owner \in kept' /\ rows' = rows)
      /\ c.op # "leave" => kept' = kept
  <2>1. kept' = IF c.op # "leave" THEN kept
                ELSE IF c.owner \in barred THEN kept \cup {c.owner} ELSE kept \ {c.owner}
    BY DEF Serve
  <2>2. ASSUME c.op = "leave", c.owner # None, stray' = FALSE
        PROVE  UnsubscribePush(c) \/ (c.owner \in kept' /\ rows' = rows)
    <3>1. CASE done BY <1>2, <2>2, <3>1
    <3>2. CASE ~done
      <4>1. Refused(c) BY <1>2, <2>2, <3>2
      <4>2. c.owner \in barred BY <2>2, <4>1 DEF Refused
      <4> QED BY <1>7, <2>1, <2>2, <3>2, <4>2
    <3> QED BY <3>1, <3>2
  <2> QED BY <2>1, <2>2
<1>9. /\ Fit(proc', calls \ {c})
      /\ \A p \in Procs : /\ proc'[p].pc = proc[p].pc /\ proc'[p].old = proc[p].old
                          /\ proc'[p].new = proc[p].new /\ (c.by # p => proc'[p] = proc[p])
  <2> DEFINE Same == \A p \in Procs :
               /\ proc'[p].pc = proc[p].pc /\ proc'[p].old = proc[p].old
               /\ proc'[p].new = proc[p].new /\ (c.by # p => proc'[p] = proc[p])
  <2>0. proc \in [Procs -> Place] /\ c.by \in Procs \cup {None} BY <1>1 DEF Fit, Call
  <2>1. CASE c.by = None
    <3>1. proc' = proc BY <1>2, <2>1
    <3> QED BY <2>0, <3>1, FitFewer
  <2>2. CASE c.by # None
    <3> DEFINE place == [proc[c.by] EXCEPT !.answer = a]
    <3>1. /\ place \in Place /\ place.pc = proc[c.by].pc /\ place.old = proc[c.by].old
          /\ place.new = proc[c.by].new
      BY <2>0, <2>2 DEF Place
    <3>2. proc' = [proc EXCEPT ![c.by] = place] BY <1>2, <2>2
    <3> HIDE DEF place
    <3>3. proc' \in [Procs -> Place] /\ Same BY <2>0, <2>2, <3>1, <3>2
    <3>4. PICK qr : qr = proc' OBVIOUS
    <3> QED BY <3>3, <3>4, FitServe
  <2> QED BY <2>1, <2>2
<1>10. TypeInv'
  BY <1>3, <1>5, <1>6, <1>7, <1>9 DEF TypeInv, BrowserOK, LocalOK, HistoryOK, browser, local, shown
<1> QED BY <1>1, <1>3, <1>5, <1>6, <1>7, <1>8, <1>9, <1>10

LEMMA LateShape ==
  ASSUME TypeInv, NEW c \in calls, LateRefusal(c)
  PROVE  /\ TypeInv' /\ token' = None /\ c.op \notin {"leave", "report"}
         /\ token # None => stray'
         /\ token = None => stray' = stray
         /\ UNCHANGED <<browser, server, enabled, due, shown, proc, budget, quiet, off, wish>>
<1> LocalOK /\ Fit(proc, calls) BY DEF TypeInv
<1>1. /\ c.op \notin {"leave", "report"} /\ LogOut(calls \ {c})
      /\ UNCHANGED <<browser, server, enabled, due, shown, proc, budget, quiet, off, wish>>
  BY DEF LateRefusal, Refused
<1>2. /\ token' = None /\ synced' = FALSE /\ stray' \in BOOLEAN
      /\ token # None => stray' = Crossed
      /\ token = None => stray' = stray
  BY <1>1, LogOutShape DEF Crossed, Busy
<1>3. PICK new \in SUBSET Call : /\ calls' = (calls \ {c}) \cup new
                                 /\ \A d \in new : d.by = None /\ d.op = "leave"
  BY <1>1, LogOutShape
<1>4. Fit(proc, calls \ {c}) BY FitFewer
<1>5. Fit(proc, (calls \ {c}) \cup new) BY <1>3, <1>4, FitLogOut
<1>6. Fit(proc', calls') BY <1>1, <1>3, <1>5
<1>7. LocalOK' BY <1>1, <1>2 DEF LocalOK, shown
<1>8. Crossed BY DEF Crossed, Busy
<1>9. TypeInv'
  BY <1>1, <1>2, <1>6, <1>7 DEF TypeInv, BrowserOK, ServerOK, HistoryOK, BudgetOK, browser, server
<1> QED BY <1>1, <1>2, <1>8, <1>9

LEMMA DispatchShape ==
  ASSUME TypeInv, NEW e \in Endpoints, Dispatch(e)
  PROVE  /\ TypeInv' /\ \A x \in Endpoints : rows'[x] \in {rows[x], None}
         /\ UNCHANGED <<browser, local, token, shown, proc, calls, budget, history>>
<1>1. /\ Row(e, None, FALSE)
      /\ UNCHANGED <<browser, local, token, shown, proc, calls, budget, history>>
  BY DEF Dispatch
<1>2. ServerOK' /\ \A x \in Endpoints : rows'[x] \in {rows[x], None} BY <1>1, RowOK DEF TypeInv
<1> QED
  BY <1>1, <1>2 DEF TypeInv, BrowserOK, LocalOK, HistoryOK, BudgetOK, browser, local, shown, history

-------------------------------------------------------------------------------
(* Types.                                                                  *)

LEMMA TypeStart == ASSUME Init PROVE TypeInv
<1>1. token \in Accounts BY PushAssumption DEF Init
<1>2. Fit(proc, calls) BY IdleFields, ProcFacts DEF Init, Fit, Asking
<1>3. BudgetOK BY PushAssumption DEF Init, BudgetOK
<1> QED BY <1>1, <1>2, <1>3 DEF Init, TypeInv, BrowserOK, ServerOK, LocalOK, HistoryOK

LEMMA TypeStep == ASSUME TypeInv, [Next]_vars PROVE TypeInv'
<1>1. CASE UNCHANGED vars
  BY <1>1 DEF vars, browser, server, local, shown, history, TypeInv, BrowserOK, ServerOK,
              LocalOK, HistoryOK, BudgetOK
<1>2. CASE Resume \/ Choose \/ Logout \/ Expel \/ Wake \/ Rotate \/ Expire \/ SixHours \/ Minute
  BY <1>2, ResumeType, ChooseShape, LogoutStep, ExpelShape, WakeShape, RotateShape, OutsideShape
<1>3. ASSUME NEW h \in Hands, Toggle(h) \/ OpenSettings(h) PROVE TypeInv'
  BY <1>3, ToggleShape, OpenSettingsShape
<1>4. ASSUME NEW a \in Accounts, Login(a) \/ SetStatus(a) PROVE TypeInv'
  BY <1>4, LoginShape, StatusShape
<1>5. ASSUME NEW p \in Procs, Steps(p) PROVE TypeInv'
  BY <1>5, GetShape, HearPostShape, HearSyncShape, HearRemoveShape, HearOnShape, RefreshShape,
     ShowShape, CategoriesShape
  DEF Steps
<1>6. ASSUME NEW c \in calls, Serve(c) \/ LateRefusal(c) PROVE TypeInv'
  BY <1>6, ServeShape, LateShape
<1>7. ASSUME NEW e \in Endpoints, Dispatch(e) PROVE TypeInv' BY <1>7, DispatchShape
<1> QED BY <1>1, <1>2, <1>3, <1>4, <1>5, <1>6, <1>7 DEF Next

\* The members that are not active, and those whose last request to be forgotten was refused.
StandingOK == barred \subseteq Accounts /\ kept \subseteq Accounts /\ (Admin => barred = {})

\* Only the answer to a request changes who is remembered as refused.
LEMMA StandingFrame ==
  ASSUME [Next]_vars
  PROVE  kept' = kept \/ \E c \in calls : Serve(c)
BY DEF Next, vars, standing, Resume, Choose, Logout, Expel, Wake, Rotate, Expire, SixHours, Minute,
       Toggle, OpenSettings, Login, SetStatus, Steps, GetSubscription, HearPost, HearSync, HearRemove,
       HearOn, RefreshButton, ShowButton, HearCategories, LateRefusal, Dispatch

LEMMA BarredFrame ==
  ASSUME [Next]_vars
  PROVE  barred' = barred \/ \E a \in Accounts : SetStatus(a)
BY DEF Next, vars, standing, Resume, Choose, Logout, Expel, Wake, Rotate, Expire, SixHours, Minute,
       Toggle, OpenSettings, Login, Serve, Steps, GetSubscription, HearPost, HearSync, HearRemove,
       HearOn, RefreshButton, ShowButton, HearCategories, LateRefusal, Dispatch

LEMMA AppFrame == ASSUME TypeInv, [Next]_vars PROVE budget'.app = budget.app
<1> BudgetOK BY DEF TypeInv
<1>1. budget' = budget \/ (\E k \in Events : Spend(k)) \/ Fault
  BY DEF Next, vars, Resume, Choose, Logout, Expel, Wake, Rotate, Expire, SixHours, Minute,
         Toggle, OpenSettings, Login, SetStatus, Steps, GetSubscription, HearPost, HearSync, HearRemove,
         HearOn, RefreshButton, ShowButton, HearCategories, LateRefusal, Dispatch, Serve, NoFault, Events
<1> QED BY <1>1, SpendKeeps, FaultKeeps

LEMMA StandingStep == ASSUME TypeInv, StandingOK, [Next]_vars PROVE StandingOK'
<1>1. kept' \subseteq Accounts
  <2>1. CASE kept' = kept BY <2>1 DEF StandingOK
  <2>2. ASSUME NEW c \in calls, Serve(c) PROVE kept' \subseteq Accounts BY <2>2 DEF Serve, StandingOK
  <2> QED BY <2>1, <2>2, StandingFrame
<1>2. barred' \subseteq Accounts /\ (Admin' => barred' = {})
  <2>1. Admin' <=> Admin BY AppFrame DEF Admin
  <2>2. CASE barred' = barred BY <2>1, <2>2 DEF StandingOK
  <2>3. ASSUME NEW a \in Accounts, SetStatus(a) PROVE barred' \subseteq Accounts /\ ~Admin
    BY <2>3 DEF SetStatus, StandingOK
  <2> QED BY <2>1, <2>2, <2>3, BarredFrame
<1> QED BY <1>1, <1>2 DEF StandingOK

\* The variables keep their types, and a request that somebody waits for has no answer yet.
THEOREM TypeCorrect == Spec => []TypeOK
<1>1. Init => TypeInv /\ StandingOK
  <2>1. Init => StandingOK BY DEF Init, StandingOK
  <2> QED BY <2>1, TypeStart
<1>2. TypeInv /\ StandingOK /\ [Next]_vars => (TypeInv /\ StandingOK)' BY TypeStep, StandingStep
<1>3. TypeInv /\ StandingOK => TypeOK BY TypeInvOK DEF StandingOK
<1> QED BY <1>1, <1>2, <1>3, PTL DEF Spec

-------------------------------------------------------------------------------
(* Switched off is off.                                                    *)

Turning == {"key", "post", "remove"}

\* While a use of the switch is undisturbed, nothing else gives up or takes a subscription.
\* Once it has switched off, nothing is on its way that takes one.
OffInv ==
  /\ quiet => /\ proc[Page] = Idle /\ proc[Worker] = Idle
              /\ \A g, h \in Hands : proc[g].pc \in Turning /\ proc[h].pc \in Turning => g = h
              /\ \A h \in Hands : proc[h].pc = "remove" => ~enabled /\ proc[h].new = sub
  /\ off => /\ ~enabled /\ sub = None
            /\ \A p \in Procs : proc[p].pc \notin {"key", "post"}

\* A step that does not touch the subscription and turns nothing.
LEMMA OffFrame ==
  ASSUME OffInv, quiet' => quiet, off' => off, UNCHANGED <<enabled, sub>>,
         \A p \in Procs : proc'[p].pc \in Turning => proc'[p].pc = proc[p].pc /\ proc'[p].new = proc[p].new,
         quiet' => /\ proc[Page] = Idle => proc'[Page] = Idle
                   /\ proc[Worker] = Idle => proc'[Worker] = Idle
  PROVE  OffInv'
<1>1. ASSUME quiet'
      PROVE  /\ proc'[Page] = Idle /\ proc'[Worker] = Idle
             /\ \A g, h \in Hands : proc'[g].pc \in Turning /\ proc'[h].pc \in Turning => g = h
             /\ \A h \in Hands : proc'[h].pc = "remove" => ~enabled' /\ proc'[h].new = sub'
  <2>1. \A h \in Hands : proc'[h].pc \in Turning => proc'[h].pc = proc[h].pc /\ proc'[h].new = proc[h].new
    BY ProcFacts
  <2> QED BY <1>1, <2>1 DEF OffInv, Turning
<1>2. ASSUME off' PROVE  ~enabled' /\ sub' = None /\ \A p \in Procs : proc'[p].pc \notin {"key", "post"}
  BY <1>2 DEF OffInv, Turning
<1> QED BY <1>1, <1>2 DEF OffInv

\* One that disturbs, and leaves alone a device on which everything is off.
LEMMA OffDisturbed ==
  ASSUME OffInv, quiet' = FALSE, off' = off,
         off => /\ UNCHANGED <<enabled, sub>>
                /\ \A p \in Procs : proc'[p].pc \in {"key", "post"} => proc'[p].pc = proc[p].pc
  PROVE  OffInv'
BY DEF OffInv

LEMMA OffGet ==
  ASSUME TypeInv, OffInv, NEW p \in Procs, GetSubscription(p) PROVE OffInv'
<1>1. /\ proc[p].pc = "key" /\ off' = off /\ enabled' = enabled BY GetShape DEF local
<1>2. off = FALSE BY <1>1 DEF OffInv, TypeInv, HistoryOK
<1>3. CASE quiet' = FALSE BY <1>1, <1>2, <1>3 DEF OffInv
<1>4. CASE quiet' # FALSE
  <2>1. quiet /\ quiet' = quiet BY <1>4, GetShape DEF TypeInv, HistoryOK
  <2>2. p \in Hands BY <1>1, <2>1, IdleFields DEF OffInv, Procs
  <2>3. \A q \in Procs \ {p} : proc'[q] = proc[q] BY <2>2, GetShape, ProcFacts
  <2>4. proc'[p].pc \in {"idle", "refresh", "post"} BY <2>2, GetShape, ProcFacts
  <2>5. \A h \in Hands : proc[h].pc \in Turning => h = p BY <1>1, <2>1, <2>2 DEF OffInv, Turning
  <2>6. \A h \in Hands : h # p => proc'[h].pc \notin Turning BY <2>3, <2>5, ProcFacts
  <2>7. proc'[Page] = Idle /\ proc'[Worker] = Idle BY <2>1, <2>2, <2>3, ProcFacts DEF OffInv
  <2> QED BY <1>1, <1>2, <2>4, <2>6, <2>7 DEF OffInv, Turning
<1> QED BY <1>3, <1>4

LEMMA OffToggle ==
  ASSUME TypeInv, OffInv, NEW h \in Hands, Toggle(h) PROVE OffInv'
<1>1. /\ off' = FALSE /\ quiet' = ~Busy
      /\ proc'[h].pc = "remove" => enabled' = FALSE /\ proc'[h].new = sub
      /\ \A q \in Procs \ {h} : proc'[q] = proc[q]
      /\ sub' = sub
  BY ToggleShape DEF browser
<1>2. ASSUME ~Busy
      PROVE  /\ proc'[Page] = Idle /\ proc'[Worker] = Idle
             /\ \A g \in Hands : g # h => proc'[g].pc \notin Turning
  <2>1. \A q \in Procs \ {h} : proc'[q] = Idle BY <1>1, <1>2 DEF Busy
  <2> QED BY <2>1, IdleFields, ProcFacts DEF Turning
<1> QED BY <1>1, <1>2 DEF OffInv, Turning

LEMMA OffRemove ==
  ASSUME TypeInv, OffInv, NEW h \in Hands, HearRemove(h) PROVE OffInv'
<1>1. /\ proc[h].pc = "remove" /\ proc'[h].pc = "refresh" /\ quiet' = quiet /\ enabled' = enabled
      /\ \A q \in Procs \ {h} : proc'[q] = proc[q]
      /\ (sub' = sub /\ off' = off) \/ (off' = quiet /\ (sub = proc[h].new => sub' = None))
  BY HearRemoveShape DEF local, browser
<1>2. h \in Procs /\ h # Page /\ h # Worker BY ProcFacts
<1>3. ASSUME quiet
      PROVE  /\ ~enabled /\ proc[h].new = sub /\ proc'[Page] = Idle /\ proc'[Worker] = Idle
             /\ \A g \in Hands : proc'[g].pc \notin Turning
  <2>1. \A g \in Hands : g # h => proc[g].pc \notin Turning BY <1>1, <1>3 DEF OffInv, Turning
  <2> QED BY <1>1, <1>2, <1>3, <2>1, ProcFacts DEF OffInv, Turning
<1>4. ASSUME quiet PROVE \A p \in Procs : proc'[p].pc \notin {"key", "post"}
  BY <1>3, <1>4, IdleFields DEF Procs, Turning
<1>5. CASE sub' = sub /\ off' = off
  <2>1. ASSUME off PROVE \A p \in Procs : proc'[p].pc \notin {"key", "post"}
    BY <1>1, <2>1 DEF OffInv
  <2> QED BY <1>1, <1>3, <1>5, <2>1 DEF OffInv, Turning
<1>6. CASE off' = quiet /\ (sub = proc[h].new => sub' = None)
  BY <1>1, <1>3, <1>4, <1>6 DEF OffInv, Turning
<1> QED BY <1>1, <1>5, <1>6

LEMMA OffOn ==
  ASSUME TypeInv, OffInv, NEW h \in Hands, HearOn(h) PROVE OffInv'
<1>1. /\ proc[h].pc = "post" /\ proc'[h].pc = "refresh" /\ quiet' = quiet /\ off' = off
      /\ \A q \in Procs \ {h} : proc'[q] = proc[q]
  BY HearOnShape
<1>2. off = FALSE BY <1>1, ProcFacts DEF OffInv, TypeInv, HistoryOK
<1>3. ASSUME quiet
      PROVE  /\ proc'[Page] = Idle /\ proc'[Worker] = Idle
             /\ \A g \in Hands : proc'[g].pc \notin Turning
  <2>1. \A g \in Hands : g # h => proc[g].pc \notin Turning BY <1>1, <1>3 DEF OffInv, Turning
  <2> QED BY <1>1, <1>3, <2>1, ProcFacts DEF OffInv, Turning
<1> QED BY <1>1, <1>2, <1>3 DEF OffInv, Turning

LEMMA OffStep == ASSUME TypeInv, OffInv, [Next]_vars PROVE OffInv'
<1>b. quiet \in BOOLEAN /\ off \in BOOLEAN /\ proc \in [Procs -> Place] BY DEF TypeInv, HistoryOK, Fit
<1>1. CASE UNCHANGED vars
  BY <1>1, OffFrame DEF vars, browser, server, local, shown, history
<1>2. CASE Resume
  <2>1. Start(proc) /\ quiet' = FALSE /\ off' = off /\ enabled' = enabled BY <1>2 DEF Resume, local
  <2>2. ~enabled /\ sub = None => proc' = proc /\ UNCHANGED <<browser, calls>>
    BY <2>1, StartShape DEF TypeInv
  <2>3. off => sub' = sub /\ proc' = proc BY <2>2 DEF OffInv, browser
  <2> QED BY <2>1, <2>3, OffDisturbed
<1>3. CASE Choose
  <2>1. UNCHANGED <<quiet, off, enabled, sub, proc>> BY <1>3, ChooseShape DEF browser, local, history
  <2> QED BY <2>1, OffFrame
<1>4. CASE Logout
  <2>1. UNCHANGED <<quiet, off, enabled, sub, proc>> BY <1>4, LogoutStep DEF browser
  <2> QED BY <2>1, OffFrame
<1>e. CASE Expel
  <2>1. UNCHANGED <<quiet, off, enabled, sub, proc>> BY <1>e, ExpelShape DEF browser
  <2> QED BY <2>1, OffFrame
<1>s. ASSUME NEW a \in Accounts, SetStatus(a) PROVE OffInv'
  <2>1. UNCHANGED <<quiet, off, enabled, sub, proc>> BY <1>s, StatusShape DEF browser, local, history
  <2> QED BY <2>1, OffFrame
<1>5. CASE Wake
  <2>1. quiet' = FALSE /\ off' = off /\ sub # None BY <1>5, WakeShape, ProcFacts
  <2>2. ~off BY <2>1 DEF OffInv
  <2> QED BY <2>1, <2>2, OffDisturbed
<1>6. CASE Rotate
  <2>1. quiet' = FALSE /\ off' = off /\ sub # None BY <1>6, RotateShape, ProcFacts
  <2>2. ~off BY <2>1 DEF OffInv
  <2> QED BY <2>1, <2>2, OffDisturbed
<1>7. CASE Expire \/ SixHours \/ Minute
  <2>1. UNCHANGED <<quiet, off, enabled, sub, proc>> BY <1>7, OutsideShape DEF history
  <2> QED BY <2>1, OffFrame
<1>8. ASSUME NEW h \in Hands, OpenSettings(h) PROVE OffInv'
  <2>1. UNCHANGED <<quiet, off, enabled, sub>> BY <1>8, OpenSettingsShape DEF browser, local, history
  <2>2. proc'[h].pc = "refresh" /\ \A q \in Procs \ {h} : proc'[q] = proc[q] BY <1>8, OpenSettingsShape
  <2>3. \A p \in Procs : proc'[p].pc \in Turning => proc'[p] = proc[p] BY <2>2 DEF Turning
  <2>4. proc'[Page] = proc[Page] /\ proc'[Worker] = proc[Worker] BY <2>2, ProcFacts
  <2> QED BY <2>1, <2>3, <2>4, OffFrame
<1>9. ASSUME NEW a \in Accounts, Login(a) PROVE OffInv'
  <2>1. /\ quiet' = FALSE /\ off' = off /\ enabled' = enabled
        /\ ~enabled /\ sub = None => UNCHANGED <<browser, proc, calls>>
    BY <1>9, LoginShape DEF local
  <2>2. off => sub' = sub /\ proc' = proc BY <2>1 DEF OffInv, browser
  <2> QED BY <2>1, <2>2, OffDisturbed
<1>10. CASE HearPost
  <2>1. proc[Page].pc = "post" /\ off' = off /\ quiet' = quiet BY <1>10, HearPostShape
  <2>2. ~quiet /\ ~off BY <2>1, IdleFields, ProcFacts DEF OffInv
  <2> QED BY <2>1, <2>2 DEF OffInv
<1>11. CASE HearSync
  <2>1. /\ proc[Page].pc = "sync" /\ proc'[Page] = Idle /\ UNCHANGED <<off, quiet, sub, enabled>>
        /\ \A p \in Procs \ {Page} :
              proc'[p] = proc[p] \/ (proc[p].pc = "await" /\ proc'[p].pc = "show")
    BY <1>11, HearSyncShape DEF browser, history
  <2>2. ~quiet BY <2>1, IdleFields DEF OffInv
  <2>3. \A p \in Procs : proc'[p].pc \in Turning => proc'[p] = proc[p]
    BY <2>1, IdleFields DEF Turning
  <2> QED BY <2>1, <2>2, <2>3, OffFrame
<1>12. ASSUME NEW h \in Hands, RefreshButton(h) PROVE OffInv'
  <2>1. /\ quiet' = FALSE /\ off' = off /\ enabled' = enabled
        /\ ~enabled /\ sub = None =>
              /\ proc'[h].pc \in {"await", "show"}
              /\ \A q \in Procs \ {h} : proc'[q] = proc[q]
              /\ UNCHANGED browser
    BY <1>12, RefreshShape DEF local
  <2>2. ASSUME off
        PROVE  sub' = sub /\ \A p \in Procs : proc'[p].pc \in {"key", "post"} => proc'[p].pc = proc[p].pc
    BY <2>1, <2>2 DEF OffInv, browser
  <2> QED BY <2>1, <2>2, OffDisturbed
<1>13. ASSUME NEW h \in Hands, ShowButton(h) \/ HearCategories(h) PROVE OffInv'
  <2>1. /\ UNCHANGED <<quiet, off, enabled, sub>> /\ proc'[h].pc \notin Turning
        /\ \A q \in Procs \ {h} : proc'[q] = proc[q]
    BY <1>13, ShowShape, CategoriesShape DEF browser, local, history, Turning
  <2>2. \A p \in Procs : proc'[p].pc \in Turning => proc'[p] = proc[p] BY <2>1
  <2>3. proc'[Page] = proc[Page] /\ proc'[Worker] = proc[Worker] BY <2>1, ProcFacts
  <2> QED BY <2>1, <2>2, <2>3, OffFrame
<1>14. ASSUME NEW c \in calls, Serve(c) PROVE OffInv'
  <2>1. /\ quiet' \in {quiet, FALSE} /\ off' = off /\ enabled' = enabled /\ sub' = sub
        /\ \A p \in Procs : /\ proc'[p].pc = proc[p].pc /\ proc'[p].new = proc[p].new
                            /\ (c.by # p => proc'[p] = proc[p])
    BY <1>14, ServeShape DEF browser, local
  <2>2. \A p \in Procs : proc[p] = Idle => c.by # p
    BY NoneBy, IdleFields DEF TypeInv, Asking
  <2>a. quiet' = quiet \/ quiet' = FALSE BY <2>1
  <2>b. quiet' => quiet BY <2>a
  <2>c. off' => off BY <2>1
  <2>d. UNCHANGED <<enabled, sub>> BY <2>1
  <2>4. /\ proc[Page] = Idle => proc'[Page] = Idle
        /\ proc[Worker] = Idle => proc'[Worker] = Idle
    BY <2>1, <2>2, ProcFacts
  <2> QED BY <2>1, <2>4, <2>b, <2>c, <2>d, OffFrame
<1>15. ASSUME NEW c \in calls, LateRefusal(c) PROVE OffInv'
  <2>1. UNCHANGED <<quiet, off, enabled, sub, proc>> BY <1>15, LateShape DEF browser
  <2> QED BY <2>1, OffFrame
<1>16. ASSUME NEW e \in Endpoints, Dispatch(e) PROVE OffInv'
  <2>1. UNCHANGED <<quiet, off, enabled, sub, proc>> BY <1>16, DispatchShape DEF browser, local, history
  <2> QED BY <2>1, OffFrame
<1>17. ASSUME NEW p \in Procs, Steps(p) PROVE OffInv'
  BY <1>10, <1>11, <1>12, <1>13, <1>17, OffGet, OffRemove, OffOn DEF Steps
<1> QED
  BY <1>1, <1>2, <1>3, <1>4, <1>e, <1>s, <1>5, <1>6, <1>7, <1>8, <1>9, <1>14, <1>15, <1>16, <1>17, OffToggle
  DEF Next

\* Once the switch has been turned off, and nothing has crossed that, no refresh of the page
\* and no renewal of the worker turns notifications on again.
THEOREM OffIsOff == Spec => []OffStays
<1>1. Init => TypeInv /\ OffInv
  <2>1. Init => OffInv BY DEF Init, OffInv
  <2> QED BY <2>1, TypeStart
<1>2. TypeInv /\ OffInv /\ [Next]_vars => (TypeInv /\ OffInv)' BY TypeStep, OffStep
<1>3. OffInv => OffStays BY DEF OffInv, OffStays
<1> QED BY <1>1, <1>2, <1>3, PTL DEF Spec

-------------------------------------------------------------------------------
(* Logged out is silent.                                                   *)

\* The request that a logout has left behind.
Leaving ==
  /\ proc[Worker] = Idle /\ sub # None
  /\ \E d \in calls :
       /\ calls = {d} /\ d.op = "leave" /\ d.by = None /\ d.owner \in Accounts
       /\ d.e = sub /\ rows[sub] \in {d.owner, None}
\* Nobody has a row for this device, but who was refused; the worker renews it with that or
\* in vain.
Gone == kept \cup {None}
Left ==
  /\ sub # None => rows[sub] \in Gone
  /\ \A c \in calls : c.op = "report" /\ rows[c.old] \in Gone
  /\ proc[Worker].pc = "key" => rows[proc[Worker].old] \in Gone
SilentInv ==
  token = None /\ ~stray =>
    /\ ~Admin /\ \A p \in Procs \ {Worker} : proc[p] = Idle
    /\ Leaving \/ Left

LEMMA SilentOK == ASSUME TypeInv, SilentInv PROVE LoggedOutSilent
<1> SUFFICES ASSUME token = None, ~stray, \A c \in calls : c.op # "leave", NEW e \in live
             PROVE  rows[e] \in kept \cup {None}
  BY DEF LoggedOutSilent
<1>1. e = sub /\ sub # None BY ProcFacts DEF TypeInv, BrowserOK
<1>2. Leaving \/ Left BY DEF SilentInv
<1>3. Left BY <1>2 DEF Leaving
<1> QED BY <1>1, <1>3 DEF Left, Gone

\* A logout that crosses nothing leaves one request behind.
LEMMA SilentLogout == ASSUME TypeInv, StandingOK, Logout \/ Expel PROVE SilentInv'
<1> BrowserOK /\ LocalOK /\ Fit(proc, calls) BY DEF TypeInv
<1>1. /\ token # None /\ ~Admin /\ budget'.app = budget.app /\ (stray' <=> Crossed)
      /\ sub' = sub /\ rows' = rows /\ proc' = proc /\ LogOut(calls)
  <2>1. CASE Logout BY <2>1, LogoutStep DEF browser, server, Logout
  <2>2. CASE Expel BY <2>2, ExpelShape, ProcFacts DEF browser, server, StandingOK
  <2> QED BY <2>1, <2>2
<1>2. SUFFICES ASSUME ~Crossed PROVE SilentInv' BY <1>1 DEF SilentInv
<1>3. sub \in Endpoints /\ rows[sub] \in {token, None} /\ calls = {} /\ \A p \in Procs : proc[p] = Idle
  BY <1>2 DEF Crossed, Busy, BrowserOK
<1> DEFINE ask == Ask("leave", sub, None)
<1>4. ask.op = "leave" /\ ask.by = None /\ ask.owner = token /\ ask.e = sub BY <1>3, AskFields
<1>5. calls' = {ask} BY <1>1, <1>3, ProcFacts DEF LogOut, Farewell
<1> HIDE DEF ask
<1>6. token \in Accounts BY <1>1 DEF LocalOK
<1>7. Leaving' BY <1>1, <1>3, <1>4, <1>5, <1>6, ProcFacts DEF Leaving
<1> QED BY <1>1, <1>3, <1>7 DEF SilentInv, Admin

\* What a device that is silent stays so through: the renewals of the worker and of the
\* browser, the push service, time, and the server's answers.
LEMMA SilentGet ==
  ASSUME TypeInv, SilentInv, token = None, stray = FALSE, NEW p \in Procs, GetSubscription(p)
  PROVE  SilentInv'
<1>k. kept' = kept BY DEF GetSubscription, standing
<1> ServerOK /\ Fit(proc, calls) BY DEF TypeInv
<1>1. /\ ~Admin /\ (\A q \in Procs \ {Worker} : proc[q] = Idle) /\ (Leaving \/ Left)
  BY DEF SilentInv
<1>2. proc[p].pc = "key" BY GetShape
<1>3. p = Worker BY <1>1, <1>2, IdleFields
<1>4. Left BY <1>1, <1>2, <1>3, IdleFields DEF Leaving
<1>5. /\ budget'.app = budget.app /\ rows' = rows /\ proc'[Worker] = Idle
      /\ \A q \in Procs \ {Worker} : proc'[q] = proc[q]
  BY <1>3, GetShape, ProcFacts DEF server
<1>6. CASE sub' = sub /\ calls' = calls
  <2>1. Left' BY <1>k, <1>4, <1>5, <1>6, IdleFields DEF Left, Gone
  <2> QED BY <1>1, <1>5, <2>1 DEF SilentInv, Admin
<1>7. CASE /\ \E e \in Endpoints : Subscribed(e) /\ Subscribe(e)
           /\ \E c \in Call : calls' = calls \cup {c} /\ c.op = "report" /\ c.old = proc[p].old
  <2>1. PICK e \in Endpoints : Subscribed(e) /\ Subscribe(e) BY <1>7
  <2>2. sub' = e /\ rows[e] \in Gone
    BY <1>4, <2>1, FreshFacts, ProcFacts DEF Subscribe, Subscribed, Left, Gone
  <2>3. PICK c \in Call : calls' = calls \cup {c} /\ c.op = "report" /\ c.old = proc[p].old BY <1>7
  <2>4. rows[c.old] \in Gone BY <1>2, <1>3, <1>4, <2>3 DEF Left
  <2>5. \A d \in calls' : d.op = "report" /\ rows[d.old] \in Gone BY <1>4, <2>3, <2>4 DEF Left
  <2>6. Left' BY <1>k, <1>5, <2>2, <2>5, IdleFields DEF Left, Gone
  <2> QED BY <1>1, <1>5, <2>6 DEF SilentInv, Admin
<1> QED BY <1>3, <1>6, <1>7, GetShape DEF browser

LEMMA SilentWake ==
  ASSUME TypeInv, SilentInv, token = None, stray = FALSE, Wake \/ Rotate PROVE SilentInv'
<1>k. kept' = kept BY DEF Wake, Rotate, standing
<1>1. /\ ~Admin /\ (\A q \in Procs \ {Worker} : proc[q] = Idle) /\ (Leaving \/ Left)
  BY DEF SilentInv
<1>2. SUFFICES ASSUME stray' = FALSE PROVE SilentInv'
  <2>1. stray' \in BOOLEAN BY WakeShape, RotateShape DEF TypeInv, HistoryOK
  <2> QED BY <1>2, <2>1 DEF SilentInv
<1>3. calls = {} BY <1>2, WakeShape, RotateShape
<1>4. Left BY <1>1, <1>3 DEF Leaving
<1>5. CASE Wake
  <2>1. /\ sub \in Endpoints /\ sub' = None /\ budget'.app = budget.app /\ rows' = rows /\ calls' = calls
        /\ proc'[Worker].pc = "key" /\ proc'[Worker].old = sub
        /\ \A p \in Procs \ {Worker} : proc'[p] = proc[p]
    BY <1>5, WakeShape DEF server
  <2>2. Left' BY <1>k, <1>3, <1>4, <2>1, ProcFacts DEF Left, Gone
  <2> QED BY <1>1, <2>1, <2>2 DEF SilentInv, Admin
<1>6. CASE Rotate
  <2>1. /\ sub \in Endpoints /\ sub' \in Endpoints /\ rows[sub'] = None /\ budget'.app = budget.app
        /\ rows' = rows /\ proc' = proc
        /\ \E c \in Call : calls' = calls \cup {c} /\ c.op = "report" /\ c.old = sub
    BY <1>6, RotateShape DEF server
  <2>2. \A c \in calls' : c.op = "report" /\ rows[c.old] \in Gone BY <1>3, <1>4, <2>1, ProcFacts DEF Left
  <2>3. Left' BY <1>k, <1>4, <2>1, <2>2, ProcFacts DEF Left, Gone
  <2> QED BY <1>1, <2>1, <2>3 DEF SilentInv, Admin
<1> QED BY <1>5, <1>6

LEMMA SilentServe ==
  ASSUME TypeInv, SilentInv, token = None, stray = FALSE, NEW c \in calls, Serve(c) PROVE SilentInv'
<1> ServerOK /\ BrowserOK /\ Fit(proc, calls) BY DEF TypeInv
<1>1. /\ ~Admin /\ (\A q \in Procs \ {Worker} : proc[q] = Idle) /\ (Leaving \/ Left)
  BY DEF SilentInv
<1>2. /\ c \in Call /\ calls' = calls \ {c} /\ budget'.app = budget.app /\ sub' = sub
      /\ \A p \in Procs : c.by # p => proc'[p] = proc[p]
      /\ stray' \in {stray, TRUE}
      /\ c.op = "leave" /\ c.owner # None /\ stray' = FALSE =>
           UnsubscribePush(c) \/ (c.owner \in kept' /\ rows' = rows)
      /\ c.op # "leave" => kept' = kept
      /\ c.op = "report" => \A x \in Endpoints : rows'[x] \in {rows[x], None, rows[c.old]}
  BY ServeShape DEF browser
<1>3. SUFFICES ASSUME stray' = FALSE PROVE SilentInv' BY <1>2, <1>3 DEF SilentInv
<1>4. CASE Leaving
  <2>1. /\ proc[Worker] = Idle /\ sub \in Endpoints /\ calls = {c} /\ c.op = "leave" /\ c.by = None
        /\ c.owner \in Accounts /\ c.e = sub /\ rows[sub] \in {c.owner, None}
    BY <1>4 DEF Leaving, BrowserOK
  <2>2. ASSUME UnsubscribePush(c) PROVE rows'[sub] \in Gone'
    <3>1. rows'[sub] = None
      <4>1. CASE rows[sub] = c.owner
        <5>1. Row(sub, None, FALSE) BY <2>1, <2>2, <4>1 DEF UnsubscribePush
        <5> QED BY <2>1, <5>1, RowOK
      <4>2. CASE rows[sub] # c.owner
        <5>1. UNCHANGED server BY <2>1, <2>2, <4>2 DEF UnsubscribePush
        <5> QED BY <2>1, <4>2, <5>1, ServerSame
      <4> QED BY <4>1, <4>2
    <3> QED BY <3>1 DEF Gone
  <2>3. ASSUME c.owner \in kept', rows' = rows PROVE rows'[sub] \in Gone'
    BY <2>1, <2>3 DEF Gone
  <2>4. calls' = {} /\ \A p \in Procs : proc'[p] = proc[p] BY <1>2, <2>1, ProcFacts
  <2>a. rows'[sub] \in Gone'
    <3>1. UnsubscribePush(c) \/ (c.owner \in kept' /\ rows' = rows) BY <1>2, <1>3, <2>1, ProcFacts
    <3> QED BY <2>2, <2>3, <3>1
  <2>5. Left' BY <1>2, <2>1, <2>a, <2>4, IdleFields, ProcFacts DEF Left
  <2> QED BY <1>1, <1>2, <2>4, <2>5 DEF SilentInv, Admin
<1>5. CASE Left
  <2>1. c.op = "report" /\ c.by = None /\ c.old \in Endpoints /\ rows[c.old] \in Gone
    BY <1>5 DEF Left, Fit
  <2>2. kept' = kept /\ \A x \in Endpoints : rows[x] \in Gone => rows'[x] \in Gone'
    BY <1>2, <2>1 DEF Gone
  <2>3. \A p \in Procs : proc'[p] = proc[p] BY <1>2, <2>1, ProcFacts
  <2>4. Left'
    <3>1. sub' # None => rows'[sub'] \in Gone' BY <1>2, <1>5, <2>2 DEF Left, BrowserOK
    <3>2. \A d \in calls' : d.op = "report" /\ rows'[d.old] \in Gone' BY <1>2, <1>5, <2>2 DEF Left, Fit
    <3>3. proc'[Worker].pc = "key" => rows'[proc'[Worker].old] \in Gone'
      BY <1>5, <2>2, <2>3, ProcFacts DEF Left, Fit
    <3> QED BY <3>1, <3>2, <3>3 DEF Left
  <2> QED BY <1>1, <1>2, <2>3, <2>4 DEF SilentInv, Admin
<1> QED BY <1>1, <1>4, <1>5

LEMMA SilentDispatch ==
  ASSUME TypeInv, SilentInv, token = None, stray = FALSE, NEW e \in Endpoints, Dispatch(e)
  PROVE  SilentInv'
<1>k. kept' = kept BY DEF Dispatch, standing
<1> BrowserOK /\ Fit(proc, calls) /\ TypeInv' BY DispatchShape DEF TypeInv
<1>1. /\ ~Admin /\ (\A q \in Procs \ {Worker} : proc[q] = Idle) /\ (Leaving \/ Left)
  BY DEF SilentInv
<1>2. /\ \A x \in Endpoints : rows'[x] \in {rows[x], None}
      /\ sub' = sub /\ proc' = proc /\ calls' = calls /\ budget' = budget
  BY DispatchShape DEF browser
<1>3. Leaving => Leaving' BY <1>2 DEF Leaving, BrowserOK
<1>4. ASSUME Left PROVE Left'
  <2>0. \A x \in Endpoints : rows[x] \in Gone => rows'[x] \in Gone' BY <1>k, <1>2 DEF Gone
  <2>1. sub' # None => rows'[sub'] \in Gone' BY <1>2, <1>4, <2>0 DEF Left, BrowserOK
  <2>2. \A c \in calls' : c.op = "report" /\ rows'[c.old] \in Gone' BY <1>2, <1>4, <2>0 DEF Left, Fit
  <2>3. proc'[Worker].pc = "key" => rows'[proc'[Worker].old] \in Gone'
    BY <1>2, <1>4, <2>0 DEF Left, Fit
  <2> QED BY <2>1, <2>2, <2>3 DEF Left
<1> QED BY <1>1, <1>2, <1>3, <1>4 DEF SilentInv, Admin

LEMMA SilentStep == ASSUME TypeInv, StandingOK, SilentInv, [Next]_vars PROVE SilentInv'
<1> LocalOK /\ HistoryOK BY DEF TypeInv
<1>1. CASE UNCHANGED vars
  BY <1>1 DEF vars, browser, server, standing, local, shown, history, SilentInv, Leaving, Left, Gone, Admin
<1>2. CASE token # None /\ Next
  <2>1. CASE Logout \/ Expel BY <2>1, SilentLogout
  <2>2. ASSUME NEW p \in Procs, Steps(p) PROVE SilentInv'
    <3>1. token' # None \/ stray'
      BY <1>2, <2>2, GetShape, HearPostShape, HearSyncShape, HearRemoveShape, HearOnShape, RefreshShape,
         ShowShape, CategoriesShape
      DEF Steps
    <3> QED BY <3>1 DEF SilentInv
  <2>3. ASSUME NEW c \in calls, Serve(c) \/ LateRefusal(c) PROVE SilentInv'
    <3>1. token' # None \/ stray' BY <1>2, <2>3, ServeShape, LateShape
    <3> QED BY <3>1 DEF SilentInv
  <2>4. ASSUME NEW a \in Accounts, Login(a) \/ SetStatus(a) PROVE SilentInv'
    BY <1>2, <2>4, LoginShape, StatusShape DEF SilentInv
  <2>5. ASSUME NEW h \in Hands, Toggle(h) \/ OpenSettings(h) PROVE SilentInv'
    BY <1>2, <2>5, ToggleShape, OpenSettingsShape DEF SilentInv
  <2>6. ASSUME NEW e \in Endpoints, Dispatch(e) PROVE SilentInv' BY <1>2, <2>6, DispatchShape DEF SilentInv
  <2>7. CASE Resume \/ Choose BY <1>2, <2>7, ChooseShape DEF SilentInv, Resume
  <2>8. CASE Wake \/ Rotate \/ Expire \/ SixHours \/ Minute
    BY <1>2, <2>8, WakeShape, RotateShape, OutsideShape DEF SilentInv
  <2> QED BY <1>2, <2>1, <2>2, <2>3, <2>4, <2>5, <2>6, <2>7, <2>8 DEF Next
<1>3. CASE token = None /\ stray = FALSE /\ Next
  <2>0. /\ ~Admin /\ (\A q \in Procs \ {Worker} : proc[q] = Idle) /\ (Leaving \/ Left)
    BY <1>3 DEF SilentInv
  <2>1. ASSUME NEW p \in Procs, Steps(p) PROVE GetSubscription(p)
    <3>1. proc[Page].pc = "idle" /\ \A h \in Hands : proc[h].pc = "idle" BY <2>0, IdleFields, ProcFacts
    <3>2. ~HearPost /\ ~HearSync BY <3>1, HearPostShape, HearSyncShape
    <3>3. ASSUME NEW h \in Hands
          PROVE  ~HearRemove(h) /\ ~HearOn(h) /\ ~RefreshButton(h) /\ ~ShowButton(h) /\ ~HearCategories(h)
      BY <3>1, HearRemoveShape, HearOnShape, RefreshShape, ShowShape, CategoriesShape
    <3> QED BY <2>1, <3>2, <3>3 DEF Steps
  <2>2. ASSUME NEW p \in Procs, Steps(p) PROVE SilentInv' BY <1>3, <2>1, <2>2, SilentGet
  <2>3. ASSUME NEW c \in calls, Serve(c) PROVE SilentInv' BY <1>3, <2>3, SilentServe
  <2>4. ASSUME NEW c \in calls, LateRefusal(c) PROVE FALSE
    BY <2>0, <2>4, LateShape, ProcFacts DEF Leaving, Left
  <2>5. ASSUME NEW a \in Accounts, Login(a) PROVE SilentInv' BY <2>5, LoginShape DEF SilentInv
  <2>s. ASSUME NEW a \in Accounts, SetStatus(a) PROVE SilentInv'
    <3>1. /\ UNCHANGED <<sub, rows, kept, token, proc, calls, stray>> /\ budget'.app = budget.app
      BY <2>s, StatusShape DEF browser, server, history
    <3> QED BY <3>1 DEF SilentInv, Leaving, Left, Gone, Admin
  <2>6. ASSUME NEW h \in Hands PROVE ~Toggle(h) /\ ~OpenSettings(h)
    BY <1>3, ToggleShape, OpenSettingsShape
  <2>7. ASSUME NEW e \in Endpoints, Dispatch(e) PROVE SilentInv' BY <1>3, <2>7, SilentDispatch
  <2>8. ~Resume /\ ~Choose /\ ~Logout /\ ~Expel
    BY <1>3, <2>0, ChooseShape, LogoutStep, ExpelShape, ProcFacts DEF Resume, StandingOK
  <2>9. CASE Wake \/ Rotate BY <1>3, <2>9, SilentWake
  <2>10. CASE Expire \/ SixHours \/ Minute
    <3>1. UNCHANGED <<sub, rows, token, proc, calls, stray>> /\ budget'.app = budget.app
      BY <2>10, OutsideShape DEF server, history
    <3>2. kept' = kept BY <2>10 DEF Expire, SixHours, Minute, standing
    <3> QED BY <3>1, <3>2 DEF SilentInv, Leaving, Left, Gone, Admin
  <2> QED BY <1>3, <2>2, <2>3, <2>4, <2>5, <2>s, <2>6, <2>7, <2>8, <2>9, <2>10 DEF Next
<1>4. CASE token = None /\ stray /\ Next
  <2>1. CASE Resume \/ Choose \/ Logout \/ Expel \/ Expire \/ SixHours \/ Minute
    BY <1>4, <2>1, ChooseShape, LogoutStep, ExpelShape, OutsideShape, ProcFacts
    DEF Resume, history, SilentInv, StandingOK
  <2>2. CASE Wake \/ Rotate BY <1>4, <2>2, WakeShape, RotateShape DEF SilentInv
  <2>3. ASSUME NEW h \in Hands, Toggle(h) \/ OpenSettings(h) PROVE SilentInv'
    BY <1>4, <2>3, ToggleShape, OpenSettingsShape DEF SilentInv
  <2>4. ASSUME NEW a \in Accounts, Login(a) \/ SetStatus(a) PROVE SilentInv'
    BY <1>4, <2>4, LoginShape, StatusShape DEF SilentInv, history
  <2>5. ASSUME NEW p \in Procs, Steps(p) PROVE stray' = stray
    BY <1>4, <2>5, GetShape, HearPostShape, HearSyncShape, HearRemoveShape, HearOnShape, RefreshShape,
       ShowShape, CategoriesShape
    DEF Steps, history
  <2>6. ASSUME NEW c \in calls, Serve(c) \/ LateRefusal(c) PROVE stray'
    BY <1>4, <2>6, ServeShape, LateShape
  <2>7. ASSUME NEW e \in Endpoints, Dispatch(e) PROVE stray' BY <1>4, <2>7, DispatchShape DEF history
  <2> QED BY <1>4, <2>1, <2>2, <2>3, <2>4, <2>5, <2>6, <2>7 DEF Next, SilentInv
<1> QED BY <1>1, <1>2, <1>3, <1>4 DEF HistoryOK

\* After a logout that crossed nothing, the device gets no notification of a member who has
\* left, whatever the worker and the browser renew, but of one whose request to be forgotten
\* was refused because the member was no longer active.
THEOREM SilentAfterLogout == Spec => []LoggedOutSilent
<1> DEFINE Inv == TypeInv /\ StandingOK /\ SilentInv
<1>1. Init => Inv
  <2>1. Init => SilentInv /\ StandingOK BY PushAssumption, ProcFacts DEF Init, SilentInv, StandingOK
  <2> QED BY <2>1, TypeStart
<1>2. Inv /\ [Next]_vars => Inv' BY TypeStep, StandingStep, SilentStep
<1>3. Inv => LoggedOutSilent BY SilentOK
<1> HIDE DEF Inv
<1> QED BY <1>1, <1>2, <1>3, PTL DEF Spec

===============================================================================
