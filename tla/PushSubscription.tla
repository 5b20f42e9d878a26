--------------------------- MODULE PushSubscription ---------------------------
(***************************************************************************)
(* Push notifications on one device: the browser's subscription, the rows  *)
(* of the server, the page of the member or the administrator that keeps   *)
(* the two together, and the service worker, which renews the subscription *)
(* without the page. The push service may forget a subscription and says   *)
(* so only to the server that sends to it.                                 *)
(*                                                                         *)
(* The page has one refresh at a time and a process for each use of the    *)
(* switch or the settings view; the worker is one more process. Each waits *)
(* for its own request; requests are served in any order. The server       *)
(* refuses the requests of a member that an administrator has made         *)
(* inactive; the page then logs out. Its alert is closed at once.          *)
(***************************************************************************)
EXTENDS Integers, FiniteSets

CONSTANTS
  Accounts,     \* who logs in on this device
  Endpoints,    \* addresses the push service gives out, again when forgotten
  None,
  Hands,        \* uses of the switch and the view that may overlap
  Max,          \* the largest budget
  Budgets       \* which page it is, and what may still disturb it

Page == "page"
Worker == "worker"
Procs == Hands \cup {Page, Worker}
Events == {"toggles", "views", "choices", "logouts", "wakes", "expiries", "faults",
           "statuses"}

ASSUME PushAssumption ==
  /\ Accounts # {} /\ None \notin Accounts /\ None \notin Endpoints /\ None \notin Procs
  /\ {Page, Worker} \cap Hands = {}
  /\ Max \in Nat
  /\ Budgets \subseteq [app : {"user", "admin"}, left : [Events -> 0..Max]]

VARIABLES
  sub,          \* the browser's subscription
  live,         \* endpoints that the push service delivers to
  rows,         \* push_subscriptions: the account of each endpoint
  muted,        \* endpoints whose row has the category switched off
  enabled,      \* USER_PUSH_ENABLED_KEY, ADMIN_PUSH_ENABLED_KEY
  due,          \* the last refresh is older than six hours
  synced,       \* the last synchronisation is younger than a minute
  token,        \* who is logged in
  barred,       \* users.status is not ACTIVE
  button,       \* the switch can be used
  box,          \* the category as the page shows it: switched off
  proc,         \* where each process is
  calls,        \* requests on their way
  budget,
  quiet,        \* history: the use of the switch at work is undisturbed
  off,          \* history: switched off, undisturbed, and not used since
  stray,        \* history: the last logout crossed something else
  kept,         \* history: whose last request to be forgotten was refused
  wish          \* history: the category as it was last saved

browser == <<sub, live>>
server == <<rows, muted>>
local == <<enabled, due, synced>>
shown == <<button, box>>
standing == <<barred, kept>>
history == <<quiet, off, stray, wish>>
vars == <<browser, server, standing, local, token, shown, proc, calls, budget, history>>

Idle == [pc |-> "idle", old |-> None, new |-> None, answer |-> "none"]
Place == [pc : {"idle", "key", "post", "sync", "remove", "refresh", "await", "show",
                "cats", "again", "cats2"},
          old : Endpoints \cup {None}, new : Endpoints \cup {None},
          answer : {"none", "ok", "refused", "failed", "lost", "missing", "off", "on"}]
Call == [op : {"post", "delete", "leave", "put", "get", "report"}, e : Endpoints,
         old : Endpoints \cup {None}, owner : Accounts \cup {None},
         cats : {"keep", "on", "off"}, by : Procs \cup {None}]

TypeOK ==
  /\ sub \in Endpoints \cup {None} /\ live \subseteq {sub} \cap Endpoints
  /\ rows \in [Endpoints -> Accounts \cup {None}]
  /\ muted \subseteq {e \in Endpoints : rows[e] # None}
  /\ enabled \in BOOLEAN /\ due \in BOOLEAN /\ synced \in BOOLEAN
  /\ token \in Accounts \cup {None}
  /\ button \in BOOLEAN /\ box \in BOOLEAN
  /\ proc \in [Procs -> Place]
  /\ calls \subseteq Call
  /\ \A c \in calls : c.by # None => proc[c.by].answer = "none"
  /\ quiet \in BOOLEAN /\ off \in BOOLEAN /\ stray \in BOOLEAN /\ wish \in BOOLEAN
  /\ barred \subseteq Accounts /\ kept \subseteq Accounts

\* A device on which nobody has switched notifications on.
Init ==
  /\ sub = None /\ live = {} /\ rows = [e \in Endpoints |-> None] /\ muted = {}
  /\ enabled = FALSE /\ due = TRUE /\ synced = FALSE
  /\ token = CHOOSE a \in Accounts : TRUE
  /\ button = TRUE /\ box = FALSE
  /\ proc = [p \in Procs |-> Idle] /\ calls = {} /\ budget \in Budgets
  /\ quiet = FALSE /\ off = FALSE /\ stray = FALSE /\ wish = FALSE
  /\ barred = {} /\ kept = {}

-------------------------------------------------------------------------------
(* Helpers.                                                                *)

Admin == budget.app = "admin"
Spend(k) == budget.left[k] > 0 /\ budget' = [budget EXCEPT !.left[k] = @ - 1]

\* A fault spends its budget and disturbs.
Fault == Spend("faults") /\ quiet' = FALSE
NoFault == UNCHANGED <<budget, quiet>>

Ask(op, e, p) ==
  [op |-> op, e |-> e, old |-> None, owner |-> token, cats |-> "keep", by |-> p]

\* Endpoints that nothing remembers.
Fresh == {e \in Endpoints :
            /\ rows[e] = None /\ e # sub
            /\ \A p \in Procs : e \notin {proc[p].old, proc[p].new}
            /\ \A c \in calls : e \notin {c.e, c.old}}

\* PushManager.subscribe: the subscription there is, or a new one. Which one of those
\* that nothing remembers makes no difference.
New(e) == Fresh # {} /\ e = CHOOSE x \in Fresh : TRUE
Subscribed(e) == IF sub # None THEN e = sub ELSE New(e)
Subscribe(e) == sub' = e /\ live' = IF sub = None THEN {e} ELSE live
\* PushSubscription.unsubscribe: of a subscription that is no longer there, nothing.
Unsubscribe(e) == sub' = (IF sub = e THEN None ELSE sub) /\ live' = live \ {e}

Goto(p, place) == proc' = [proc EXCEPT ![p] = place]
\* The refresh has come to an end, and those who wait for it go on.
Finish ==
  proc' = [p \in Procs |-> IF p = Page THEN Idle
                           ELSE [proc[p] EXCEPT !.pc = IF @ = "await" THEN "show" ELSE @]]
Free(h) == (\E x \in Hands : proc[x] = Idle) /\ h = CHOOSE x \in Hands : proc[x] = Idle
Busy == calls # {} \/ \E p \in Procs : proc[p] # Idle

-------------------------------------------------------------------------------
(* The refresh of the page.                                                *)

\* Mutants of Start: the subscription alone says whether notifications are wanted;
\* two refreshes are at work at a time.
StartWithoutWish(others) ==
  IF proc[Page] # Idle \/ sub = None \/ ~due
  THEN proc' = others /\ UNCHANGED <<browser, calls>>
  ELSE /\ Unsubscribe(sub) /\ UNCHANGED calls
       /\ proc' = [others EXCEPT ![Page] = [Idle EXCEPT !.pc = "key", !.old = sub]]

\* ensurePushSubscriptionFresh: nothing if a refresh is at work, or if nobody wants
\* notifications; within six hours the subscription is only told to the server
\* again; later it is given up for a new one. others is where the rest goes.
Start(others) ==
  IF proc[Page] # Idle \/ (~enabled /\ sub = None)
  THEN proc' = others /\ UNCHANGED <<browser, calls>>
  ELSE IF sub # None /\ ~due
  THEN /\ UNCHANGED browser
       /\ IF token # None /\ ~synced
          THEN /\ proc' = [others EXCEPT ![Page] = [Idle EXCEPT !.pc = "sync"]]
               /\ calls' = calls \cup {Ask("post", sub, Page)}
          ELSE proc' = others /\ UNCHANGED calls
  ELSE /\ Unsubscribe(sub) /\ UNCHANGED calls
       /\ proc' = [others EXCEPT ![Page] = [Idle EXCEPT !.pc = "key", !.old = sub]]

\* onResume of the realtime client: the page comes back to the screen.
Resume ==
  /\ token # None /\ proc[Page] = Idle
  /\ Start(proc)
  /\ quiet' = FALSE
  /\ UNCHANGED <<server, local, token, shown, budget, off, stray, wish, standing>>

\* The page and the switch fetch the key, subscribe and tell the server, the
\* administrator's switch together with the categories it shows; the worker has
\* the key and reports what it has renewed. Each step may fail.
GetSubscription(p) ==
  /\ proc[p].pc = "key"
  /\ \/ /\ Fault
        /\ IF p = Page THEN Finish
           ELSE Goto(p, IF p \in Hands THEN [Idle EXCEPT !.pc = "refresh"] ELSE Idle)
        /\ UNCHANGED <<browser, calls>>
     \/ \E e \in Endpoints :
          /\ Subscribed(e) /\ Subscribe(e) /\ NoFault
          /\ \/ /\ p = Worker /\ Goto(p, Idle)
                /\ calls' = calls \cup {[Ask("report", e, None) EXCEPT
                                           !.old = proc[p].old, !.owner = None]}
             \/ /\ p # Worker
                /\ Goto(p, [proc[p] EXCEPT !.pc = "post", !.new = e])
                /\ calls' = calls \cup {[Ask("post", e, p) EXCEPT
                     !.cats = IF Admin /\ p \in Hands
                              THEN (IF box THEN "off" ELSE "on") ELSE "keep"]}
  /\ UNCHANGED <<server, local, token, shown, off, stray, wish, standing>>

\* The subscription may be one that the server no longer has a row for.
Forgets(e) == e # None /\ e # proc[Page].new

\* Mutant of Farewell: the token is thrown away before the request takes it.
FarewellLate ==
  IF sub # None /\ token # None THEN {[Ask("leave", sub, None) EXCEPT !.owner = None]}
  ELSE {}

\* What userLogout does to the subscription: the server is asked to forget it, with
\* the token that is about to be thrown away, and nobody waits for the answer.
Farewell == IF sub # None /\ token # None THEN {Ask("leave", sub, None)} ELSE {}
Crossed == Busy \/ sub = None \/ rows[sub] \notin {token, None}
LogOut(rest) ==
  /\ token' = None /\ synced' = FALSE
  /\ calls' = rest \cup Farewell
  /\ stray' = IF token = None THEN stray ELSE Crossed

\* The answer to the refresh: the old subscription's row is to be removed, and
\* nobody waits for that. An answer 401 logs out.
HearPost ==
  LET a == proc[Page].answer IN
  /\ proc[Page].pc = "post" /\ a # "none" /\ Finish
  /\ \/ /\ a = "ok"
        /\ synced' = TRUE /\ enabled' = TRUE /\ due' = FALSE
        /\ calls' = calls \cup (IF Forgets(proc[Page].old)
                                THEN {Ask("delete", proc[Page].old, None)} ELSE {})
        /\ UNCHANGED <<token, stray>>
     \/ a = "refused" /\ LogOut(calls) /\ UNCHANGED <<enabled, due>>
     \/ a \notin {"ok", "refused"} /\ UNCHANGED <<local, calls, token, stray>>
  /\ UNCHANGED <<browser, server, shown, budget, quiet, off, wish, standing>>

\* The answer to the synchronisation.
HearSync ==
  /\ proc[Page].pc = "sync" /\ proc[Page].answer # "none" /\ Finish
  /\ IF proc[Page].answer = "refused" THEN LogOut(calls)
     ELSE /\ synced' = (synced \/ proc[Page].answer = "ok")
          /\ UNCHANGED <<token, calls, stray>>
  /\ UNCHANGED <<browser, server, enabled, due, shown, budget, quiet, off, wish, standing>>

-------------------------------------------------------------------------------
(* The switch and the settings view.                                       *)

\* Mutant of Toggle: the wish for notifications stays when they are switched off.
ToggleKeeps(h) ==
  /\ button /\ token # None /\ Free(h) /\ Spend("toggles")
  /\ button' = FALSE /\ quiet' = ~Busy /\ off' = FALSE
  /\ IF sub # None
     THEN /\ Goto(h, [Idle EXCEPT !.pc = "remove", !.new = sub])
          /\ calls' = calls \cup {Ask("delete", sub, h)}
     ELSE Goto(h, [Idle EXCEPT !.pc = "key"]) /\ UNCHANGED calls
  /\ UNCHANGED <<browser, server, enabled, due, synced, token, box, stray, wish, standing>>

\* togglePushNotifications: the subscription decides what the switch does.
Toggle(h) ==
  /\ button /\ token # None /\ Free(h) /\ Spend("toggles")
  /\ button' = FALSE /\ quiet' = ~Busy /\ off' = FALSE
  /\ IF sub # None
     THEN /\ enabled' = FALSE
          /\ Goto(h, [Idle EXCEPT !.pc = "remove", !.new = sub])
          /\ calls' = calls \cup {Ask("delete", sub, h)}
     ELSE Goto(h, [Idle EXCEPT !.pc = "key"]) /\ UNCHANGED <<enabled, calls>>
  /\ UNCHANGED <<browser, server, due, synced, token, box, stray, wish, standing>>

\* unsubscribeFromPush: without an answer the subscription stays.
HearRemove(h) ==
  /\ proc[h].pc = "remove" /\ proc[h].answer # "none"
  /\ Goto(h, [Idle EXCEPT !.pc = "refresh"])
  /\ IF proc[h].answer = "lost" THEN UNCHANGED <<browser, off>>
     ELSE Unsubscribe(proc[h].new) /\ off' = quiet
  /\ IF proc[h].answer = "refused" THEN LogOut(calls)
     ELSE UNCHANGED <<synced, token, calls, stray>>
  /\ UNCHANGED <<server, enabled, due, shown, budget, quiet, wish, standing>>

\* subscribeToPush: whatever the answer, the browser has a subscription.
HearOn(h) ==
  /\ proc[h].pc = "post" /\ proc[h].answer # "none"
  /\ Goto(h, [Idle EXCEPT !.pc = "refresh"])
  /\ enabled' = (enabled \/ proc[h].answer = "ok")
  /\ IF proc[h].answer = "refused" THEN LogOut(calls)
     ELSE UNCHANGED <<synced, token, calls, stray>>
  /\ UNCHANGED <<browser, server, due, shown, budget, quiet, off, wish, standing>>

\* refreshPushButtonUI, also when the settings are opened: it takes part in a refresh.
OpenSettings(h) ==
  /\ token # None /\ Free(h) /\ Spend("views")
  /\ Goto(h, [Idle EXCEPT !.pc = "refresh"])
  /\ UNCHANGED <<browser, server, local, token, shown, calls, history, standing>>

RefreshButton(h) ==
  /\ proc[h].pc = "refresh"
  /\ \E pc \in {"await", "show"} :
       /\ Start([proc EXCEPT ![h] = [Idle EXCEPT !.pc = pc]])
       /\ pc = "await" <=> proc'[Page] # Idle
  /\ quiet' = FALSE
  /\ UNCHANGED <<server, local, token, shown, budget, off, stray, wish, standing>>

\* The switch can be used again; the administrator's categories are asked for.
ShowButton(h) ==
  /\ proc[h].pc = "show" /\ button' = TRUE
  /\ IF Admin /\ sub # None
     THEN /\ Goto(h, [Idle EXCEPT !.pc = "cats", !.new = sub])
          /\ calls' = calls \cup {Ask("get", sub, h)}
     ELSE Goto(h, Idle) /\ UNCHANGED calls
  /\ UNCHANGED <<browser, server, local, token, box, budget, history, standing>>

\* The administrator's categories; that account is never made inactive. A row that
\* is missing is made first, and they are asked for again.
HearCategories(h) ==
  LET a == proc[h].answer e == proc[h].new IN
  /\ a # "none"
  /\ \/ /\ proc[h].pc \in {"cats", "cats2"} /\ a # "missing"
        /\ box' = (IF a \in {"on", "off"} THEN a = "off" ELSE box)
        /\ Goto(h, Idle) /\ UNCHANGED <<calls, synced>>
     \/ /\ proc[h].pc = "cats" /\ a = "missing"
        /\ Goto(h, [Idle EXCEPT !.pc = "again", !.new = e])
        /\ calls' = calls \cup {Ask("post", e, h)} /\ UNCHANGED <<box, synced>>
     \/ /\ proc[h].pc = "again" /\ a = "ok"
        /\ Goto(h, [Idle EXCEPT !.pc = "cats2", !.new = e])
        /\ calls' = calls \cup {Ask("get", e, h)}
        /\ synced' = TRUE /\ UNCHANGED box
     \/ /\ (proc[h].pc = "again" /\ a # "ok") \/ (proc[h].pc = "cats2" /\ a = "missing")
        /\ Goto(h, Idle) /\ UNCHANGED <<calls, box, synced>>
  /\ UNCHANGED <<browser, server, enabled, due, token, button, budget, history, standing>>

\* toggleAdminPushCategory, updateAdminPushCategories
Choose ==
  /\ Admin /\ button /\ sub # None /\ Spend("choices")
  /\ box' = ~box
  /\ calls' = calls \cup {[Ask("put", sub, None) EXCEPT !.cats = IF box THEN "on" ELSE "off"]}
  /\ UNCHANGED <<browser, server, local, token, button, proc, history, standing>>

-------------------------------------------------------------------------------
(* Logging out and in, on the member's page.                               *)

Logout ==
  /\ ~Admin /\ token # None /\ Spend("logouts")
  /\ LogOut(calls)
  /\ UNCHANGED <<browser, server, enabled, due, shown, proc, quiet, off, wish, standing>>

\* Another request of the page, as the one that a signal asks for, is refused.
Expel ==
  /\ token \in barred
  /\ LogOut(calls)
  /\ UNCHANGED <<browser, server, enabled, due, shown, proc, budget, quiet, off, wish, standing>>

\* user_login, onLoginSuccess
Login(a) ==
  /\ token = None /\ a \notin barred /\ token' = a
  /\ IF proc[Page] = Idle /\ sub # None /\ ~due
     THEN \* the request that Start would send, with the new token
          /\ Goto(Page, [Idle EXCEPT !.pc = "sync"])
          /\ calls' = calls \cup {[Ask("post", sub, Page) EXCEPT !.owner = a]}
          /\ UNCHANGED browser
     ELSE Start(proc)
  /\ quiet' = FALSE
  /\ UNCHANGED <<server, local, shown, budget, off, stray, wish, standing>>

-------------------------------------------------------------------------------
(* The service worker, the push service and time.                          *)

\* periodicsync: the subscription is given up for a new one.
Wake ==
  /\ proc[Worker] = Idle /\ sub # None /\ Spend("wakes")
  /\ Unsubscribe(sub)
  /\ Goto(Worker, [Idle EXCEPT !.pc = "key", !.old = sub])
  /\ quiet' = FALSE /\ stray' = (stray \/ calls # {})
  /\ UNCHANGED <<server, local, token, shown, calls, off, wish, standing>>

\* pushsubscriptionchange: the browser has changed the subscription itself.
Rotate ==
  /\ sub # None /\ Spend("wakes")
  /\ \E e \in Endpoints :
       /\ New(e) /\ sub' = e /\ live' = {e}
       /\ calls' = calls \cup {[Ask("report", e, None) EXCEPT !.old = sub, !.owner = None]}
  /\ quiet' = FALSE /\ stray' = (stray \/ calls # {})
  /\ UNCHANGED <<server, local, token, shown, proc, off, wish, standing>>

\* The push service forgets a subscription, and the browser does not know.
Expire ==
  /\ live # {} /\ Spend("expiries") /\ live' = {}
  /\ UNCHANGED <<sub, server, local, token, shown, proc, calls, history, standing>>

\* Six hours are longer than anything that is at work takes.
SixHours ==
  /\ ~Busy /\ due' = TRUE /\ synced' = FALSE
  /\ UNCHANGED <<browser, server, enabled, token, shown, proc, calls, budget, history, standing>>

Minute ==
  /\ synced' = FALSE
  /\ UNCHANGED <<browser, server, enabled, due, token, shown, proc, calls, budget, history, standing>>

-------------------------------------------------------------------------------
(* The server.                                                             *)

\* update_user_status
SetStatus(a) ==
  /\ ~Admin /\ Spend("statuses")
  /\ barred' = IF a \in barred THEN barred \ {a} ELSE barred \cup {a}
  /\ UNCHANGED <<browser, server, kept, local, token, shown, proc, calls, history>>

Row(e, owner, off_) ==
  /\ rows' = [rows EXCEPT ![e] = owner]
  /\ muted' = IF off_ /\ owner # None THEN muted \cup {e} ELSE muted \ {e}

\* subscribe_push, subscribe_admin_push: what is not said stays as it was in the row
\* of this endpoint; a new row has every category on.
SubscribePush(c) == Row(c.e, c.owner, c.cats = "off" \/ (c.cats = "keep" /\ c.e \in muted))

\* unsubscribe_push: one's own row.
UnsubscribePush(c) ==
  IF rows[c.e] = c.owner THEN Row(c.e, None, FALSE) ELSE UNCHANGED server

\* resubscribe_push: the row moves to the new endpoint with what it holds, unless
\* that has a row already.
ResubscribePush(c) ==
  CASE rows[c.old] = None -> UNCHANGED server
    [] rows[c.old] # None /\ rows[c.e] # None -> Row(c.old, None, FALSE)
    [] OTHER ->
         /\ rows' = [rows EXCEPT ![c.old] = None, ![c.e] = rows[c.old]]
         /\ muted' = {IF x = c.old THEN c.e ELSE x : x \in muted}

\* update_admin_push_categories
SaveCategories(c) ==
  IF rows[c.e] = c.owner
  THEN Row(c.e, c.owner, c.cats = "off") /\ wish' = (c.cats = "off")
  ELSE UNCHANGED <<server, wish>>

Reply(c) ==
  CASE c.op = "get" -> IF rows[c.e] # c.owner THEN "missing"
                       ELSE IF c.e \in muted THEN "off" ELSE "on"
    [] OTHER -> "ok"

\* require_user_auth, require_admin_auth: there is no token, or its account is not active.
Refused(c) == c.op # "report" /\ (c.owner = None \/ c.owner \in barred)

\* The handlers, with the check of the token before them; the answer may be lost,
\* the request too, or the server fails.
Serve(c) ==
  /\ calls' = calls \ {c}
  /\ \E a \in {"ok", "refused", "failed", "lost", "missing", "on", "off"}, done \in BOOLEAN :
       /\ a = "refused" => c.by # None \/ c.op = "leave"
       /\ done => ~Refused(c)
       /\ \/ done /\ a = Reply(c) /\ NoFault /\ UNCHANGED stray
          \/ ~done /\ Refused(c) /\ a = "refused" /\ NoFault /\ UNCHANGED stray
          \/ a = "lost" /\ Fault /\ stray' = TRUE
          \/ ~done /\ a = "failed" /\ Fault /\ stray' = TRUE
       /\ IF ~done THEN UNCHANGED <<server, wish>>
          ELSE CASE c.op = "post" -> SubscribePush(c) /\ UNCHANGED wish
                 [] c.op \in {"delete", "leave"} -> UnsubscribePush(c) /\ UNCHANGED wish
                 [] c.op = "report" -> ResubscribePush(c) /\ UNCHANGED wish
                 [] c.op = "put" -> SaveCategories(c)
                 [] OTHER -> UNCHANGED <<server, wish>>
       /\ proc' = IF c.by = None THEN proc ELSE [proc EXCEPT ![c.by].answer = a]
  /\ kept' = IF c.op # "leave" THEN kept
             ELSE IF c.owner \in barred THEN kept \cup {c.owner} ELSE kept \ {c.owner}
  /\ UNCHANGED <<browser, local, token, shown, off, barred>>

\* A request that nobody waits for is refused: the answer 401 logs out whoever is
\* logged in by now. The request of a logout itself does not look at its answer.
LateRefusal(c) ==
  /\ c.by = None /\ c.op # "leave" /\ Refused(c)
  /\ LogOut(calls \ {c})
  /\ UNCHANGED <<browser, server, enabled, due, shown, proc, budget, quiet, off, wish, standing>>

\* _dispatch: a push to an endpoint the push service has forgotten removes its row.
Dispatch(e) ==
  /\ rows[e] # None /\ e \notin live
  /\ Row(e, None, FALSE)
  /\ UNCHANGED <<browser, local, token, shown, proc, calls, budget, history, standing>>

Steps(p) ==
  \/ GetSubscription(p)
  \/ p = Page /\ (HearPost \/ HearSync)
  \/ p \in Hands /\ (HearRemove(p) \/ HearOn(p) \/ RefreshButton(p) \/ ShowButton(p)
                     \/ HearCategories(p))
Served(p) == \E c \in calls : c.by = p /\ (Serve(c) \/ LateRefusal(c))

Next ==
  \/ Resume \/ Choose \/ Logout \/ Expel \/ Wake \/ Rotate \/ Expire \/ SixHours \/ Minute
  \/ \E h \in Hands : Toggle(h) \/ OpenSettings(h)
  \/ \E a \in Accounts : Login(a) \/ SetStatus(a)
  \/ \E p \in Procs : Steps(p)
  \/ \E c \in calls : Serve(c) \/ LateRefusal(c)
  \/ \E e \in Endpoints : Dispatch(e)

\* The page comes back to the screen again and again, hours pass, requests are
\* answered, and the server keeps sending.
Fairness ==
  /\ WF_vars(Resume) /\ SF_vars(SixHours)
  /\ \A p \in Procs : WF_vars(Steps(p)) /\ WF_vars(Served(p))
  /\ WF_vars(Served(None))
  /\ \A e \in Endpoints : WF_vars(Dispatch(e))

Spec == Init /\ [][Next]_vars /\ Fairness
-------------------------------------------------------------------------------
\* Once the switch has been turned off, and nothing has crossed that, no refresh of
\* the page or the worker turns notifications on again.
OffStays == off => ~enabled /\ sub = None

\* After a logout that crossed nothing, the device gets no notification of the
\* member who has left (user.js:586: a shared device, a change of account), but of one
\* whose request to be forgotten the server refused because the member was no longer
\* active (main.py:94: notifications are sent to an inactive member, push.py:56).
LoggedOutSilent ==
  token = None /\ ~stray /\ (\A c \in calls : c.op # "leave") =>
    \A e \in live : rows[e] \in kept \cup {None}

\* What user.js:586 promises, without that exception.
LoggedOutSilentAlways ==
  token = None /\ ~stray /\ (\A c \in calls : c.op # "leave") =>
    \A e \in live : rows[e] = None

\* As long as notifications are wanted, the device comes to get those of whoever is
\* logged in, whatever the browser, the push service and the network have done
\* (user.js:773-777: the page repairs it by itself).
Working == sub \in live /\ rows[sub] = token
Recovers == []<>(~enabled \/ token = None \/ Working)

\* What was saved for the categories is not replaced by the default (admin.js:498).
CategoriesKept == wish /\ token # None /\ sub # None /\ rows[sub] = token => sub \in muted

================================================================================
