------------------------------ MODULE MemberHome ------------------------------
(***************************************************************************)
(* The first page of a member: the balance, the deposit that waits to be   *)
(* confirmed with two taps, and the socket over which the server says that *)
(* something has changed. What the page shows it has asked for itself, in  *)
(* requests whose answers may be late, lost or refused. A link in a text   *)
(* message opens the page with a question about one deposit.               *)
(* A balance is the set of the deposits that are in it.                    *)
(***************************************************************************)
EXTENDS Integers, FiniteSets

CONSTANTS
  Members, None,
  Deposits, Owner,   \* numbers, in the order of their rows; whose
  Linked,            \* the deposit of the link
  Sockets,
  Plans              \* what may happen at most, see PlanType

\* Who is logged in at first, what waits for him, whether the link is opened; questions
\* for the balance that are under way at a time (of others one); logins, deposits decided elsewhere or
\* arriving, answers lost or refused, sockets dropped.
PlanType ==
  [who : Members \cup {None}, waits : SUBSET Deposits, link : BOOLEAN, calls : Nat \ {0},
   login : Nat, decide : Nat, fault : Nat, drop : Nat]

\* What the constants have to be.
HomeConstants ==
  /\ Deposits \subseteq Nat \ {0} /\ Owner \in [Deposits -> Members] /\ None \notin Members
  /\ Linked \in Deposits /\ Sockets \subseteq Nat \ {0} /\ Plans \subseteq PlanType

VARIABLES
  ui,       \* token, loggedInUser, _myDeposits, _armedDepositId, the card that is drawn
  dialog,   \* of the link
  calls,    \* requests under way
  socks, ref, timer,  \* sockets; the one of the client; it will reconnect
  status,   \* the server's deposits
  plan,
  asked,    \* history: the deposit whose card was tapped and has been there since; 0
  late      \* history: a socket was opened while another was closing

homeVars == <<ui, dialog, calls, socks, ref, timer, status, plan, asked, late>>

Blank == [dep |-> 0, armed |-> FALSE, held |-> 0]
NoUser == [of |-> None, paid |-> {}]
Gone == [st |-> "gone", of |-> None, note |-> FALSE]
UiType ==
  [token : Members \cup {None}, user : [of : Members \cup {None}, paid : SUBSET Deposits],
   deps : SUBSET Deposits, armed : Deposits \cup {0},
   shown : [dep : Deposits \cup {0}, armed : BOOLEAN, held : Nat]]
CallType ==
  [kind : {"restore", "me", "deposits", "claim", "ask", "deny"}, n : Nat, of : Members \cup {None},
   dep : Deposits \cup {0}, then : Nat,
   answer : {"none", "ok", "no", "expired", "lost", "pending", "denied", "done"}, found : SUBSET Deposits]
SockType == [st : {"gone", "opening", "open", "closing"}, of : Members \cup {None}, note : BOOLEAN]

TypeOK ==
  /\ ui \in UiType /\ calls \subseteq CallType /\ socks \in [Sockets -> SockType]
  /\ dialog \in {"none", "ask", "held", "thanks", "done", "error"}
  /\ ref \in Sockets \cup {0} /\ timer \in BOOLEAN /\ plan \in PlanType
  /\ status \in [Deposits -> {"none", "PENDING", "CREDITED", "DENIED"}]
  /\ asked \in Deposits \cup {0} /\ late \in BOOLEAN

Paid(m) == {d \in Deposits : Owner[d] = m /\ status[d] = "CREDITED"}
Waiting(m) == {d \in Deposits : Owner[d] = m /\ status[d] = "PENDING"}

-------------------------------------------------------------------------------
(* The card.                                                               *)

Least(S) == CHOOSE d \in S : \A e \in S : d <= e

\* Mutant of Render: whatever was armed stays so.
RenderKeeps(u) ==
  IF u.deps = {} THEN [u EXCEPT !.shown = Blank]
  ELSE [u EXCEPT !.shown = [dep |-> Least(u.deps), armed |-> u.armed = Least(u.deps), held |-> 0]]
\* renderPendingDepositCard: the oldest deposit that waits, and a new button.
Render(u) ==
  LET d == IF u.deps = {} THEN 0 ELSE Least(u.deps)
      a == u.armed = d
  IN IF d = 0 THEN [u EXCEPT !.armed = 0, !.shown = Blank]
     ELSE [u EXCEPT !.armed = IF a THEN d ELSE 0, !.shown = [dep |-> d, armed |-> a, held |-> 0]]

\* What the card has shown since it was tapped.
StillAsked(u) == IF u.shown.dep = asked /\ u.shown.armed THEN asked ELSE 0
Draw(u) == ui' = u /\ asked' = StillAsked(u)

-------------------------------------------------------------------------------
(* Requests.                                                               *)

Free(kind) == {n \in 1 .. IF kind = "me" THEN plan.calls ELSE 1 : \A c \in calls : (c.kind = kind => c.n # n) /\ (kind = "claim" => c.then # n)}
Ask(kind, of, d, t) ==
  [kind |-> kind, n |-> Least(Free(kind)), of |-> of, dep |-> d, then |-> t, answer |-> "none", found |-> {}]
\* There is room for them: a bound.
Room(kinds) == \A k \in kinds : Free(k) # {}
\* refreshMyInfo, loadMyDeposits
Reload(m) == {Ask("me", m, 0, 0), Ask("deposits", m, 0, 0)}

-------------------------------------------------------------------------------
(* The client of the socket.                                               *)

Live(s) == socks[s].st \in {"opening", "open"}
Closing == {s \in Sockets : socks[s].st = "closing"}
Spare == {s \in Sockets : socks[s].st = "gone"}

\* Mutant of Connected: nobody looks whether there is a socket.
ConnectedNever == FALSE
Connected == ref # 0 /\ Live(ref)

\* connect
Connect(m) ==
  IF m = None \/ Connected THEN UNCHANGED <<socks, ref, late>>
  ELSE /\ Spare # {} /\ ref' = Least(Spare)
       /\ socks' = [socks EXCEPT ![Least(Spare)] = [Gone EXCEPT !.st = "opening", !.of = m]]
       /\ late' = (late \/ Closing # {})

\* disconnect
Disconnect ==
  /\ timer' = FALSE /\ ref' = 0 /\ UNCHANGED late
  /\ socks' = IF ref # 0 /\ Live(ref) THEN [socks EXCEPT ![ref].st = "closing"] ELSE socks

Opened(s) ==
  /\ socks[s].st = "opening" /\ socks' = [socks EXCEPT ![s].st = "open"]
  /\ UNCHANGED <<ui, dialog, calls, ref, timer, status, plan, asked, late>>

\* onclose, of whichever socket.
Closed(s) ==
  /\ \/ socks[s].st = "closing" /\ UNCHANGED plan
     \/ Live(s) /\ plan.drop > 0 /\ plan' = [plan EXCEPT !.drop = @ - 1]
  /\ socks' = [socks EXCEPT ![s] = Gone] /\ ref' = 0
  /\ timer' = (timer \/ ui.token # None)
  /\ UNCHANGED <<ui, dialog, calls, status, asked, late>>

\* The system lets go of a socket of a page that is out of sight.
Drop(s) ==
  /\ Live(s) /\ plan.drop > 0 /\ plan' = [plan EXCEPT !.drop = @ - 1]
  /\ socks' = [socks EXCEPT ![s].st = "closing"]
  /\ UNCHANGED <<ui, dialog, calls, ref, timer, status, asked, late>>

Reconnect ==
  /\ timer /\ timer' = FALSE /\ Connect(ui.token)
  /\ UNCHANGED <<ui, dialog, calls, status, plan, asked>>

\* onMessage
Refresh(s) ==
  /\ socks[s].st = "open" /\ socks[s].note /\ Room({"me", "deposits"})
  /\ socks' = [socks EXCEPT ![s].note = FALSE] /\ calls' = calls \cup Reload(ui.token)
  /\ UNCHANGED <<ui, dialog, ref, timer, status, plan, asked, late>>

\* Mutant of Resume: the page only connects.
ResumeConnects ==
  /\ ui.token # None /\ Connect(ui.token)
  /\ UNCHANGED <<ui, dialog, calls, timer, status, plan, asked>>
\* resume and onResume: the page comes to the front, or the network back.
Resume ==
  /\ ui.token # None /\ Connect(ui.token) /\ Room({"me", "deposits"}) /\ calls' = calls \cup Reload(ui.token)
  /\ UNCHANGED <<ui, dialog, timer, status, plan, asked>>

\* A notification is tapped while the page is open.
OpenNotification ==
  /\ ui.token # None /\ Room({"me", "deposits"}) /\ calls' = calls \cup Reload(ui.token)
  /\ UNCHANGED <<ui, dialog, socks, ref, timer, status, plan, asked, late>>

-------------------------------------------------------------------------------
(* Coming and going.                                                       *)

LoggedOut(u) == Render([u EXCEPT !.token = None, !.user = NoUser, !.deps = {}])

NoCall ==
  [kind |-> "restore", n |-> 1, of |-> None, dep |-> 0, then |-> 0, answer |-> "none", found |-> {}]

\* The page is opened, perhaps with a token that is kept, perhaps by the link.
Init ==
  /\ plan \in Plans
  /\ status = [d \in Deposits |-> IF d \in plan.waits THEN "PENDING" ELSE "none"]
  /\ ui = [token |-> plan.who, user |-> NoUser, deps |-> {}, armed |-> 0, shown |-> Blank]
  /\ calls = (IF plan.link THEN {[NoCall EXCEPT !.kind = "ask", !.dep = Linked]} ELSE {}) \cup
       (IF plan.who # None THEN {[NoCall EXCEPT !.of = plan.who]} ELSE {})
  /\ dialog = "none" /\ socks = [s \in Sockets |-> Gone] /\ ref = 0 /\ timer = FALSE
  /\ asked = 0 /\ late = FALSE

\* onLoginSuccess
Welcome(u) == Draw(Render(u)) /\ Connect(u.token)

\* The login form hands over a token and a member (see AccountActivation).
Login(m) ==
  /\ ui.token = None /\ plan.login > 0 /\ plan' = [plan EXCEPT !.login = @ - 1]
  /\ Room({"deposits"}) /\ calls' = calls \cup {Ask("deposits", m, 0, 0)}
  /\ Welcome([ui EXCEPT !.token = m, !.user = [of |-> m, paid |-> Paid(m)]])
  /\ UNCHANGED <<dialog, timer, status>>

\* userLogout
Leave == Draw(LoggedOut(ui)) /\ Disconnect

\* confirmUserLogout
Logout ==
  /\ ui.token # None /\ plan.login > 0 /\ Leave
  /\ UNCHANGED <<dialog, calls, status, plan>>

-------------------------------------------------------------------------------
(* The two taps, and taps beside the card.                                 *)

\* armPendingDeposit: the card's first button, or the one that takes it back.
Arm ==
  /\ ui.token # None /\ dialog = "none" /\ ui.shown.dep # 0
  /\ LET d == ui.shown.dep
         u == Render([ui EXCEPT !.armed = IF ui.shown.armed \/ ui.armed = d THEN 0 ELSE d])
     IN ui' = u /\ asked' = IF u.shown.armed THEN d ELSE 0
  /\ UNCHANGED <<dialog, calls, socks, ref, timer, status, plan, late>>

TapBeside ==
  /\ ui.armed # 0 /\ Draw(Render([ui EXCEPT !.armed = 0]))
  /\ UNCHANGED <<dialog, calls, socks, ref, timer, status, plan, late>>

\* confirmPendingDeposit
Confirm ==
  /\ ui.token # None /\ dialog = "none" /\ ui.shown.armed /\ ui.shown.held = 0 /\ Room({"claim"})
  /\ LET c == Ask("claim", ui.token, ui.shown.dep, 0)
     IN calls' = calls \cup {c} /\ ui' = [ui EXCEPT !.shown.held = c.n]
  /\ UNCHANGED <<dialog, socks, ref, timer, status, plan, asked, late>>

\* confirmDepositDeny, closeDepositDeny
Deny ==
  /\ dialog = "ask" /\ dialog' = "held" /\ calls' = calls \cup {Ask("deny", None, Linked, 0)}
  /\ UNCHANGED <<ui, socks, ref, timer, status, plan, asked, late>>
CloseDeny ==
  /\ dialog # "none" /\ dialog' = "none"
  /\ UNCHANGED <<ui, calls, socks, ref, timer, status, plan, asked, late>>

-------------------------------------------------------------------------------
(* Answers. A 401 logs out whoever is logged in by now.                    *)

Base(c) == IF c.answer = "expired" THEN LoggedOut(ui) ELSE ui
Line(c) == IF c.answer = "expired" THEN Disconnect ELSE UNCHANGED <<socks, ref, timer, late>>
Released(u, n) == IF n # 0 /\ u.shown.held = n THEN [u EXCEPT !.shown.held = 0] ELSE u

\* restoreSession
HearRestore(c) ==
  /\ c.kind = "restore" /\ UNCHANGED <<dialog, status, plan>>
  /\ CASE c.answer = "ok" ->
            /\ Welcome([ui EXCEPT !.user = [of |-> c.of, paid |-> c.found]])
            /\ calls' = (calls \ {c}) \cup {Ask("deposits", ui.token, 0, 0)} /\ UNCHANGED timer
       [] c.answer = "lost" ->
            calls' = calls \ {c} /\ UNCHANGED <<ui, asked, socks, ref, timer, late>>
       [] OTHER -> Leave /\ calls' = calls \ {c}

\* refreshMyInfo, and what a confirmation does after it
HearMe(c) ==
  /\ c.kind = "me" /\ UNCHANGED <<dialog, status, plan>> /\ Line(c)
  /\ CASE c.answer = "ok" -> Draw(Render([ui EXCEPT !.user = [of |-> c.of, paid |-> c.found]]))
       [] c.answer = "lost" -> Draw(Released(ui, c.then))
       [] OTHER -> Draw(Base(c))
  /\ calls' = (calls \ {c}) \cup
       (IF c.then # 0 /\ c.answer # "lost" THEN {Ask("deposits", ui'.token, 0, 0)} ELSE {})

\* loadMyDeposits
HearDeposits(c) ==
  /\ c.kind = "deposits" /\ UNCHANGED <<dialog, status, plan>> /\ Line(c)
  /\ Draw(IF c.answer = "lost" THEN ui
          ELSE Render([Base(c) EXCEPT !.deps = IF c.answer = "ok" THEN c.found ELSE {}]))
  /\ calls' = calls \ {c}

\* The rest of confirmPendingDeposit
HearClaim(c) ==
  /\ c.kind = "claim" /\ UNCHANGED <<dialog, status, plan>> /\ Line(c)
  /\ IF c.answer = "ok"
     THEN /\ Draw([ui EXCEPT !.armed = 0, !.deps = @ \ {c.dep}])
          /\ calls' = (calls \ {c}) \cup {Ask("me", ui.token, 0, c.n)}
     ELSE Draw(Released(Base(c), c.n)) /\ calls' = calls \ {c}

\* The rest of checkDepositDenyLink and of confirmDepositDeny
HearDeny(c) ==
  /\ c.kind \in {"ask", "deny"} /\ UNCHANGED <<ui, socks, ref, timer, status, plan, asked, late>>
  /\ dialog' = CASE c.kind = "deny" /\ dialog = "none" -> "none"
                 [] c.answer = "pending" -> "ask"
                 [] c.answer = "denied" -> "thanks"
                 [] c.answer = "done" -> "done"
                 [] OTHER -> "error"
  /\ calls' = (calls \ {c}) \cup
       (IF c.kind = "deny" /\ c.answer \in {"denied", "done"} /\ ui.token # None
        THEN {Ask("deposits", ui.token, 0, 0)} ELSE {})

\* What the answer makes the page ask.
Follows(c) ==
  IF c.kind = "claim" THEN {"me"} ELSE IF c.kind = "deposits" THEN {} ELSE {"deposits"}
Hear(c) ==
  /\ c.answer # "none"
  /\ Room(Follows(c))
  /\ HearRestore(c) \/ HearMe(c) \/ HearDeposits(c) \/ HearClaim(c) \/ HearDeny(c)

-------------------------------------------------------------------------------
(* The server.                                                             *)

\* notify_user: the sockets of the member get a message, as far as the process that
\* sends it knows them and they are still there.
Notify(m) ==
  \E lucky \in SUBSET {s \in Sockets : socks[s].st = "open" /\ socks[s].of = m} :
    socks' = [s \in Sockets |-> IF s \in lucky THEN [socks[s] EXCEPT !.note = TRUE] ELSE socks[s]]

Answered(c, a, f) == calls' = (calls \ {c}) \cup {[c EXCEPT !.answer = a, !.found = f]}
Set(d, st) == status' = [status EXCEPT ![d] = st] /\ Notify(Owner[d])
Same == UNCHANGED <<status, socks>>

\* Whose deposit it is, and that it waits.
Claimable(c) == c.dep \in Waiting(c.of)

\* get_my_bank_transactions, claim_bank_transaction, get_deposit_deny_info, deny_deposit
Serve(c) ==
  /\ c.answer = "none" /\ UNCHANGED <<ui, dialog, ref, timer, plan, asked, late>>
  /\ CASE c.kind \in {"ask", "deny"} /\ status[c.dep] = "PENDING" ->
            IF c.kind = "ask" THEN Answered(c, "pending", {}) /\ Same
            ELSE Answered(c, "denied", {}) /\ Set(c.dep, "DENIED")
       [] c.kind \in {"ask", "deny"} /\ status[c.dep] # "PENDING" ->
            Answered(c, IF status[c.dep] = "DENIED" THEN "denied" ELSE "done", {}) /\ Same
       [] c.kind \notin {"ask", "deny"} /\ c.of = None -> Answered(c, "expired", {}) /\ Same
       [] c.kind \in {"me", "restore"} /\ c.of # None -> Answered(c, "ok", Paid(c.of)) /\ Same
       [] c.kind = "deposits" /\ c.of # None -> Answered(c, "ok", Waiting(c.of)) /\ Same
       [] c.kind = "claim" /\ Claimable(c) -> Answered(c, "ok", {}) /\ Set(c.dep, "CREDITED")
       [] OTHER -> Answered(c, "no", {}) /\ Same

\* The answer is lost or refused, or the token has expired.
Fail(c) ==
  /\ plan.fault > 0 /\ plan' = [plan EXCEPT !.fault = @ - 1]
  /\ \/ c.answer \notin {"lost", "no", "expired"} /\ Answered(c, "lost", {})
     \/ c.answer = "none" /\ Answered(c, "no", {})
     \/ c.answer = "none" /\ c.kind \notin {"ask", "deny"} /\ Answered(c, "expired", {})
  /\ UNCHANGED <<ui, dialog, socks, ref, timer, status, asked, late>>

\* A deposit arrives, or is decided by an administrator or on another device.
Decide(d) ==
  /\ plan.decide > 0 /\ plan' = [plan EXCEPT !.decide = @ - 1]
  /\ \/ status[d] = "none" /\ Set(d, "PENDING")
     \/ status[d] = "PENDING" /\ (Set(d, "CREDITED") \/ Set(d, "DENIED"))
  /\ UNCHANGED <<ui, dialog, calls, ref, timer, asked, late>>

-------------------------------------------------------------------------------

Sees == Resume \/ Reconnect \/ \E s \in Sockets : Refresh(s)
Taps == Arm \/ TapBeside \/ Confirm \/ Deny \/ CloseDeny \/ OpenNotification
HomeNext ==
  \/ Sees \/ Taps \/ Logout
  \/ \E m \in Members : Login(m)
  \/ \E s \in Sockets : Opened(s) \/ Closed(s) \/ Drop(s)
  \/ \E c \in calls : Hear(c) \/ Serve(c) \/ Fail(c)
  \/ \E d \in Deposits : Decide(d)

\* Requests of a kind are answered and the answers heard, sockets that close are closed,
\* and the member comes back to the page again and again; the rest may never happen.
HomeFairness ==
  /\ \A k \in {"me", "deposits"} : WF_homeVars(\E c \in calls : c.kind = k /\ (Serve(c) \/ Hear(c)))
  /\ WF_homeVars(\E s \in Closing : Closed(s)) /\ SF_homeVars(Resume)

HomeSpec == Init /\ [][HomeNext]_homeVars /\ HomeFairness

-------------------------------------------------------------------------------
(* Properties.                                                             *)

\* What is confirmed is the deposit whose card was tapped once and which the page has
\* shown, waiting for the second tap, ever since (user.js:1239, 1263), whatever answers
\* have redrawn the card in between.
ConfirmsTheAsked ==
  [][\A c \in calls' \ calls : c.kind = "claim" /\ c.answer = "none" => c.dep = asked]_homeVars

\* A page has one line to the server, and none without a member (ws-client.js:23, 54),
\* unless a socket was opened while another was still closing: the end of the older
\* one then passes for that of the newer one, and a third is opened.
OneLine == ~late => \A s, t \in Sockets : Live(s) /\ Live(t) => s = t /\ ui.token # None

\* The page comes to show the balance and the deposits of the member as they are,
\* whatever messages, answers and sockets were lost (ws-client.js:70).
Current ==
  ui.token # None =>
    ui.user = [of |-> ui.token, paid |-> Paid(ui.token)] /\ ui.deps = Waiting(ui.token)
CatchesUp == []<>Current

===============================================================================
