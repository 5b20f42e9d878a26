------------------------------- MODULE AdminDesk -------------------------------
(***************************************************************************)
(* The administrator's page: the member list and the detail of one member, *)
(* the inbox and the detail of one deposit, the amount forms, the two      *)
(* dialogs that everything shares, the requests on their way, and what     *)
(* comes uninvited: signals of the realtime channel, taps on notifications *)
(* and the end of the session.                                             *)
(*                                                                         *)
(* A request is served by the server and heard by the page in two steps,   *)
(* so that answers are heard in any order.                                 *)
(***************************************************************************)
EXTENDS Integers, FiniteSets

CONSTANTS
  Members,
  Deposits,
  None,
  Named,        \* members whose name fits the depositor's
  Matched,      \* matched_user_id of each deposit
  MaxTaps, MaxSignals,
  Budgets       \* taps, links, changes, faults and expiries still to come

ASSUME DeskAssumption ==
  /\ None \notin Members \cup Deposits /\ Members \cap Deposits = {}
  /\ Named \in [Deposits -> SUBSET Members]
  /\ Matched \in [Deposits -> Members \cup {None}]
  /\ MaxTaps \in Nat /\ MaxSignals \in Nat
  /\ Budgets \subseteq [taps : 0..MaxTaps, links : Nat, changes : 0..MaxSignals,
                        faults : Nat, expiries : Nat]

VARIABLES
  db,           \* the server: members, deposits, and whether it takes the token
  list,         \* users and bankTransactions, as the page last heard of them
  auth,         \* isAdminAuthenticated; the PIN dialog is shown without it
  target,       \* currentDetailUserId
  drawn,        \* the member whose detail is drawn
  view,         \* the active view: "list" for the tabs, or "detail"
  form,         \* the amount form that is open
  deposit,      \* the deposit dialog
  dialog,       \* the confirmation that is asked for
  alert,        \* the alert that is shown and the button that waits for it
  locked,       \* buttons that are disabled
  calls,        \* requests on their way
  signals,      \* signals of the realtime channel on their way
  budget,
  links,        \* history: what taps on notifications have opened
  tapped,       \* history: members tapped in this deposit's dialog
  orphaned      \* history: buttons that wait for an alert that was overwritten

page == <<target, drawn, view>>
box == <<form, deposit, dialog>>
wait == <<alert, locked, orphaned>>
history == <<links, tapped>>
vars == <<db, list, auth, page, box, wait, calls, signals, budget, history>>

MemberStatuses == {"ACTIVE", "INACTIVE", "SUSPENDED", "GONE"}
DepositStatuses == {"PENDING", "ERROR", "CREDITED_MANUAL", "OTHER", "GONE"}
Resolvable == {"PENDING", "ERROR"}
Subjects == Members \cup Deposits \cup {None}
Amounts == {"recharge", "deduct"}
Confirmed == {"delete", "active", "suspend", "card", "other"}
Loads == {"users", "txns"}
Buttons == Amounts \cup {"active", "deposit"}

\* What a load is followed by: the opening of a link, the drawing of the detail
\* when the other loads of the same signal have been heard, or the drawing and
\* the release of a button.
Then(do, at, ev) == [do |-> do, at |-> at, ev |-> ev]
Nothing == Then("none", None, 0)
\* subject is what the request names, shown what the page showed when it was
\* asked for; snap is what a load brings.
Call == [op : Amounts \cup Confirmed \cup {"resolve"} \cup Loads, subject : Subjects,
         shown : Subjects, member : Members \cup {None}, to : MemberStatuses \cup {"none"},
         then : [do : {"none", "open", "draw", "free"}, ev : Nat,
                 at : Subjects \cup Buttons \cup Confirmed],
         answer : {"none", "ok", "refused", "401", "lost"},
         snap : {<<>>} \cup [Members -> MemberStatuses] \cup [Deposits -> DepositStatuses]]
NoDialog == [op |-> "none", subject |-> None, to |-> "none"]
NoAlert == [on |-> FALSE, button |-> "none", load |-> FALSE]
NoBox == [txn |-> None, chosen |-> None, drawn |-> None]

TypeOK ==
  /\ db \in [members : [Members -> MemberStatuses],
             deposits : [Deposits -> DepositStatuses], session : BOOLEAN]
  /\ list \in [users : [Members -> MemberStatuses], txns : [Deposits -> DepositStatuses]]
  /\ auth \in BOOLEAN
  /\ target \in Members \cup {None} /\ drawn \in Members \cup {None}
  /\ view \in {"list", "detail"}
  /\ form \in Amounts \cup {"none"}
  /\ deposit \in [txn : Deposits \cup {None}, chosen : Members \cup {None},
                  drawn : Deposits \cup {None}]
  /\ dialog \in [op : Confirmed, subject : Subjects, to : MemberStatuses \cup {"none"}]
                 \cup {NoDialog}
  /\ alert \in [on : BOOLEAN, button : Buttons \cup {"none"}, load : BOOLEAN]
  /\ locked \subseteq Buttons /\ orphaned \subseteq Buttons
  /\ calls \subseteq Call
  /\ signals \in 0..MaxSignals
  /\ links \subseteq Subjects /\ tapped \subseteq Members

Init ==
  /\ db = [members |-> [m \in Members |-> "ACTIVE"],
           deposits |-> [d \in Deposits |-> IF Matched[d] = None THEN "ERROR" ELSE "PENDING"],
           session |-> TRUE]
  /\ list = [users |-> db.members, txns |-> db.deposits]
  /\ auth = TRUE /\ target = None /\ drawn = None /\ view = "list"
  /\ form = "none" /\ deposit = NoBox /\ dialog = NoDialog
  /\ alert = NoAlert /\ locked = {} /\ orphaned = {}
  /\ calls = {} /\ signals = 0 /\ budget \in Budgets
  /\ links = {} /\ tapped = {}

-------------------------------------------------------------------------------
(* Helpers of the page.                                                    *)

\* adminFetch: a request goes out.
Request(op, s, shown) ==
  [op |-> op, subject |-> s, shown |-> shown, member |-> None, to |-> "none",
   then |-> Nothing, answer |-> "none", snap |-> <<>>]
Load(op, then) == [Request(op, None, None) EXCEPT !.then = then]

Spend(k) == budget[k] > 0 /\ budget' = [budget EXCEPT ![k] = @ - 1]

\* Nothing lies over the page.
Uncovered == auth /\ dialog = NoDialog /\ ~alert.on
PageFree == Uncovered /\ form = "none" /\ deposit.drawn = None
Tap == Spend("taps")

\* showAlertModal, with the button that waits for it and whether it will load the
\* lists then: the alert takes the place of the one that is shown, whose waiter is
\* never resumed.
Alert(button, load) ==
  /\ alert' = [on |-> TRUE, button |-> button, load |-> load]
  /\ orphaned' = orphaned \cup ({alert.button} \cap Buttons)
KeepAlert == UNCHANGED <<alert, orphaned>>

\* The members and deposits that the page lists.
Feed == {m \in Members : list.users[m] # "GONE"}
Inbox == {d \in Deposits : list.txns[d] # "GONE"}

\* renderMemberDetail: a member who is not in the list is not drawn.
Draw(m, users) ==
  drawn' = IF m # None /\ users[m] # "GONE" THEN m ELSE drawn

\* bestDepositCandidate: the only member of that name, if active.
Best(d, users) ==
  LET hits == {m \in Named[d] : users[m] # "GONE"}
  IN IF Cardinality(hits) = 1 THEN {m \in hits : users[m] = "ACTIVE"} ELSE {}

\* renderDepositDetailModal: whoever is chosen stays; without a choice the best
\* candidate is chosen.
Rendered(d, chosen, status, users) ==
  [txn |-> d, drawn |-> d,
   chosen |-> IF status \in Resolvable /\ chosen = None /\ Best(d, users) # {}
              THEN CHOOSE m \in Best(d, users) : TRUE ELSE chosen]

\* Mutant of OpenDeposit: the choice of the deposit before stays.
OpenDepositKeeps(d, before, users, txns) ==
  IF txns[d] = "GONE" THEN deposit' = before /\ UNCHANGED tapped
  ELSE /\ deposit' = Rendered(d, before.chosen, txns[d], users)
       /\ tapped' = {}

\* openDepositDetailModal: the choice starts with the matched member, if active.
OpenDeposit(d, before, users, txns) ==
  IF txns[d] = "GONE" THEN deposit' = before /\ UNCHANGED tapped
  ELSE /\ \E m \in Members \cup {None} :
            /\ m = IF Matched[d] # None /\ users[Matched[d]] = "ACTIVE"
                   THEN Matched[d] ELSE None
            /\ deposit' = Rendered(d, m, txns[d], users)
       /\ tapped' = {}

\* openMemberDetail
OpenMember(m, users) == target' = m /\ view' = "detail" /\ Draw(m, users)

-------------------------------------------------------------------------------
(* Taps on the page.                                                       *)

TapMember(m) ==
  /\ PageFree /\ Tap /\ view = "list" /\ m \in Feed
  /\ OpenMember(m, list.users)
  /\ UNCHANGED <<db, list, auth, box, wait, calls, signals, history>>

\* adminHeaderBack, closeMemberDetail; a tap on a tab leaves the target as it is.
Leave ==
  /\ PageFree /\ Tap /\ view = "detail"
  /\ view' = "list" /\ target' \in {None, target}
  /\ UNCHANGED <<db, list, auth, drawn, box, wait, calls, signals, history>>

TapDeposit(d) ==
  /\ PageFree /\ Tap /\ view = "list" /\ d \in Inbox
  /\ OpenDeposit(d, deposit, list.users, list.txns)
  /\ UNCHANGED <<db, list, auth, page, form, dialog, wait, calls, signals, links>>

\* closeDepositDetailModal
CloseDeposit ==
  /\ Uncovered /\ Tap /\ deposit.drawn # None
  /\ deposit' = NoBox /\ tapped' = {}
  /\ UNCHANGED <<db, list, auth, page, form, dialog, wait, calls, signals, links>>

\* selectDepositUser: a second tap takes the choice back.
Choose(m) ==
  /\ Uncovered /\ Tap /\ deposit.drawn # None /\ list.users[m] = "ACTIVE"
  /\ deposit.txn # None /\ list.txns[deposit.txn] \in Resolvable
  /\ deposit' = [deposit EXCEPT !.chosen = IF @ = m THEN None ELSE m]
  /\ tapped' = tapped \cup {m}
  /\ UNCHANGED <<db, list, auth, page, form, dialog, wait, calls, signals, links>>

\* openDetailRechargeModal, openDetailDeductModal
OpenForm(op) ==
  /\ PageFree /\ Tap /\ view = "detail"
  /\ form' = op
  /\ UNCHANGED <<db, list, auth, page, deposit, dialog, wait, calls, signals, history>>

\* submitDetailRecharge, submitDetailDeduct: an amount that is no amount is
\* refused; the member is the current one.
SubmitForm(op) ==
  /\ Uncovered /\ Tap /\ form = op
  /\ \/ /\ op \notin locked /\ locked' = locked \cup {op}
        /\ calls' = calls \cup {Request(op, target, drawn)}
        /\ KeepAlert
     \/ Alert("none", FALSE) /\ UNCHANGED <<locked, calls>>
  /\ UNCHANGED <<db, list, auth, page, box, signals, history>>

CloseForm ==
  /\ Uncovered /\ Tap /\ form # "none" /\ form' = "none"
  /\ UNCHANGED <<db, list, auth, page, deposit, dialog, wait, calls, signals, history>>

\* The status that toggleDetailUserActive and toggleDetailUserStatus ask for.
NewStatus(op, s) ==
  CASE op = "active" -> IF s = "ACTIVE" THEN "INACTIVE" ELSE "ACTIVE"
    [] op = "suspend" -> IF s = "SUSPENDED" THEN "ACTIVE" ELSE "SUSPENDED"
    [] OTHER -> "none"

\* deleteDetailUser, toggleDetailUserActive, toggleDetailUserStatus,
\* reissueQrCard, deleteDetailCard: each asks first.
AskMember(op) ==
  /\ PageFree /\ Tap /\ view = "detail" /\ target \in Feed
  /\ op = "active" => "active" \notin locked /\ list.users[target] # "SUSPENDED"
  /\ dialog' = [op |-> op, subject |-> target, to |-> NewStatus(op, list.users[target])]
  /\ UNCHANGED <<db, list, auth, page, form, deposit, wait, calls, signals, history>>

\* submitDepositAction: with a member the deposit is resolved, without one
\* submitDepositMarkOther asks first (or misses the reason).
SubmitDeposit ==
  /\ Uncovered /\ Tap /\ deposit.txn # None /\ list.txns[deposit.txn] \in Resolvable
  /\ "deposit" \notin locked
  /\ \/ /\ deposit.chosen # None
        /\ locked' = locked \cup {"deposit"}
        /\ calls' = calls \cup {[Request("resolve", deposit.txn, deposit.drawn)
                                   EXCEPT !.member = deposit.chosen]}
        /\ UNCHANGED dialog /\ KeepAlert
     \/ /\ deposit.chosen = None
        /\ dialog' = [op |-> "other", subject |-> deposit.txn, to |-> "none"]
        /\ UNCHANGED <<locked, calls>> /\ KeepAlert
     \/ /\ deposit.chosen = None
        /\ Alert("none", FALSE)
        /\ UNCHANGED <<locked, calls, dialog>>
  /\ UNCHANGED <<db, list, auth, page, form, deposit, signals, history>>

-------------------------------------------------------------------------------
(* The dialogs.                                                            *)

\* Mutant of Subject: everything is read again after the question.
SubjectLate(op) == IF op = "other" THEN deposit.txn ELSE target

\* Whom a confirmed request is about: a deletion and a deposit are read again,
\* the others were kept from before the question.
Subject(op) ==
  CASE op = "delete" -> target
    [] op = "other" -> deposit.txn
    [] OTHER -> dialog.subject

\* The button that a confirmed request locks.
ButtonOf(op) ==
  CASE op \in Amounts \cup {"active"} -> {op}
    [] op \in {"resolve", "other"} -> {"deposit"}
    [] OTHER -> {}

\* _resolveConfirmModal. Without a deposit the request ends in an exception.
Confirm ==
  LET op == dialog.op IN
  /\ auth /\ ~alert.on /\ dialog # NoDialog /\ dialog' = NoDialog
  /\ \/ UNCHANGED <<calls, locked>>
     \/ /\ Subject(op) # None /\ ButtonOf(op) \cap locked = {}
        /\ calls' = calls \cup {[Request(op, Subject(op), dialog.subject)
                                   EXCEPT !.to = dialog.to]}
        /\ locked' = locked \cup ButtonOf(op)
  /\ UNCHANGED <<db, list, auth, page, form, deposit, alert, orphaned, signals, budget,
                 history>>

\* _resolveAlertModal: what waited for it goes on.
Dismiss ==
  /\ alert.on /\ alert' = NoAlert
  /\ IF alert.load
     THEN calls' = calls \cup {Load("users", Then("free", alert.button, 0))}
          /\ UNCHANGED locked
     ELSE locked' = locked \ {alert.button} /\ UNCHANGED calls
  /\ UNCHANGED <<db, list, auth, page, box, orphaned, signals, budget, history>>

\* submitAdminPin, initAdminDashboard: the lists are loaded anew.
EnterPin ==
  /\ ~auth /\ ~alert.on /\ auth' = TRUE
  /\ db' = [db EXCEPT !.session = TRUE]
  /\ calls' = calls \cup {Load("users", Nothing), Load("txns", Nothing)}
  /\ UNCHANGED <<list, page, box, wait, signals, budget, history>>

-------------------------------------------------------------------------------
(* What comes uninvited.                                                   *)

\* checkNativeNotificationDeepLink, or a message of the service worker: whatever
\* lies over the page, the list is loaded for the link.
FollowLink(s) ==
  /\ auth /\ Spend("links")
  /\ calls' = calls \cup {Load(IF s \in Members THEN "users" ELSE "txns", Then("open", s, 0))}
  /\ UNCHANGED <<db, list, auth, page, box, wait, signals, history>>

\* Somebody else changes a row, and the server signals it.
Change ==
  /\ Spend("changes")
  /\ \/ \E m \in Members, s \in MemberStatuses :
          db.members[m] # s /\ db' = [db EXCEPT !.members[m] = s]
     \/ \E d \in Deposits, s \in DepositStatuses :
          db.deposits[d] \in Resolvable /\ db.deposits[d] # s
          /\ db' = [db EXCEPT !.deposits[d] = s]
  /\ signals' = signals + 1
  /\ UNCHANGED <<list, auth, page, box, wait, calls, history>>

\* handleAdminRefreshEvent
Refresh ==
  /\ auth /\ signals > 0 /\ signals' = signals - 1
  /\ calls' = calls \cup {Load(op, Then("draw", None, signals)) : op \in Loads}
  /\ UNCHANGED <<db, list, auth, page, box, wait, budget, history>>

\* The server takes the token no longer.
Expire ==
  /\ Spend("expiries") /\ db' = [db EXCEPT !.session = FALSE]
  /\ UNCHANGED <<list, auth, page, box, wait, calls, signals, history>>

-------------------------------------------------------------------------------
(* The server and the network.                                             *)

Answer(c, a) == calls' = (calls \ {c}) \cup {[c EXCEPT !.answer = a]}

\* What the request does to the rows. A deletion and an amount may be refused.
Carry(c) ==
  CASE c.op \in {"active", "suspend"} ->
         /\ db.members[c.subject] # "GONE"
         /\ db' = [db EXCEPT !.members[c.subject] = c.to]
    [] c.op = "delete" -> db' = [db EXCEPT !.members[c.subject] = "GONE"]
    [] c.op = "resolve" ->
         /\ db.deposits[c.subject] \in Resolvable /\ db.members[c.member] = "ACTIVE"
         /\ db' = [db EXCEPT !.deposits[c.subject] = "CREDITED_MANUAL"]
    [] c.op = "other" ->
         /\ db.deposits[c.subject] \in Resolvable
         /\ db' = [db EXCEPT !.deposits[c.subject] = "OTHER"]
    [] OTHER -> c.subject # None /\ db.members[c.subject] # "GONE" /\ UNCHANGED db

Serve(c) ==
  /\ c.answer = "none"
  /\ \/ ~db.session /\ Answer(c, "401") /\ UNCHANGED db
     \/ /\ db.session /\ c.op \in Loads /\ UNCHANGED db
        /\ calls' = (calls \ {c}) \cup {[c EXCEPT !.answer = "ok",
             !.snap = IF c.op = "users" THEN db.members ELSE db.deposits]}
     \/ db.session /\ c.op \notin Loads /\ Carry(c) /\ Answer(c, "ok")
     \/ db.session /\ c.op \notin Loads /\ Answer(c, "refused") /\ UNCHANGED db
  /\ UNCHANGED <<list, auth, page, box, wait, signals, budget, history>>

\* A request or its answer is lost.
Lose(c) ==
  /\ c.answer # "lost" /\ Spend("faults")
  /\ Answer(c, "lost")
  /\ UNCHANGED <<db, list, auth, page, box, wait, signals, history>>

-------------------------------------------------------------------------------
(* The page hears an answer.                                               *)

Ok(c) == c.answer = "ok"
Rest(c) == calls \ {c}
\* The other loads of the same signal have been heard.
Joined(c) == \A x \in Rest(c) : x.then.do # "draw" \/ x.then.ev # c.then.ev

\* loadBankTransactions: the deposit dialog follows the new list.
Shown(c, users, txns) ==
  IF c.op # "txns" \/ ~Ok(c) \/ deposit.txn = None THEN deposit
  ELSE IF txns[deposit.txn] = "GONE" THEN [deposit EXCEPT !.txn = None]
  ELSE Rendered(deposit.txn, deposit.chosen, txns[deposit.txn], users)

\* What follows a load, whether or not it succeeded: routeNotificationDeepLink,
\* handleAdminRefreshEvent, or the function that has locked a button.
Continue(c, users, txns) ==
  CASE c.then.do = "open" /\ c.then.at \in Members ->
         /\ OpenMember(c.then.at, users)
         /\ deposit' = Shown(c, users, txns)
         /\ links' = links \cup {c.then.at}
         /\ UNCHANGED <<locked, tapped>>
    [] c.then.do = "open" /\ c.then.at \in Deposits ->
         /\ view' = "list"
         /\ OpenDeposit(c.then.at, Shown(c, users, txns), users, txns)
         /\ links' = links \cup {c.then.at}
         /\ UNCHANGED <<target, drawn, locked>>
    [] OTHER ->
         /\ IF c.then.do = "free" \/ (c.then.do = "draw" /\ Joined(c))
            THEN Draw(target, users) ELSE UNCHANGED drawn
         /\ locked' = IF c.then.do = "free" THEN locked \ {c.then.at} ELSE locked
         /\ deposit' = Shown(c, users, txns)
         /\ UNCHANGED <<target, view, history>>

\* The lists after a load: an answer that is no success changes neither.
Heard(c) ==
  [users |-> IF c.op = "users" /\ Ok(c) THEN c.snap ELSE list.users,
   txns |-> IF c.op = "txns" /\ Ok(c) THEN c.snap ELSE list.txns]

\* loadAdminUsers, loadBankTransactions. Without a valid token adminFetch ends the
\* session and alerts.
HearLoad(c) ==
  /\ c.op \in Loads /\ c.answer # "none"
  /\ list' = Heard(c)
  /\ Continue(c, Heard(c).users, Heard(c).txns)
  /\ IF c.answer = "401" THEN auth' = FALSE /\ Alert("none", FALSE)
     ELSE UNCHANGED auth /\ KeepAlert
  /\ calls' = Rest(c)
  /\ UNCHANGED <<db, form, dialog, signals, budget>>

\* The server has done what was asked for: what each function does then.
HearOk(c) ==
  /\ c.op \notin Loads /\ Ok(c)
  /\ CASE c.op \in Amounts ->
            /\ form' = IF form = c.op THEN "none" ELSE form
            /\ Alert(c.op, TRUE)
            /\ calls' = Rest(c)
            /\ UNCHANGED <<page, deposit, locked, tapped>>
       [] c.op = "delete" ->
            /\ target' = None /\ view' = "list"
            /\ calls' = Rest(c) \cup {Load("users", Nothing)}
            /\ KeepAlert /\ UNCHANGED <<drawn, form, deposit, locked, tapped>>
       [] c.op \in {"active", "suspend"} ->
            /\ calls' = Rest(c) \cup {Load("users", Then("free", c.op, 0))}
            /\ KeepAlert /\ UNCHANGED <<page, form, deposit, locked, tapped>>
       [] c.op = "card" ->
            /\ KeepAlert \/ Alert("none", FALSE)
            /\ calls' = Rest(c)
            /\ UNCHANGED <<page, form, deposit, locked, tapped>>
       [] OTHER ->
            /\ deposit' = NoBox /\ tapped' = {} /\ locked' = locked \ {"deposit"}
            /\ calls' = Rest(c) \cup {Load("txns", Nothing)}
                          \cup (IF c.op = "resolve" THEN {Load("users", Nothing)} ELSE {})
            /\ KeepAlert /\ UNCHANGED <<page, form>>
  /\ UNCHANGED <<db, list, auth, dialog, signals, budget, links>>

\* Mutant of HearRefused: the button is not released when the network fails.
HearRefusedHeld(c) ==
  /\ c.op \notin Loads /\ c.answer \in {"refused", "401", "lost"}
  /\ auth' = (auth /\ c.answer # "401")
  /\ IF c.answer # "lost"
     THEN \E b \in ButtonOf(c.op) \cup {"none"} :
            (b = "none" => ButtonOf(c.op) = {}) /\ Alert(b, FALSE) /\ UNCHANGED locked
     ELSE KeepAlert /\ UNCHANGED locked
  /\ calls' = Rest(c)
  /\ UNCHANGED <<db, list, page, box, signals, budget, history>>

\* It has refused, or nothing was heard: an alert, which the lock waits for, or
\* no more than a line in the log.
HearRefused(c) ==
  /\ c.op \notin Loads /\ c.answer \in {"refused", "401", "lost"}
  /\ auth' = (auth /\ c.answer # "401")
  /\ IF c.answer # "lost"
     THEN \E b \in ButtonOf(c.op) \cup {"none"} :
            (b = "none" => ButtonOf(c.op) = {}) /\ Alert(b, FALSE) /\ UNCHANGED locked
     ELSE /\ IF c.op \in {"delete", "card"} THEN Alert("none", FALSE) ELSE KeepAlert
          /\ locked' = locked \ ButtonOf(c.op)
  /\ calls' = Rest(c)
  /\ UNCHANGED <<db, list, page, box, signals, budget, history>>

Taps ==
  \/ \E m \in Members : TapMember(m) \/ Choose(m)
  \/ \E d \in Deposits : TapDeposit(d)
  \/ Leave \/ CloseDeposit \/ CloseForm \/ SubmitDeposit
  \/ \E op \in Amounts : OpenForm(op) \/ SubmitForm(op)
  \/ \E op \in Confirmed \ {"other"} : AskMember(op)

Dialogs == Confirm \/ Dismiss \/ EnterPin
Uninvited == Change \/ Refresh \/ Expire \/ \E s \in Members \cup Deposits : FollowLink(s)
Travel == \E c \in calls : Serve(c) \/ Lose(c) \/ HearLoad(c) \/ HearOk(c) \/ HearRefused(c)

Next == Taps \/ Dialogs \/ Uninvited \/ Travel

Spec == Init /\ [][Next]_vars
-------------------------------------------------------------------------------
\* A change of a member's status or card is done to the member the question
\* named, whatever has been opened since; a deletion, an amount and a decision on
\* a deposit go to what the page showed or to what a tap on a notification has
\* opened. (Without a member the server refuses.)
ActsAsNamed ==
  \A c \in calls :
    /\ c.op \in {"active", "suspend", "card"} => c.subject = c.shown
    /\ c.op \notin Loads => c.subject \in {c.shown, None} \cup links

\* A deposit is credited to a member of the depositor's name, or to one that was
\* tapped in the dialog of this very deposit.
ChosenHere ==
  /\ deposit.chosen # None => deposit.chosen \in tapped \cup
       (IF deposit.txn = None THEN Members ELSE Named[deposit.txn] \cup {Matched[deposit.txn]})
  /\ \A c \in calls : c.op = "resolve" => c.subject # None /\ c.member # None

\* A disabled button waits for an answer or for an alert that is still shown,
\* unless another alert has taken its place.
HeldForReason ==
  \A b \in locked :
    \/ b \in orphaned \/ alert.button = b
    \/ \E c \in calls : b \in ButtonOf(c.op) \/ (c.then.do = "free" /\ c.then.at = b)

================================================================================
