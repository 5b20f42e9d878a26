--------------------------- MODULE AdminApp_proofs ---------------------------
(***************************************************************************)
(* Theorems about the administrator's page: about AdminDesk for every set  *)
(* of members and deposits, every likeness of names and any number of taps,*)
(* links, changes and faults; about AdminScanner and KioskSettings for all *)
(* that they are given.                                                    *)
(***************************************************************************)
EXTENDS AdminApp, TLAPS

Ops == Amounts \cup Confirmed \cup {"resolve"} \cup Loads
Answers == {"none", "ok", "refused", "401", "lost"}
Thens == [do : {"none", "open", "draw", "free"}, ev : Nat,
          at : Subjects \cup Buttons \cup Confirmed]
UserLists == [Members -> MemberStatuses]
TxnLists == [Deposits -> DepositStatuses]
Snaps == {<<>>} \cup UserLists \cup TxnLists

\* What a request carries fits what it is for: a load that was answered brings a
\* list of its kind, a change of status names one, and only a load frees a button.
Fitting(c) ==
  /\ c.op = "users" /\ c.answer = "ok" => c.snap \in UserLists
  /\ c.op = "txns" /\ c.answer = "ok" => c.snap \in TxnLists
  /\ c.op \in {"active", "suspend"} => c.to \in MemberStatuses
  /\ c.then.do = "free" => c.op \in Loads

Fits ==
  /\ \A c \in calls : Fitting(c)
  /\ dialog.op \in {"active", "suspend"} => dialog.to \in MemberStatuses
  /\ alert.load => alert.button \in Buttons
  /\ budget \in [taps : 0..MaxTaps, links : Nat, changes : 0..MaxSignals,
                 faults : Nat, expiries : Nat]
  /\ signals + budget.changes <= MaxSignals

TypeInv == TypeOK /\ Fits

-------------------------------------------------------------------------------
(* Requests.                                                               *)

LEMMA CallIs ==
  Call = [op : Ops, subject : Subjects, shown : Subjects, member : Members \cup {None},
          to : MemberStatuses \cup {"none"}, then : Thens, answer : Answers, snap : Snaps]
BY DEF Call, Ops, Thens, Answers, Snaps, UserLists, TxnLists

\* A request that goes out.
LEMMA RequestType ==
  ASSUME NEW op \in Ops, NEW s \in Subjects, NEW shown \in Subjects
  PROVE  LET q == Request(op, s, shown) IN
         /\ q \in Call /\ q.op = op /\ q.subject = s /\ q.shown = shown
         /\ q.answer = "none" /\ q.then.do = "none"
<1>1. Nothing \in Thens /\ Nothing.do = "none"
  BY DEF Nothing, Then, Thens, Subjects
<1>2. <<>> \in Snaps BY DEF Snaps
<1>3. None \in Members \cup {None} /\ "none" \in MemberStatuses \cup {"none"} /\ "none" \in Answers
  BY DEF Answers
<1> QED BY <1>1, <1>2, <1>3, CallIs DEF Request

\* With the status that it asks for.
LEMMA AskedType ==
  ASSUME NEW op \in Ops, NEW s \in Subjects, NEW shown \in Subjects,
         NEW to \in MemberStatuses \cup {"none"}, op \notin Loads,
         op \in {"active", "suspend"} => to \in MemberStatuses
  PROVE  LET q == [Request(op, s, shown) EXCEPT !.to = to] IN
         /\ q \in Call /\ Fitting(q) /\ q.op = op /\ q.subject = s /\ q.shown = shown
<1>1. PICK r \in Call : r = Request(op, s, shown) BY RequestType
<1>2. r.op = op /\ r.subject = s /\ r.shown = shown /\ r.answer = "none" /\ r.then.do = "none"
  BY <1>1, RequestType
<1>3. [r EXCEPT !.to = to] \in Call BY CallIs
<1>4. Fitting([r EXCEPT !.to = to]) BY <1>2, CallIs DEF Fitting, Loads
<1> QED BY <1>1, <1>2, <1>3, <1>4, CallIs

\* With the member it is for.
LEMMA ResolveType ==
  ASSUME NEW s \in Subjects, NEW shown \in Subjects, NEW m \in Members \cup {None}
  PROVE  LET q == [Request("resolve", s, shown) EXCEPT !.member = m] IN
         /\ q \in Call /\ Fitting(q) /\ q.op = "resolve" /\ q.subject = s /\ q.shown = shown
         /\ q.member = m
<1>0. "resolve" \in Ops BY DEF Ops
<1>1. PICK r \in Call : r = Request("resolve", s, shown) BY <1>0, RequestType
<1>2. r.op = "resolve" /\ r.subject = s /\ r.shown = shown /\ r.answer = "none"
      /\ r.then.do = "none"
  BY <1>0, <1>1, RequestType
<1>3. [r EXCEPT !.member = m] \in Call BY CallIs
<1>4. Fitting([r EXCEPT !.member = m]) BY <1>2, CallIs DEF Fitting
<1> QED BY <1>1, <1>2, <1>3, <1>4, CallIs

LEMMA PlainType ==
  ASSUME NEW op \in Amounts, NEW s \in Subjects, NEW shown \in Subjects
  PROVE  LET q == Request(op, s, shown) IN
         q \in Call /\ Fitting(q) /\ q.op = op /\ q.subject = s /\ q.shown = shown
<1>1. op \in Ops /\ op \notin {"active", "suspend"} BY DEF Ops, Amounts
<1> QED BY <1>1, RequestType DEF Fitting, Amounts

LEMMA LoadType ==
  ASSUME NEW op \in Loads, NEW t \in Thens
  PROVE  Load(op, t) \in Call /\ Fitting(Load(op, t)) /\ Load(op, t).op = op
         /\ Load(op, t).then = t
<1>0. op \in Ops /\ None \in Subjects BY DEF Ops, Subjects
<1>1. PICK r \in Call : r = Request(op, None, None) BY <1>0, RequestType
<1>2. r.op = op /\ r.answer = "none" BY <1>0, <1>1, RequestType
<1>3. [r EXCEPT !.then = t] \in Call BY CallIs
<1>4. Fitting([r EXCEPT !.then = t]) BY <1>2, CallIs DEF Fitting, Loads
<1> QED BY <1>1, <1>2, <1>3, <1>4, CallIs DEF Load

\* An answer changes nothing else of the request.
LEMMA AnswerType ==
  ASSUME NEW c \in Call, NEW a \in Answers, a = "ok" => c.op \notin Loads, Fitting(c)
  PROVE  LET q == [c EXCEPT !.answer = a] IN
         /\ q \in Call /\ Fitting(q) /\ q.op = c.op /\ q.subject = c.subject
         /\ q.shown = c.shown /\ q.member = c.member /\ q.then = c.then
BY CallIs DEF Fitting, Loads

LEMMA LoadedType ==
  ASSUME NEW c \in Call, NEW s, c.op \in Loads, Fitting(c),
         s \in IF c.op = "users" THEN UserLists ELSE TxnLists
  PROVE  LET q == [c EXCEPT !.answer = "ok", !.snap = s] IN
         /\ q \in Call /\ Fitting(q) /\ q.op = c.op /\ q.subject = c.subject
         /\ q.shown = c.shown /\ q.member = c.member /\ q.then = c.then
<1>1. s \in Snaps BY DEF Snaps
<1>2. "ok" \in Answers BY DEF Answers
<1>3. [c EXCEPT !.answer = "ok", !.snap = s] \in Call BY <1>1, <1>2, CallIs
<1>4. Fitting([c EXCEPT !.answer = "ok", !.snap = s])
  BY <1>1, <1>2, CallIs DEF Fitting, Loads
<1> QED BY <1>3, <1>4, CallIs

LEMMA ThenType ==
  /\ Nothing \in Thens
  /\ \A b \in Buttons \cup Confirmed : Then("free", b, 0) \in Thens
  /\ \A s \in Subjects : Then("open", s, 0) \in Thens
  /\ \A n \in Nat : Then("draw", None, n) \in Thens
BY DEF Nothing, Then, Thens, Subjects

-------------------------------------------------------------------------------
(* The deposit dialog and the lists.                                       *)

Boxes == [txn : Deposits \cup {None}, chosen : Members \cup {None},
          drawn : Deposits \cup {None}]

\* Without a choice the dialog chooses somebody of the depositor's name.
LEMMA RenderedType ==
  ASSUME NEW d \in Deposits, NEW chosen \in Members \cup {None}, NEW status, NEW users
  PROVE  LET r == Rendered(d, chosen, status, users) IN
         /\ r \in Boxes /\ r.txn = d /\ r.drawn = d
         /\ r.chosen = chosen \/ r.chosen \in Named[d]
<1>1. Best(d, users) \subseteq Named[d] BY DEF Best
<1>2. Named[d] \subseteq Members BY DeskAssumption
<1>3. ASSUME Best(d, users) # {} PROVE (CHOOSE m \in Best(d, users) : TRUE) \in Named[d]
  BY <1>1, <1>3
<1> DEFINE e == IF status \in Resolvable /\ chosen = None /\ Best(d, users) # {}
                THEN CHOOSE m \in Best(d, users) : TRUE ELSE chosen
<1>4. e = chosen \/ e \in Named[d] BY <1>3
<1>5. Rendered(d, chosen, status, users) = [txn |-> d, drawn |-> d, chosen |-> e] BY DEF Rendered
<1> HIDE DEF e
<1> QED BY <1>2, <1>4, <1>5 DEF Boxes

\* The dialog of a deposit opens with the matched member, with somebody of the
\* depositor's name or with nobody; one that is not in the list is not opened.
LEMMA OpenDepositType ==
  ASSUME NEW d \in Deposits, NEW before \in Boxes, NEW users, NEW txns,
         tapped \subseteq Members, OpenDeposit(d, before, users, txns)
  PROVE  /\ deposit' \in Boxes /\ tapped' \subseteq Members
         /\ \/ deposit' = before /\ tapped' = tapped
            \/ /\ deposit'.txn = d /\ deposit'.drawn = d /\ tapped' = {}
               /\ deposit'.chosen \in {None, Matched[d]} \cup Named[d]
<1>1. CASE txns[d] = "GONE" BY <1>1 DEF OpenDeposit
<1>2. CASE txns[d] # "GONE"
  <2>1. PICK m \in Members \cup {None} :
          /\ m = IF Matched[d] # None /\ users[Matched[d]] = "ACTIVE" THEN Matched[d] ELSE None
          /\ deposit' = Rendered(d, m, txns[d], users)
    BY <1>2 DEF OpenDeposit
  <2>2. m \in {None, Matched[d]} BY <2>1
  <2>3. tapped' = {} BY <1>2 DEF OpenDeposit
  <2> QED BY <2>1, <2>2, <2>3, RenderedType
<1> QED BY <1>1, <1>2

\* A new list redraws the dialog, and takes its deposit away when it is not there.
LEMMA ShownType ==
  ASSUME NEW c, NEW users, NEW txns, deposit \in Boxes
  PROVE  LET s == Shown(c, users, txns) IN
         /\ s \in Boxes /\ s.txn \in {deposit.txn, None}
         /\ s.txn = None \/ s.drawn \in {s.txn, deposit.drawn}
         /\ \/ s.chosen = deposit.chosen
            \/ s.txn # None /\ s.txn = deposit.txn /\ s.chosen \in Named[s.txn]
<1> USE DEF Shown
<1>1. CASE c.op # "txns" \/ ~Ok(c) \/ deposit.txn = None BY <1>1 DEF Boxes
<1>2. CASE ~(c.op # "txns" \/ ~Ok(c) \/ deposit.txn = None) /\ txns[deposit.txn] = "GONE"
  <2>1. Shown(c, users, txns) = [deposit EXCEPT !.txn = None] BY <1>2
  <2> QED BY <2>1 DEF Boxes
<1>3. CASE ~(c.op # "txns" \/ ~Ok(c) \/ deposit.txn = None) /\ txns[deposit.txn] # "GONE"
  <2>1. deposit.txn \in Deposits /\ deposit.txn # None /\ deposit.chosen \in Members \cup {None}
    BY <1>3 DEF Boxes
  <2>2. Shown(c, users, txns)
          = Rendered(deposit.txn, deposit.chosen, txns[deposit.txn], users) BY <1>3
  <2> QED BY <2>1, <2>2, RenderedType
<1> QED BY <1>1, <1>2, <1>3

LEMMA HeardType ==
  ASSUME TypeInv, NEW c \in calls
  PROVE  Heard(c) \in [users : UserLists, txns : TxnLists]
BY DEF Heard, Ok, TypeInv, TypeOK, Fits, Fitting, UserLists, TxnLists

LEMMA BoxIs == TypeOK => deposit \in Boxes
BY DEF TypeOK, Boxes

\* What follows a load: a link opens what it names, and the rest draws again.
LEMMA ContinueType ==
  ASSUME TypeInv, NEW c \in calls, NEW users \in UserLists, NEW txns \in TxnLists,
         Continue(c, users, txns)
  PROVE  /\ deposit' \in Boxes /\ tapped' \subseteq Members
         /\ target' \in Members \cup {None} /\ drawn' \in Members \cup {None}
         /\ view' \in {"list", "detail"}
         /\ links \subseteq links' /\ links' \subseteq Subjects /\ locked' \subseteq locked
         /\ c.then.do = "free" => c.then.at \notin locked'
         /\ \/ target' = target /\ drawn' \in {drawn, target}
            \/ target' \in links'
         /\ \/ deposit' = Shown(c, users, txns) /\ tapped' = tapped
            \/ /\ deposit'.txn \in links' /\ deposit'.drawn = deposit'.txn /\ tapped' = {}
               /\ deposit'.txn \in Deposits
               /\ deposit'.chosen \in {None, Matched[deposit'.txn]} \cup Named[deposit'.txn]
<1>b. deposit \in Boxes BY BoxIs DEF TypeInv
<1>s. Shown(c, users, txns) \in Boxes BY <1>b, ShownType
<1>t. /\ target \in Members \cup {None} /\ drawn \in Members \cup {None}
      /\ view \in {"list", "detail"} /\ links \subseteq Subjects /\ tapped \subseteq Members
  BY DEF TypeInv, TypeOK
<1>1. CASE c.then.do = "open" /\ c.then.at \in Members
  <2>1. /\ OpenMember(c.then.at, users) /\ deposit' = Shown(c, users, txns)
        /\ links' = links \cup {c.then.at} /\ UNCHANGED <<locked, tapped>>
    BY <1>1, DeskAssumption DEF Continue, history
  <2> QED BY <1>1, <1>s, <1>t, <2>1 DEF OpenMember, Draw, Subjects
<1>2. CASE ~(c.then.do = "open" /\ c.then.at \in Members)
           /\ c.then.do = "open" /\ c.then.at \in Deposits
  <2>1. /\ view' = "list" /\ links' = links \cup {c.then.at}
        /\ OpenDeposit(c.then.at, Shown(c, users, txns), users, txns)
        /\ UNCHANGED <<target, drawn, locked>>
    BY <1>2, DeskAssumption DEF Continue
  <2>2. /\ deposit' \in Boxes /\ tapped' \subseteq Members
        /\ \/ deposit' = Shown(c, users, txns) /\ tapped' = tapped
           \/ /\ deposit'.txn = c.then.at /\ deposit'.drawn = c.then.at /\ tapped' = {}
              /\ deposit'.chosen \in {None, Matched[c.then.at]} \cup Named[c.then.at]
    BY <1>2, <1>s, <1>t, <2>1, OpenDepositType
  <2> QED BY <1>2, <1>t, <2>1, <2>2 DEF Subjects
<1>3. CASE ~(c.then.do = "open" /\ c.then.at \in Members)
           /\ ~(c.then.do = "open" /\ c.then.at \in Deposits)
  <2>1. /\ IF c.then.do = "free" \/ (c.then.do = "draw" /\ Joined(c))
           THEN Draw(target, users) ELSE UNCHANGED drawn
        /\ locked' = IF c.then.do = "free" THEN locked \ {c.then.at} ELSE locked
        /\ deposit' = Shown(c, users, txns)
        /\ UNCHANGED <<target, view, links, tapped>>
    BY <1>3 DEF Continue, history
  <2> QED BY <1>s, <1>t, <2>1 DEF Draw
<1> QED BY <1>1, <1>2, <1>3

-------------------------------------------------------------------------------
(* The types.                                                              *)

CallsFit == calls \subseteq Call /\ \A c \in calls : Fitting(c)

\* Requests that go out.
LEMMA SentType ==
  ASSUME TypeInv, NEW S, \A q \in S : q \in Call /\ Fitting(q), calls' \subseteq calls \cup S
  PROVE  CallsFit'
<1>1. \A c \in calls \cup S : c \in Call /\ Fitting(c) BY DEF TypeInv, TypeOK, Fits
<1> QED BY <1>1 DEF CallsFit, Call, Fitting

LEMMA SentOneType ==
  ASSUME TypeInv, NEW q, q \in Call, Fitting(q), calls' \subseteq calls \cup {q}
  PROVE  CallsFit'
<1>1. \A c \in calls \cup {q} : c \in Call /\ Fitting(c) BY DEF TypeInv, TypeOK, Fits
<1> QED BY <1>1 DEF CallsFit, Call, Fitting

LEMMA SpendType ==
  ASSUME TypeInv, NEW k \in {"taps", "links", "changes", "faults", "expiries"}, Spend(k)
  PROVE  /\ budget' \in [taps : 0..MaxTaps, links : Nat, changes : 0..MaxSignals,
                         faults : Nat, expiries : Nat]
         /\ budget'.changes = IF k = "changes" THEN budget.changes - 1 ELSE budget.changes
<1> USE DeskAssumption DEF TypeInv, Fits, Spend
<1>1. CASE k = "taps" BY <1>1
<1>2. CASE k = "links" BY <1>2
<1>3. CASE k = "changes" BY <1>3
<1>4. CASE k = "faults" BY <1>4
<1>5. CASE k = "expiries" BY <1>5
<1> QED BY <1>1, <1>2, <1>3, <1>4, <1>5

LEMMA AlertType ==
  ASSUME TypeInv, NEW b \in Buttons \cup {"none"}, NEW l \in BOOLEAN, l => b \in Buttons,
         Alert(b, l)
  PROVE  /\ alert' \in [on : BOOLEAN, button : Buttons \cup {"none"}, load : BOOLEAN]
         /\ alert'.button = b /\ (alert'.load => alert'.button \in Buttons)
         /\ orphaned \subseteq orphaned' /\ orphaned' \subseteq Buttons
         /\ alert.button \in Buttons => alert.button \in orphaned'
BY DEF TypeInv, TypeOK, Alert

LEMMA KeepAlertType ==
  ASSUME TypeInv, KeepAlert
  PROVE  /\ alert' \in [on : BOOLEAN, button : Buttons \cup {"none"}, load : BOOLEAN]
         /\ alert' = alert /\ (alert'.load => alert'.button \in Buttons)
         /\ orphaned' = orphaned /\ orphaned' \subseteq Buttons
BY DEF TypeInv, TypeOK, KeepAlert, Fits

LEMMA TypeInit == Init => TypeInv
<1> SUFFICES ASSUME Init PROVE TypeInv OBVIOUS
<1> USE DEF Init
<1>1. /\ db \in [members : [Members -> MemberStatuses],
                 deposits : [Deposits -> DepositStatuses], session : BOOLEAN]
      /\ list \in [users : [Members -> MemberStatuses], txns : [Deposits -> DepositStatuses]]
  BY DEF MemberStatuses, DepositStatuses
<1>2. alert \in [on : BOOLEAN, button : Buttons \cup {"none"}, load : BOOLEAN] /\ ~alert.load
  BY DEF NoAlert
<1>3. deposit \in [txn : Deposits \cup {None}, chosen : Members \cup {None},
                   drawn : Deposits \cup {None}]
  BY DEF NoBox
<1>4. dialog.op = "none" BY DEF NoDialog
<1>5. budget \in [taps : 0..MaxTaps, links : Nat, changes : 0..MaxSignals,
                  faults : Nat, expiries : Nat]
  BY DeskAssumption
<1>6. signals \in 0..MaxSignals /\ signals + budget.changes <= MaxSignals
  BY <1>5, DeskAssumption
<1> QED BY <1>1, <1>2, <1>3, <1>4, <1>5, <1>6 DEF TypeInv, TypeOK, Fits

\* A tap on the page.
LEMMA TapsType == ASSUME TypeInv, Taps PROVE TypeInv'
<1> USE DEF page, box, wait, history
<1>t. ASSUME Tap
      PROVE  /\ budget' \in [taps : 0..MaxTaps, links : Nat, changes : 0..MaxSignals,
                             faults : Nat, expiries : Nat]
             /\ budget'.changes = budget.changes
  BY <1>t, SpendType DEF Tap
<1>1. ASSUME NEW m \in Members, TapMember(m) PROVE TypeInv'
  <2>1. drawn' \in Members \cup {None} /\ target' = m /\ view' = "detail"
    BY <1>1 DEF TapMember, OpenMember, Draw, TypeInv, TypeOK
  <2> QED BY <1>1, <1>t, <2>1 DEF TapMember, TypeInv, TypeOK, Fits
<1>2. ASSUME NEW m \in Members, Choose(m) PROVE TypeInv'
  <2>1. deposit' \in Boxes BY <1>2, BoxIs DEF Choose, TypeInv, Boxes
  <2> QED BY <1>2, <1>t, <2>1 DEF Choose, TypeInv, TypeOK, Fits, Boxes
<1>3. ASSUME NEW d \in Deposits, TapDeposit(d) PROVE TypeInv'
  <2>1. tapped \subseteq Members /\ deposit \in Boxes BY BoxIs DEF TypeInv, TypeOK
  <2>2. deposit' \in Boxes /\ tapped' \subseteq Members
    BY <1>3, <2>1, OpenDepositType DEF TapDeposit
  <2> QED BY <1>3, <1>t, <2>2 DEF TapDeposit, TypeInv, TypeOK, Fits, Boxes
<1>4. CASE Leave
  BY <1>4, <1>t DEF Leave, TypeInv, TypeOK, Fits
<1>5. CASE CloseDeposit
  BY <1>5, <1>t DEF CloseDeposit, NoBox, TypeInv, TypeOK, Fits
<1>6. CASE CloseForm
  BY <1>6, <1>t DEF CloseForm, TypeInv, TypeOK, Fits
<1>7. CASE SubmitDeposit
  <2>1. deposit.txn \in Subjects /\ deposit.drawn \in Subjects
        /\ deposit.chosen \in Members \cup {None}
    BY BoxIs DEF TypeInv, Boxes, Subjects
  <2>2. CallsFit'
    <3> DEFINE q == [Request("resolve", deposit.txn, deposit.drawn) EXCEPT !.member = deposit.chosen]
    <3>1. calls' \subseteq calls \cup {q} BY <1>7 DEF SubmitDeposit
    <3>2. q \in Call /\ Fitting(q) BY <2>1, ResolveType
    <3> HIDE DEF q
    <3> QED BY <3>1, <3>2, SentOneType
  <2>3. locked' \subseteq Buttons BY <1>7 DEF SubmitDeposit, TypeInv, TypeOK, Buttons
  <2>4. /\ alert' \in [on : BOOLEAN, button : Buttons \cup {"none"}, load : BOOLEAN]
        /\ alert'.load => alert'.button \in Buttons
        /\ orphaned' \subseteq Buttons
    BY <1>7, AlertType, KeepAlertType DEF SubmitDeposit
  <2>5. dialog' = dialog \/ dialog' = [op |-> "other", subject |-> deposit.txn, to |-> "none"]
    BY <1>7 DEF SubmitDeposit
  <2>6. /\ dialog' \in [op : Confirmed, subject : Subjects, to : MemberStatuses \cup {"none"}]
                        \cup {NoDialog}
        /\ dialog'.op \in {"active", "suspend"} => dialog'.to \in MemberStatuses
    BY <2>1, <2>5 DEF Confirmed, TypeInv, TypeOK, Fits
  <2> QED BY <1>7, <1>t, <2>2, <2>3, <2>4, <2>6 DEF SubmitDeposit, CallsFit, TypeInv, TypeOK, Fits
<1>8. ASSUME NEW op \in Amounts, OpenForm(op) PROVE TypeInv'
  BY <1>8, <1>t DEF OpenForm, TypeInv, TypeOK, Fits
<1>9. ASSUME NEW op \in Amounts, SubmitForm(op) PROVE TypeInv'
  <2>1. target \in Subjects /\ drawn \in Subjects BY DEF TypeInv, TypeOK, Subjects
  <2>2. CallsFit'
    <3> DEFINE q == Request(op, target, drawn)
    <3>1. calls' \subseteq calls \cup {q} BY <1>9 DEF SubmitForm
    <3>2. q \in Call /\ Fitting(q) BY <2>1, PlainType
    <3> HIDE DEF q
    <3> QED BY <3>1, <3>2, SentOneType
  <2>3. locked' \subseteq Buttons BY <1>9 DEF SubmitForm, TypeInv, TypeOK, Buttons
  <2>4. /\ alert' \in [on : BOOLEAN, button : Buttons \cup {"none"}, load : BOOLEAN]
        /\ alert'.load => alert'.button \in Buttons
        /\ orphaned' \subseteq Buttons
    BY <1>9, AlertType, KeepAlertType DEF SubmitForm
  <2> QED BY <1>9, <1>t, <2>2, <2>3, <2>4 DEF SubmitForm, CallsFit, TypeInv, TypeOK, Fits
<1>10. ASSUME NEW op \in Confirmed \ {"other"}, AskMember(op) PROVE TypeInv'
  <2>1. target \in Subjects /\ target \in Members BY <1>10 DEF AskMember, Feed, Subjects
  <2>2. /\ NewStatus(op, list.users[target]) \in MemberStatuses \cup {"none"}
        /\ op \in {"active", "suspend"} => NewStatus(op, list.users[target]) \in MemberStatuses
    BY DEF NewStatus, MemberStatuses
  <2>3. dialog' = [op |-> op, subject |-> target, to |-> NewStatus(op, list.users[target])]
    BY <1>10 DEF AskMember
  <2>4. /\ dialog' \in [op : Confirmed, subject : Subjects, to : MemberStatuses \cup {"none"}]
        /\ dialog'.op \in {"active", "suspend"} => dialog'.to \in MemberStatuses
    BY <2>1, <2>2, <2>3
  <2> QED BY <1>10, <1>t, <2>4 DEF AskMember, TypeInv, TypeOK, Fits
<1> QED BY <1>1, <1>2, <1>3, <1>4, <1>5, <1>6, <1>7, <1>8, <1>9, <1>10 DEF Taps

\* A dialog is left.
LEMMA DialogsType == ASSUME TypeInv, Dialogs PROVE TypeInv'
<1> USE DEF page, box, wait, history
<1>1. CASE Confirm
  <2> DEFINE op == dialog.op
             q == [Request(op, Subject(op), dialog.subject) EXCEPT !.to = dialog.to]
  <2>1. /\ op \in Confirmed /\ dialog.subject \in Subjects
        /\ dialog.to \in MemberStatuses \cup {"none"}
        /\ op \in {"active", "suspend"} => dialog.to \in MemberStatuses
    BY <1>1 DEF Confirm, TypeInv, TypeOK, Fits
  <2>2. Subject(op) \in Subjects
    BY <2>1, BoxIs DEF Subject, TypeInv, TypeOK, Boxes, Subjects
  <2>3. op \in Ops /\ op \notin Loads BY <2>1 DEF Ops, Confirmed, Loads
  <2>4. CallsFit'
    <3>1. calls' \subseteq calls \cup {q} BY <1>1 DEF Confirm
    <3>2. q \in Call /\ Fitting(q) BY <2>1, <2>2, <2>3, AskedType
    <3> HIDE DEF q, op
    <3> QED BY <3>1, <3>2, SentOneType
  <2>5. locked' \subseteq Buttons
    <3>1. ButtonOf(op) \subseteq Buttons BY DEF ButtonOf, Buttons
    <3> QED BY <1>1, <3>1 DEF Confirm, TypeInv, TypeOK
  <2>6. dialog' = NoDialog /\ dialog'.op = "none" BY <1>1 DEF Confirm, NoDialog
  <2>7. /\ UNCHANGED <<db, list, auth, page, form, deposit, alert, orphaned, signals, budget,
                       history>>
    BY <1>1 DEF Confirm
  <2> HIDE DEF op
  <2> QED BY <2>4, <2>5, <2>6, <2>7 DEF CallsFit, TypeInv, TypeOK, Fits
<1>2. CASE Dismiss
  <2>1. CallsFit'
    <3> DEFINE S == IF alert.load THEN {Load("users", Then("free", alert.button, 0))} ELSE {}
    <3>1. calls' \subseteq calls \cup S BY <1>2 DEF Dismiss
    <3>2. \A x \in S : x \in Call /\ Fitting(x)
      BY LoadType, ThenType DEF Loads, TypeInv, Fits
    <3> HIDE DEF S
    <3> QED BY <3>1, <3>2, SentType
  <2>2. /\ alert' \in [on : BOOLEAN, button : Buttons \cup {"none"}, load : BOOLEAN]
        /\ ~alert'.load
    BY <1>2 DEF Dismiss, NoAlert
  <2>3. locked' \subseteq Buttons BY <1>2 DEF Dismiss, TypeInv, TypeOK
  <2> QED BY <1>2, <2>1, <2>2, <2>3 DEF Dismiss, CallsFit, TypeInv, TypeOK, Fits
<1>3. CASE EnterPin
  <2>1. CallsFit'
    <3> DEFINE S == {Load("users", Nothing), Load("txns", Nothing)}
    <3>1. calls' \subseteq calls \cup S BY <1>3 DEF EnterPin
    <3>2. \A x \in S : x \in Call /\ Fitting(x) BY LoadType, ThenType DEF Loads
    <3> HIDE DEF S
    <3> QED BY <3>1, <3>2, SentType
  <2>2. db' \in [members : [Members -> MemberStatuses],
                 deposits : [Deposits -> DepositStatuses], session : BOOLEAN]
    BY <1>3 DEF EnterPin, TypeInv, TypeOK
  <2> QED BY <1>3, <2>1, <2>2 DEF EnterPin, CallsFit, TypeInv, TypeOK, Fits
<1> QED BY <1>1, <1>2, <1>3 DEF Dialogs

\* What comes uninvited.
LEMMA UninvitedType == ASSUME TypeInv, Uninvited PROVE TypeInv'
<1> USE DEF page, box, wait, history
<1>1. CASE Change
  <2>1. db' \in [members : [Members -> MemberStatuses],
                 deposits : [Deposits -> DepositStatuses], session : BOOLEAN]
    <3>1. ASSUME NEW m \in Members, NEW s \in MemberStatuses, db' = [db EXCEPT !.members[m] = s]
          PROVE  <2>1
      BY <3>1 DEF TypeInv, TypeOK
    <3>2. ASSUME NEW d \in Deposits, NEW s \in DepositStatuses,
                 db' = [db EXCEPT !.deposits[d] = s]
          PROVE  <2>1
      BY <3>2 DEF TypeInv, TypeOK
    <3> QED BY <1>1, <3>1, <3>2 DEF Change
  <2>2. budget' \in [taps : 0..MaxTaps, links : Nat, changes : 0..MaxSignals,
                     faults : Nat, expiries : Nat]
        /\ budget'.changes = budget.changes - 1
    BY <1>1, SpendType DEF Change
  <2>3. signals' \in 0..MaxSignals /\ signals' + budget'.changes <= MaxSignals
    BY <1>1, <2>2, DeskAssumption DEF Change, TypeInv, TypeOK, Fits
  <2> QED BY <1>1, <2>1, <2>2, <2>3 DEF Change, TypeInv, TypeOK, Fits
<1>2. CASE Refresh
  <2>1. signals' \in 0..MaxSignals /\ signals' \in Nat /\ signals' + budget.changes <= MaxSignals
    BY <1>2, DeskAssumption DEF Refresh, TypeInv, TypeOK, Fits
  <2>2. CallsFit'
    <3> DEFINE S == {Load(op, Then("draw", None, signals)) : op \in Loads}
    <3>0. signals \in Nat BY DeskAssumption DEF TypeInv, TypeOK
    <3>1. calls' \subseteq calls \cup S BY <1>2 DEF Refresh
    <3>2. \A x \in S : x \in Call /\ Fitting(x) BY <3>0, LoadType, ThenType
    <3> HIDE DEF S
    <3> QED BY <3>1, <3>2, SentType
  <2> QED BY <1>2, <2>1, <2>2 DEF Refresh, CallsFit, TypeInv, TypeOK, Fits
<1>3. CASE Expire
  <2>1. db' \in [members : [Members -> MemberStatuses],
                 deposits : [Deposits -> DepositStatuses], session : BOOLEAN]
    BY <1>3 DEF Expire, TypeInv, TypeOK
  <2>2. budget' \in [taps : 0..MaxTaps, links : Nat, changes : 0..MaxSignals,
                     faults : Nat, expiries : Nat]
        /\ budget'.changes = budget.changes
    BY <1>3, SpendType DEF Expire
  <2> QED BY <1>3, <2>1, <2>2 DEF Expire, TypeInv, TypeOK, Fits
<1>4. ASSUME NEW s \in Members \cup Deposits, FollowLink(s) PROVE TypeInv'
  <2>1. CallsFit'
    <3> DEFINE q == Load(IF s \in Members THEN "users" ELSE "txns", Then("open", s, 0))
    <3>1. calls' \subseteq calls \cup {q} BY <1>4 DEF FollowLink
    <3>2. Then("open", s, 0) \in Thens BY ThenType DEF Subjects
    <3>3. q \in Call /\ Fitting(q) BY <3>2, LoadType DEF Loads
    <3> HIDE DEF q
    <3> QED BY <3>1, <3>3, SentOneType
  <2>2. budget' \in [taps : 0..MaxTaps, links : Nat, changes : 0..MaxSignals,
                     faults : Nat, expiries : Nat]
        /\ budget'.changes = budget.changes
    BY <1>4, SpendType DEF FollowLink
  <2> QED BY <1>4, <2>1, <2>2 DEF FollowLink, CallsFit, TypeInv, TypeOK, Fits
<1> QED BY <1>1, <1>2, <1>3, <1>4 DEF Uninvited

\* What the server does to the rows.
LEMMA CarryType ==
  ASSUME TypeInv, NEW c \in calls, c.op \notin Loads, Carry(c)
  PROVE  db' \in [members : [Members -> MemberStatuses],
                  deposits : [Deposits -> DepositStatuses], session : BOOLEAN]
<1>1. db \in [members : [Members -> MemberStatuses],
              deposits : [Deposits -> DepositStatuses], session : BOOLEAN]
  BY DEF TypeInv, TypeOK
<1>2. ASSUME NEW s \in MemberStatuses, NEW x, db' = [db EXCEPT !.members[x] = s]
      PROVE  db' \in [members : [Members -> MemberStatuses],
                      deposits : [Deposits -> DepositStatuses], session : BOOLEAN]
  BY <1>1, <1>2
<1>3. ASSUME NEW s \in DepositStatuses, NEW x, db' = [db EXCEPT !.deposits[x] = s]
      PROVE  db' \in [members : [Members -> MemberStatuses],
                      deposits : [Deposits -> DepositStatuses], session : BOOLEAN]
  BY <1>1, <1>3
<1>4. CASE c.op \in {"active", "suspend"}
  <2>1. db' = [db EXCEPT !.members[c.subject] = c.to] BY <1>4 DEF Carry
  <2>2. c.to \in MemberStatuses BY <1>4 DEF TypeInv, Fits, Fitting
  <2> QED BY <1>2, <2>1, <2>2
<1>5. CASE c.op = "delete"
  <2>1. db' = [db EXCEPT !.members[c.subject] = "GONE"] BY <1>5 DEF Carry
  <2> QED BY <1>2, <2>1 DEF MemberStatuses
<1>6. CASE c.op = "resolve"
  <2>1. db' = [db EXCEPT !.deposits[c.subject] = "CREDITED_MANUAL"] BY <1>6 DEF Carry
  <2> QED BY <1>3, <2>1 DEF DepositStatuses
<1>7. CASE c.op = "other"
  <2>1. db' = [db EXCEPT !.deposits[c.subject] = "OTHER"] BY <1>7 DEF Carry
  <2> QED BY <1>3, <2>1 DEF DepositStatuses
<1>8. CASE c.op \notin {"active", "suspend", "delete", "resolve", "other"}
  <2>1. db' = db BY <1>8 DEF Carry
  <2> QED BY <1>1, <2>1
<1> QED BY <1>4, <1>5, <1>6, <1>7, <1>8

\* A request that is answered, by the server or by the network.
LEMMA ServedType ==
  ASSUME TypeInv, NEW c \in calls,
         \/ \E a \in Answers : (a = "ok" => c.op \notin Loads) /\ Answer(c, a)
         \/ c.op \in Loads
            /\ calls' = (calls \ {c}) \cup {[c EXCEPT !.answer = "ok",
                  !.snap = IF c.op = "users" THEN db.members ELSE db.deposits]}
  PROVE  \E q : /\ q \in Call /\ Fitting(q) /\ calls' = (calls \ {c}) \cup {q}
                /\ q.op = c.op /\ q.subject = c.subject /\ q.shown = c.shown
                /\ q.member = c.member /\ q.then = c.then
<1>1. c \in Call /\ Fitting(c) BY DEF TypeInv, TypeOK, Fits
<1>2. ASSUME NEW a \in Answers, a = "ok" => c.op \notin Loads, Answer(c, a)
      PROVE  \E q : /\ q \in Call /\ Fitting(q) /\ calls' = (calls \ {c}) \cup {q}
                    /\ q.op = c.op /\ q.subject = c.subject /\ q.shown = c.shown
                    /\ q.member = c.member /\ q.then = c.then
  <2> DEFINE q == [c EXCEPT !.answer = a]
  <2>1. calls' = (calls \ {c}) \cup {q} BY <1>2 DEF Answer
  <2>2. /\ q \in Call /\ Fitting(q) /\ q.op = c.op /\ q.subject = c.subject
        /\ q.shown = c.shown /\ q.member = c.member /\ q.then = c.then
    BY <1>1, <1>2, AnswerType
  <2> HIDE DEF q
  <2> QED BY <2>1, <2>2
<1>3. ASSUME c.op \in Loads,
             calls' = (calls \ {c}) \cup {[c EXCEPT !.answer = "ok",
                  !.snap = IF c.op = "users" THEN db.members ELSE db.deposits]}
      PROVE  \E q : /\ q \in Call /\ Fitting(q) /\ calls' = (calls \ {c}) \cup {q}
                    /\ q.op = c.op /\ q.subject = c.subject /\ q.shown = c.shown
                    /\ q.member = c.member /\ q.then = c.then
  <2> DEFINE s == IF c.op = "users" THEN db.members ELSE db.deposits
             q == [c EXCEPT !.answer = "ok", !.snap = s]
  <2>0. s \in IF c.op = "users" THEN UserLists ELSE TxnLists
    BY DEF TypeInv, TypeOK, UserLists, TxnLists
  <2>1. calls' = (calls \ {c}) \cup {q} BY <1>3
  <2> HIDE DEF s
  <2>2. /\ q \in Call /\ Fitting(q) /\ q.op = c.op /\ q.subject = c.subject
        /\ q.shown = c.shown /\ q.member = c.member /\ q.then = c.then
    BY <1>1, <1>3, <2>0, LoadedType
  <2> HIDE DEF q
  <2> QED BY <2>1, <2>2
<1> QED BY <1>2, <1>3

\* The server's or the network's part of a step of Travel.
LEMMA ServeIs ==
  ASSUME NEW c, Serve(c) \/ Lose(c)
  PROVE  /\ \/ \E a \in Answers : (a = "ok" => c.op \notin Loads) /\ Answer(c, a)
            \/ c.op \in Loads
               /\ calls' = (calls \ {c}) \cup {[c EXCEPT !.answer = "ok",
                     !.snap = IF c.op = "users" THEN db.members ELSE db.deposits]}
         /\ UNCHANGED <<list, auth, page, box, wait, signals, history>>
         /\ \/ Spend("faults") /\ UNCHANGED db
            \/ UNCHANGED budget /\ (UNCHANGED db \/ (c.op \notin Loads /\ Carry(c)))
<1> USE DEF Answers
<1>1. CASE Serve(c) BY <1>1 DEF Serve
<1>2. CASE Lose(c) BY <1>2 DEF Lose
<1> QED BY <1>1, <1>2

LEMMA ServeType == ASSUME TypeInv, NEW c \in calls, Serve(c) \/ Lose(c) PROVE TypeInv'
<1> USE DEF page, box, wait, history
<1>1. PICK q : q \in Call /\ Fitting(q) /\ calls' = (calls \ {c}) \cup {q}
  BY ServeIs, ServedType
<1>2. CallsFit' BY <1>1, SentOneType
<1>3. UNCHANGED <<list, auth, page, box, wait, signals, history>> BY ServeIs
<1>4. db' \in [members : [Members -> MemberStatuses],
               deposits : [Deposits -> DepositStatuses], session : BOOLEAN]
  BY ServeIs, CarryType DEF TypeInv, TypeOK
<1>5. /\ budget' \in [taps : 0..MaxTaps, links : Nat, changes : 0..MaxSignals,
                      faults : Nat, expiries : Nat]
      /\ budget'.changes = budget.changes
  BY ServeIs, SpendType DEF TypeInv, Fits
<1> QED BY <1>2, <1>3, <1>4, <1>5 DEF CallsFit, TypeInv, TypeOK, Fits

LEMMA HearLoadType == ASSUME TypeInv, NEW c \in calls, HearLoad(c) PROVE TypeInv'
<1>1. /\ list' \in [users : UserLists, txns : TxnLists]
      /\ Heard(c).users \in UserLists /\ Heard(c).txns \in TxnLists
  BY HeardType DEF HearLoad
<1>2. Continue(c, Heard(c).users, Heard(c).txns) BY DEF HearLoad
<1>3. /\ deposit' \in Boxes /\ tapped' \subseteq Members
      /\ target' \in Members \cup {None} /\ drawn' \in Members \cup {None}
      /\ view' \in {"list", "detail"} /\ links' \subseteq Subjects /\ locked' \subseteq locked
  BY <1>1, <1>2, ContinueType
<1>4. /\ alert' \in [on : BOOLEAN, button : Buttons \cup {"none"}, load : BOOLEAN]
      /\ alert'.load => alert'.button \in Buttons
      /\ orphaned' \subseteq Buttons /\ auth' \in BOOLEAN
  BY AlertType, KeepAlertType DEF HearLoad, TypeInv, TypeOK
<1>5. CallsFit' BY SentType DEF HearLoad, Rest, TypeInv, TypeOK, Fits, CallsFit
<1> QED BY <1>1, <1>3, <1>4, <1>5
        DEF HearLoad, CallsFit, TypeInv, TypeOK, Fits, Boxes, UserLists, TxnLists

\* An alert stays, or makes room for another and leaves its button behind.
AlertMoves ==
  /\ alert' \in [on : BOOLEAN, button : Buttons \cup {"none"}, load : BOOLEAN]
  /\ alert'.load => alert'.button \in Buttons
  /\ orphaned \subseteq orphaned' /\ orphaned' \subseteq Buttons
  /\ alert.button \in Buttons => alert'.button = alert.button \/ alert.button \in orphaned'

LEMMA AlertMovesIs ==
  ASSUME TypeInv,
         KeepAlert \/ \E b \in Buttons \cup {"none"}, l \in BOOLEAN :
                        (l => b \in Buttons) /\ Alert(b, l)
  PROVE  AlertMoves
<1>1. CASE KeepAlert BY <1>1, KeepAlertType DEF AlertMoves
<1>2. ASSUME NEW b \in Buttons \cup {"none"}, NEW l \in BOOLEAN, l => b \in Buttons, Alert(b, l)
      PROVE  AlertMoves
  BY <1>2, AlertType DEF AlertMoves
<1> QED BY <1>1, <1>2

\* What a request that was done is followed by: loads, an alert, and a button that
\* one of them will free.
LEMMA HearOkIs ==
  ASSUME TypeInv, NEW c \in calls, HearOk(c)
  PROVE  /\ UNCHANGED <<db, list, auth, dialog, signals, budget, links, drawn>>
         /\ target' \in {target, None} /\ view' \in {view, "list"} /\ form' \in {form, "none"}
         /\ \/ deposit' = deposit /\ tapped' = tapped
            \/ deposit' = NoBox /\ tapped' = {}
         /\ locked' \subseteq locked /\ locked \ locked' \subseteq ButtonOf(c.op)
         /\ AlertMoves
         /\ \E S : /\ \A q \in S : q \in Call /\ Fitting(q) /\ q.op \in Loads
                   /\ calls' = (calls \ {c}) \cup S
                   /\ \A b \in locked' \cap ButtonOf(c.op) :
                        \/ alert'.button = b
                        \/ \E q \in S : q.then.do = "free" /\ q.then.at = b
<1> USE DEF page, box, wait, history, Rest
<1>u. UNCHANGED <<db, list, auth, dialog, signals, budget, links>> BY DEF HearOk
<1>1. CASE c.op \in Amounts
  <2>1. /\ form' = (IF form = c.op THEN "none" ELSE form) /\ Alert(c.op, TRUE)
        /\ calls' = calls \ {c}
        /\ UNCHANGED <<page, deposit, locked, tapped>>
    BY <1>1 DEF HearOk, Amounts
  <2>2. c.op \in Buttons BY <1>1 DEF Buttons
  <2>3. AlertMoves /\ alert'.button = c.op BY <2>1, <2>2, AlertMovesIs, AlertType
  <2>4. ButtonOf(c.op) = {c.op} BY <1>1 DEF ButtonOf, Amounts
  <2>5. \A b \in locked' \cap ButtonOf(c.op) : alert'.button = b BY <2>3, <2>4
  <2>6. form' \in {form, "none"} BY <2>1
  <2>7. \E S : /\ \A q \in S : q \in Call /\ Fitting(q) /\ q.op \in Loads
               /\ calls' = (calls \ {c}) \cup S
               /\ \A b \in locked' \cap ButtonOf(c.op) :
                    \/ alert'.button = b
                    \/ \E q \in S : q.then.do = "free" /\ q.then.at = b
    <3> DEFINE S == {}
    <3>1. calls' = (calls \ {c}) \cup S /\ \A q \in S : q \in Call /\ Fitting(q) /\ q.op \in Loads
      BY <2>1
    <3> HIDE DEF S
    <3> QED BY <2>5, <3>1
  <2>8. UNCHANGED <<target, drawn, view, deposit, locked, tapped>> BY <2>1
  <2> QED BY <1>u, <2>3, <2>6, <2>7, <2>8
<1>2. CASE c.op = "delete"
  <2> DEFINE S == {Load("users", Nothing)}
  <2>1. /\ target' = None /\ view' = "list" /\ calls' = (calls \ {c}) \cup S
        /\ KeepAlert /\ UNCHANGED <<drawn, form, deposit, locked, tapped>>
    BY <1>2 DEF HearOk, Amounts
  <2>2. \A q \in S : q \in Call /\ Fitting(q) /\ q.op \in Loads
    BY LoadType, ThenType DEF Loads
  <2>3. AlertMoves BY <2>1, AlertMovesIs
  <2>4. ButtonOf(c.op) = {} BY <1>2 DEF ButtonOf, Amounts
  <2> HIDE DEF S
  <2> QED BY <1>u, <2>1, <2>2, <2>3, <2>4
<1>3. CASE c.op \in {"active", "suspend"}
  <2> DEFINE q == Load("users", Then("free", c.op, 0))
  <2>1. /\ calls' = (calls \ {c}) \cup {q}
        /\ KeepAlert /\ UNCHANGED <<page, form, deposit, locked, tapped>>
    BY <1>3 DEF HearOk, Amounts
  <2>2. q \in Call /\ Fitting(q) /\ q.op \in Loads /\ q.then = Then("free", c.op, 0)
    BY <1>3, LoadType, ThenType DEF Loads, Confirmed
  <2>3. q.then.do = "free" /\ q.then.at = c.op BY <2>2 DEF Then
  <2>4. AlertMoves BY <2>1, AlertMovesIs
  <2>5. ButtonOf(c.op) \subseteq {c.op} BY <1>3 DEF ButtonOf, Amounts
  <2> HIDE DEF q
  <2>6. \A x \in {q} : x \in Call /\ Fitting(x) /\ x.op \in Loads BY <2>2
  <2>7. \A b \in locked' \cap ButtonOf(c.op) : \E x \in {q} : x.then.do = "free" /\ x.then.at = b
    BY <2>3, <2>5
  <2> QED BY <1>u, <2>1, <2>4, <2>6, <2>7
<1>4. CASE c.op = "card"
  <2>1. /\ KeepAlert \/ Alert("none", FALSE)
        /\ calls' = (calls \ {c}) \cup {}
        /\ UNCHANGED <<page, form, deposit, locked, tapped>>
    BY <1>4 DEF HearOk, Amounts
  <2>2. AlertMoves BY <2>1, AlertMovesIs
  <2>3. ButtonOf(c.op) = {} BY <1>4 DEF ButtonOf, Amounts
  <2> QED BY <1>u, <2>1, <2>2, <2>3
<1>5. CASE c.op \in {"resolve", "other"}
  <2> DEFINE S == {Load("txns", Nothing)}
                   \cup (IF c.op = "resolve" THEN {Load("users", Nothing)} ELSE {})
  <2>1. /\ deposit' = NoBox /\ tapped' = {} /\ locked' = locked \ {"deposit"}
        /\ calls' = (calls \ {c}) \cup S
        /\ KeepAlert /\ UNCHANGED <<page, form>>
    BY <1>5 DEF HearOk, Amounts
  <2>2. \A q \in S : q \in Call /\ Fitting(q) /\ q.op \in Loads
    BY LoadType, ThenType DEF Loads
  <2>3. AlertMoves BY <2>1, AlertMovesIs
  <2>4. ButtonOf(c.op) = {"deposit"} BY <1>5 DEF ButtonOf, Amounts
  <2>5. locked' \cap ButtonOf(c.op) = {} BY <2>1, <2>4
  <2> HIDE DEF S
  <2> QED BY <1>u, <2>1, <2>2, <2>3, <2>4, <2>5
<1>6. c.op \in Amounts \cup {"delete", "active", "suspend", "card", "resolve", "other"}
  BY CallIs DEF HearOk, TypeInv, TypeOK, Ops, Confirmed
<1> QED BY <1>1, <1>2, <1>3, <1>4, <1>5, <1>6

\* A request that was refused or lost frees its button, or leaves that to an alert.
LEMMA HearRefusedIs ==
  ASSUME TypeInv, NEW c \in calls, HearRefused(c)
  PROVE  /\ UNCHANGED <<db, list, page, box, signals, budget, history>>
         /\ auth' \in BOOLEAN /\ calls' = calls \ {c} /\ AlertMoves
         /\ locked' \subseteq locked
         /\ \A b \in locked' \cap ButtonOf(c.op) : alert'.button = b
<1> USE DEF Rest
<1>0. /\ UNCHANGED <<db, list, page, box, signals, budget, history>>
      /\ auth' \in BOOLEAN /\ calls' = calls \ {c}
  BY DEF HearRefused, TypeInv, TypeOK
<1>1. CASE c.answer # "lost"
  <2>1. PICK b \in ButtonOf(c.op) \cup {"none"} :
          (b = "none" => ButtonOf(c.op) = {}) /\ Alert(b, FALSE) /\ UNCHANGED locked
    BY <1>1 DEF HearRefused
  <2>2. ButtonOf(c.op) \subseteq {c.op} \/ ButtonOf(c.op) = {"deposit"}
    BY DEF ButtonOf
  <2>3. ButtonOf(c.op) \subseteq Buttons BY DEF ButtonOf, Buttons
  <2>4. b \in Buttons \cup {"none"} BY <2>3
  <2>5. AlertMoves /\ alert'.button = b BY <2>1, <2>4, AlertMovesIs, AlertType
  <2>6. \A x \in ButtonOf(c.op) : x = b BY <2>1, <2>2
  <2> QED BY <1>0, <2>1, <2>5, <2>6
<1>2. CASE c.answer = "lost"
  <2>1. /\ IF c.op \in {"delete", "card"} THEN Alert("none", FALSE) ELSE KeepAlert
        /\ locked' = locked \ ButtonOf(c.op)
    BY <1>2 DEF HearRefused
  <2>2. AlertMoves BY <2>1, AlertMovesIs
  <2> QED BY <1>0, <2>1, <2>2
<1> QED BY <1>1, <1>2

LEMMA HearType == ASSUME TypeInv, NEW c \in calls, HearOk(c) \/ HearRefused(c) PROVE TypeInv'
<1> USE DEF page, box, wait, history
<1>1. CASE HearOk(c)
  <2>1. PICK S : /\ \A q \in S : q \in Call /\ Fitting(q)
                 /\ calls' = (calls \ {c}) \cup S
    BY <1>1, HearOkIs
  <2>2. CallsFit' BY <2>1, SentType
  <2>3. /\ UNCHANGED <<db, list, auth, dialog, signals, budget, links, drawn>>
        /\ target' \in {target, None} /\ view' \in {view, "list"} /\ form' \in {form, "none"}
        /\ \/ deposit' = deposit /\ tapped' = tapped
           \/ deposit' = NoBox /\ tapped' = {}
        /\ locked' \subseteq locked /\ AlertMoves
    BY <1>1, HearOkIs
  <2>4. deposit' \in Boxes /\ tapped' \subseteq Members
    BY <2>3, BoxIs DEF NoBox, Boxes, TypeInv, TypeOK
  <2> QED BY <2>2, <2>3, <2>4 DEF CallsFit, AlertMoves, TypeInv, TypeOK, Fits, Boxes
<1>2. CASE HearRefused(c)
  <2>1. /\ UNCHANGED <<db, list, page, box, signals, budget, history>>
        /\ auth' \in BOOLEAN /\ calls' = calls \ {c} /\ AlertMoves
        /\ locked' \subseteq locked
    BY <1>2, HearRefusedIs
  <2>2. CallsFit' BY <2>1 DEF CallsFit, TypeInv, TypeOK, Fits
  <2> QED BY <2>1, <2>2 DEF CallsFit, AlertMoves, TypeInv, TypeOK, Fits
<1> QED BY <1>1, <1>2

LEMMA TypeStep == TypeInv /\ [Next]_vars => TypeInv'
<1> SUFFICES ASSUME TypeInv, [Next]_vars PROVE TypeInv' OBVIOUS
<1>1. CASE Taps BY <1>1, TapsType
<1>2. CASE Dialogs BY <1>2, DialogsType
<1>3. CASE Uninvited BY <1>3, UninvitedType
<1>4. CASE Travel BY <1>4, ServeType, HearLoadType, HearType DEF Travel
<1>5. CASE UNCHANGED vars
  BY <1>5 DEF vars, page, box, wait, history, TypeInv, TypeOK, Fits, Fitting, Call
<1> QED BY <1>1, <1>2, <1>3, <1>4, <1>5 DEF Next

LEMMA TypeAlways == Spec => []TypeInv
BY TypeInit, TypeStep, PTL DEF Spec

\* The page's variables keep their types, and a list that is heard is of the kind
\* that was asked for.
THEOREM TypeCorrect == Spec => []TypeOK
<1>1. TypeInv => TypeOK BY DEF TypeInv
<1> QED BY <1>1, TypeAlways, PTL

-------------------------------------------------------------------------------
(* What is done goes to whom the page named.                               *)

AsNamed(c, opened) ==
  /\ c.op \in {"active", "suspend", "card"} => c.subject = c.shown
  /\ c.op \notin Loads => c.subject \in {c.shown, None} \cup opened

\* The current member is the one that is drawn, the one that a question names, or
\* one that a link has opened; likewise the deposit of the dialog.
TargetKnown == target \in {drawn, None} \cup links
AskedKnown ==
  /\ dialog.op \in Confirmed \ {"other"} => target \in {dialog.subject, None} \cup links
  /\ dialog.op = "other" => deposit.txn \in {dialog.subject, None} \cup links
TxnDrawn == deposit.txn \in {deposit.drawn, None}

NamedInv == TargetKnown /\ AskedKnown /\ TxnDrawn /\ ActsAsNamed

LEMMA NamedCalls ==
  ASSUME ActsAsNamed, links \subseteq links',
         \A q \in calls' : q \in calls \/ AsNamed(q, links')
  PROVE  ActsAsNamed'
BY DEF ActsAsNamed, AsNamed

LEMMA LoadNamed == \A c, S : c.op \in Loads => AsNamed(c, S)
BY DEF AsNamed, Loads

LEMMA NoDialogAsks == NoDialog.op \notin Confirmed
BY DEF NoDialog, Confirmed

LEMMA NamedStep == TypeInv /\ NamedInv /\ [Next]_vars => NamedInv'
<1> SUFFICES ASSUME TypeInv, NamedInv, [Next]_vars PROVE NamedInv' OBVIOUS
<1> USE DEF page, box, wait, history
<1>k. ASSUME UNCHANGED <<target, drawn, deposit, dialog, links>>
      PROVE  TargetKnown' /\ AskedKnown' /\ TxnDrawn'
  BY <1>k DEF NamedInv, TargetKnown, AskedKnown, TxnDrawn
<1>c. ASSUME UNCHANGED <<calls, links>> PROVE ActsAsNamed'
  BY <1>c, NamedCalls DEF NamedInv
<1>f. ASSUME dialog' = NoDialog PROVE AskedKnown'
  BY <1>f, NoDialogAsks DEF AskedKnown, Confirmed
<1>1. ASSUME NEW m \in Members, TapMember(m) PROVE NamedInv'
  <2>1. TargetKnown' BY <1>1 DEF TapMember, OpenMember, Draw, Feed, TargetKnown
  <2>2. AskedKnown' BY <1>1, <1>f DEF TapMember, PageFree, Uncovered
  <2> QED BY <1>1, <1>c, <2>1, <2>2 DEF TapMember, NamedInv, TxnDrawn
<1>2. ASSUME NEW m \in Members, Choose(m) PROVE NamedInv'
  <2>1. deposit'.txn = deposit.txn /\ deposit'.drawn = deposit.drawn
    BY <1>2, BoxIs DEF Choose, TypeInv, Boxes
  <2> QED BY <1>2, <1>c, <2>1 DEF Choose, NamedInv, TxnDrawn, TargetKnown, AskedKnown
<1>3. ASSUME NEW d \in Deposits, TapDeposit(d) PROVE NamedInv'
  <2>1. tapped \subseteq Members /\ deposit \in Boxes BY BoxIs DEF TypeInv, TypeOK
  <2>2. deposit' = deposit \/ deposit'.drawn = deposit'.txn
    BY <1>3, <2>1, OpenDepositType DEF TapDeposit
  <2>3. AskedKnown' BY <1>3, <1>f DEF TapDeposit, PageFree, Uncovered
  <2> QED BY <1>3, <1>c, <2>2, <2>3 DEF TapDeposit, NamedInv, TxnDrawn, TargetKnown
<1>4. CASE Leave
  <2>1. AskedKnown' BY <1>4, <1>f DEF Leave, PageFree, Uncovered
  <2> QED BY <1>4, <1>c, <2>1 DEF Leave, NamedInv, TxnDrawn, TargetKnown
<1>5. CASE CloseDeposit
  <2>1. AskedKnown' BY <1>5, <1>f DEF CloseDeposit, Uncovered
  <2> QED BY <1>5, <1>c, <2>1 DEF CloseDeposit, NoBox, NamedInv, TxnDrawn, TargetKnown
<1>6. CASE CloseForm BY <1>6, <1>k, <1>c DEF CloseForm, NamedInv
<1>7. CASE SubmitDeposit
  <2> DEFINE q == [Request("resolve", deposit.txn, deposit.drawn) EXCEPT !.member = deposit.chosen]
  <2>1. calls' \subseteq calls \cup {q} BY <1>7 DEF SubmitDeposit
  <2>2. q.op = "resolve" /\ q.subject = deposit.txn /\ q.shown = deposit.drawn
    BY DEF Request
  <2> HIDE DEF q
  <2>3. UNCHANGED <<target, drawn, deposit, links>>
        /\ (dialog' = dialog \/ dialog' = [op |-> "other", subject |-> deposit.txn, to |-> "none"])
    BY <1>7 DEF SubmitDeposit
  <2>4. AsNamed(q, links') BY <2>2, <2>3 DEF AsNamed, NamedInv, TxnDrawn
  <2>5. ActsAsNamed' BY <2>1, <2>3, <2>4, NamedCalls DEF NamedInv
  <2> QED BY <2>3, <2>5 DEF NamedInv, TxnDrawn, TargetKnown, AskedKnown
<1>8. ASSUME NEW op \in Amounts, OpenForm(op) PROVE NamedInv'
  BY <1>8, <1>k, <1>c DEF OpenForm, NamedInv
<1>9. ASSUME NEW op \in Amounts, SubmitForm(op) PROVE NamedInv'
  <2> DEFINE q == Request(op, target, drawn)
  <2>1. calls' \subseteq calls \cup {q} BY <1>9 DEF SubmitForm
  <2>2. q.op = op /\ q.subject = target /\ q.shown = drawn BY DEF Request
  <2>3. UNCHANGED <<target, drawn, deposit, dialog, links>> BY <1>9 DEF SubmitForm
  <2> HIDE DEF q
  <2>4. AsNamed(q, links') BY <2>2, <2>3 DEF AsNamed, NamedInv, TargetKnown, Amounts
  <2>5. ActsAsNamed' BY <2>1, <2>3, <2>4, NamedCalls DEF NamedInv
  <2> QED BY <1>k, <2>3, <2>5 DEF NamedInv
<1>10. ASSUME NEW op \in Confirmed \ {"other"}, AskMember(op) PROVE NamedInv'
  <2>1. dialog'.op = op /\ dialog'.subject = target BY <1>10 DEF AskMember
  <2> QED BY <1>10, <1>c, <2>1 DEF AskMember, NamedInv, TxnDrawn, TargetKnown, AskedKnown
<1>11. CASE Confirm
  <2> DEFINE op == dialog.op
             q == [Request(op, Subject(op), dialog.subject) EXCEPT !.to = dialog.to]
  <2>1. calls' \subseteq calls \cup {q} BY <1>11 DEF Confirm
  <2>2. q.op = op /\ q.subject = Subject(op) /\ q.shown = dialog.subject
    BY DEF Request
  <2> HIDE DEF q
  <2>3. op \in {"active", "suspend", "card"} => Subject(op) = dialog.subject
    BY DEF Subject
  <2>4. Subject(op) \in {dialog.subject, None} \cup links
    <3>1. CASE op = "delete" BY <3>1 DEF Subject, NamedInv, AskedKnown, Confirmed
    <3>2. CASE op = "other" BY <3>2 DEF Subject, NamedInv, AskedKnown
    <3>3. CASE op \notin {"delete", "other"} BY <3>3 DEF Subject
    <3> QED BY <3>1, <3>2, <3>3
  <2>5. dialog' = NoDialog /\ UNCHANGED <<target, drawn, deposit, links>> BY <1>11 DEF Confirm
  <2> HIDE DEF op
  <2>6. AsNamed(q, links') BY <2>2, <2>3, <2>4, <2>5 DEF AsNamed
  <2>7. ActsAsNamed' BY <2>1, <2>5, <2>6, NamedCalls DEF NamedInv
  <2> QED BY <1>f, <2>5, <2>7 DEF NamedInv, TargetKnown, TxnDrawn
<1>12. CASE Dismiss \/ EnterPin \/ Refresh \/ \E s \in Members \cup Deposits : FollowLink(s)
  <2>1. UNCHANGED <<target, drawn, deposit, dialog, links>>
    BY <1>12 DEF Dismiss, EnterPin, Refresh, FollowLink
  <2>2. \A q \in calls' : q \in calls \/ q.op \in Loads
    <3>1. CASE Dismiss
      <4>1. \A t : Load("users", t).op = "users" BY DEF Load, Request
      <4> QED BY <3>1, <4>1 DEF Dismiss, Loads
    <3>2. CASE EnterPin
      <4>1. \A t : Load("users", t).op = "users" /\ Load("txns", t).op = "txns"
        BY DEF Load, Request
      <4> QED BY <3>2, <4>1 DEF EnterPin, Loads
    <3>3. CASE Refresh
      <4>1. \A op \in Loads : \A t : Load(op, t).op = op BY DEF Load, Request
      <4> QED BY <3>3, <4>1 DEF Refresh
    <3>4. ASSUME NEW s \in Members \cup Deposits, FollowLink(s) PROVE <2>2
      <4>1. \A op \in Loads : \A t : Load(op, t).op = op BY DEF Load, Request
      <4> QED BY <3>4, <4>1 DEF FollowLink, Loads
    <3> QED BY <1>12, <3>1, <3>2, <3>3, <3>4
  <2>3. ActsAsNamed' BY <2>1, <2>2, LoadNamed, NamedCalls DEF NamedInv
  <2> QED BY <1>k, <2>1, <2>3 DEF NamedInv
<1>13. CASE Change \/ Expire
  BY <1>13, <1>k, <1>c DEF Change, Expire, NamedInv
<1>14. ASSUME NEW c \in calls, Serve(c) \/ Lose(c) PROVE NamedInv'
  <2>1. PICK q : /\ calls' = (calls \ {c}) \cup {q}
                 /\ q.op = c.op /\ q.subject = c.subject /\ q.shown = c.shown
    BY <1>14, ServeIs, ServedType
  <2>2. UNCHANGED <<target, drawn, deposit, dialog, links>> BY <1>14, ServeIs
  <2>3. AsNamed(q, links') BY <2>1, <2>2 DEF AsNamed, NamedInv, ActsAsNamed
  <2>4. ActsAsNamed' BY <2>1, <2>2, <2>3, NamedCalls DEF NamedInv
  <2> QED BY <1>k, <2>2, <2>4 DEF NamedInv
<1>15. ASSUME NEW c \in calls, HearLoad(c) PROVE NamedInv'
  <2>1. /\ Heard(c).users \in UserLists /\ Heard(c).txns \in TxnLists
        /\ Continue(c, Heard(c).users, Heard(c).txns)
        /\ calls' \subseteq calls /\ dialog' = dialog
    BY <1>15, HeardType DEF HearLoad, Rest
  <2> DEFINE s == Shown(c, Heard(c).users, Heard(c).txns)
  <2>2. /\ links \subseteq links'
        /\ \/ target' = target /\ drawn' \in {drawn, target}
           \/ target' \in links'
        /\ \/ deposit' = s
           \/ deposit'.txn \in links' /\ deposit'.drawn = deposit'.txn
    BY <2>1, ContinueType
  <2>3. s.txn \in {deposit.txn, None} /\ (s.txn = None \/ s.drawn \in {s.txn, deposit.drawn})
    BY BoxIs, ShownType DEF TypeInv
  <2> HIDE DEF s
  <2>4. TargetKnown' BY <2>2 DEF NamedInv, TargetKnown
  <2>5. TxnDrawn' BY <2>2, <2>3 DEF NamedInv, TxnDrawn
  <2>6. AskedKnown' BY <2>1, <2>2, <2>3 DEF NamedInv, AskedKnown
  <2>7. ActsAsNamed' BY <2>1, <2>2, NamedCalls DEF NamedInv
  <2> QED BY <2>4, <2>5, <2>6, <2>7 DEF NamedInv
<1>16. ASSUME NEW c \in calls, HearOk(c) PROVE NamedInv'
  <2>1. /\ UNCHANGED <<dialog, links, drawn>> /\ target' \in {target, None}
        /\ deposit' = deposit \/ deposit' = NoBox
        /\ \A q \in calls' : q \in calls \/ q.op \in Loads
    BY <1>16, HearOkIs
  <2>2. ActsAsNamed' BY <2>1, LoadNamed, NamedCalls DEF NamedInv
  <2> QED BY <2>1, <2>2 DEF NamedInv, TargetKnown, AskedKnown, TxnDrawn, NoBox
<1>17. ASSUME NEW c \in calls, HearRefused(c) PROVE NamedInv'
  <2>1. UNCHANGED <<target, drawn, deposit, dialog, links>> /\ calls' \subseteq calls
    BY <1>17, HearRefusedIs
  <2>2. ActsAsNamed' BY <2>1, NamedCalls DEF NamedInv
  <2> QED BY <1>k, <2>1, <2>2 DEF NamedInv
<1>18. CASE UNCHANGED vars BY <1>18, <1>k, <1>c DEF vars, NamedInv
<1> QED BY <1>1, <1>2, <1>3, <1>4, <1>5, <1>6, <1>7, <1>8, <1>9, <1>10, <1>11, <1>12, <1>13,
           <1>14, <1>15, <1>16, <1>17, <1>18
        DEF Next, Taps, Dialogs, Uninvited, Travel

\* A confirmed change goes to the member the question named, and every other request
\* to what the page showed or to what a link opened, however many links, signals and
\* answers come between the question and the yes (toggleDetailUserStatus,
\* deleteDetailUser, routeNotificationDeepLink).
THEOREM DoneToTheNamed == Spec => []ActsAsNamed
<1>1. Init => NamedInv
  BY NoDialogAsks
     DEF Init, NamedInv, TargetKnown, AskedKnown, TxnDrawn, ActsAsNamed, NoBox, Confirmed
<1>2. NamedInv => ActsAsNamed BY DEF NamedInv
<1> QED BY <1>1, <1>2, TypeAlways, NamedStep, PTL DEF Spec

-------------------------------------------------------------------------------
(* A disabled button waits for something.                                  *)

Frees(c, b) == b \in ButtonOf(c.op) \/ (c.then.do = "free" /\ c.then.at = b)

\* A button stays held while its alert makes room in order, and what is taken from
\* the calls hands its button on.
LEMMA StillHeld ==
  ASSUME TypeInv, HeldForReason,
         AlertMoves,
         \A b \in locked' : b \in locked \/ alert'.button = b \/ \E c \in calls' : Frees(c, b),
         \A c \in calls, b \in locked' :
           Frees(c, b) => c \in calls' \/ alert'.button = b \/ \E q \in calls' : Frees(q, b)
  PROVE  HeldForReason'
<1> SUFFICES ASSUME NEW b \in locked'
             PROVE  b \in orphaned' \/ alert'.button = b \/ \E c \in calls' : Frees(c, b)
  BY DEF HeldForReason, Frees, ButtonOf, Amounts
<1>1. CASE b \notin locked BY <1>1
<1>2. CASE b \in locked
  <2>1. b \in Buttons BY <1>2 DEF TypeInv, TypeOK
  <2>2. b \in orphaned \/ alert.button = b \/ \E c \in calls : Frees(c, b)
    BY <1>2 DEF HeldForReason, Frees
  <2> QED BY <2>1, <2>2 DEF AlertMoves
<1> QED BY <1>1, <1>2

LEMMA AlertStays == TypeInv /\ UNCHANGED <<alert, orphaned>> => AlertMoves
BY DEF AlertMoves, TypeInv, TypeOK, Fits

LEMMA HeldStep == TypeInv /\ HeldForReason /\ [Next]_vars => HeldForReason'
<1> SUFFICES ASSUME TypeInv, HeldForReason, [Next]_vars PROVE HeldForReason' OBVIOUS
<1> USE DEF page, box, wait, history
<1>k. ASSUME UNCHANGED wait, calls \subseteq calls' PROVE HeldForReason'
  BY <1>k, StillHeld, AlertStays
<1>1. CASE SubmitDeposit
  <2> DEFINE q == [Request("resolve", deposit.txn, deposit.drawn) EXCEPT !.member = deposit.chosen]
  <2>1. \/ locked' = locked \cup {"deposit"} /\ calls' = calls \cup {q}
        \/ UNCHANGED <<locked, calls>>
    BY <1>1 DEF SubmitDeposit
  <2>2. q.op = "resolve" BY DEF Request
  <2> HIDE DEF q
  <2>3. Frees(q, "deposit") BY <2>2 DEF Frees, ButtonOf, Amounts
  <2>4. AlertMoves BY <1>1, AlertMovesIs DEF SubmitDeposit
  <2> QED BY <2>1, <2>3, <2>4, StillHeld
<1>2. ASSUME NEW op \in Amounts, SubmitForm(op) PROVE HeldForReason'
  <2> DEFINE q == Request(op, target, drawn)
  <2>1. \/ locked' = locked \cup {op} /\ calls' = calls \cup {q}
        \/ UNCHANGED <<locked, calls>>
    BY <1>2 DEF SubmitForm
  <2>2. q.op = op BY DEF Request
  <2> HIDE DEF q
  <2>3. Frees(q, op) BY <2>2 DEF Frees, ButtonOf, Amounts
  <2>4. AlertMoves BY <1>2, AlertMovesIs DEF SubmitForm
  <2> QED BY <2>1, <2>3, <2>4, StillHeld
<1>3. CASE Confirm
  <2> DEFINE op == dialog.op
             q == [Request(op, Subject(op), dialog.subject) EXCEPT !.to = dialog.to]
  <2>1. \/ locked' = locked \cup ButtonOf(op) /\ calls' = calls \cup {q}
        \/ UNCHANGED <<locked, calls>>
    BY <1>3 DEF Confirm
  <2>2. q.op = op BY DEF Request
  <2>3. AlertMoves BY <1>3, AlertStays DEF Confirm
  <2> HIDE DEF q, op
  <2>4. \A b \in ButtonOf(op) : Frees(q, b) BY <2>2 DEF Frees
  <2> QED BY <2>1, <2>3, <2>4, StillHeld
<1>4. CASE Dismiss
  <2>1. alert' = NoAlert /\ orphaned' = orphaned /\ calls \subseteq calls' BY <1>4 DEF Dismiss
  <2>2. ASSUME alert.load PROVE \E q \in calls' : Frees(q, alert.button)
    <3> DEFINE q == Load("users", Then("free", alert.button, 0))
    <3>1. q.then.do = "free" /\ q.then.at = alert.button BY DEF Load, Request, Then
    <3>2. q \in calls' BY <1>4, <2>2 DEF Dismiss
    <3> HIDE DEF q
    <3> QED BY <3>1, <3>2 DEF Frees
  <2>3. ASSUME ~alert.load PROVE locked' = locked \ {alert.button} BY <1>4, <2>3 DEF Dismiss
  <2>4. alert.load => locked' = locked BY <1>4 DEF Dismiss
  <2>5. ASSUME NEW b \in locked'
        PROVE  b \in orphaned' \/ \E c \in calls' : Frees(c, b)
    <3>1. b \in orphaned \/ alert.button = b \/ \E c \in calls : Frees(c, b)
      BY <2>3, <2>4 DEF HeldForReason, Frees
    <3> QED BY <2>1, <2>2, <2>3, <3>1
  <2> QED BY <2>5 DEF HeldForReason, Frees, ButtonOf, Amounts
<1>5. ASSUME NEW c \in calls, Serve(c) \/ Lose(c) PROVE HeldForReason'
  <2>1. PICK q : calls' = (calls \ {c}) \cup {q} /\ q.op = c.op /\ q.then = c.then
    BY <1>5, ServeIs, ServedType
  <2>2. UNCHANGED wait BY <1>5, ServeIs
  <2>3. \A b : Frees(c, b) => Frees(q, b) BY <2>1 DEF Frees
  <2> QED BY <2>1, <2>2, <2>3, StillHeld, AlertStays
<1>6. ASSUME NEW c \in calls, HearLoad(c) PROVE HeldForReason'
  <2>1. /\ Heard(c).users \in UserLists /\ Heard(c).txns \in TxnLists
        /\ Continue(c, Heard(c).users, Heard(c).txns)
    BY <1>6, HeardType DEF HearLoad
  <2>2. locked' \subseteq locked /\ (c.then.do = "free" => c.then.at \notin locked')
    BY <2>1, ContinueType
  <2>3. ButtonOf(c.op) = {} BY <1>6 DEF HearLoad, ButtonOf, Loads, Amounts
  <2>4. \A b \in locked' : ~Frees(c, b) BY <2>2, <2>3 DEF Frees
  <2>5. AlertMoves BY <1>6, AlertMovesIs DEF HearLoad
  <2>6. calls' = calls \ {c} BY <1>6 DEF HearLoad, Rest
  <2> QED BY <2>2, <2>4, <2>5, <2>6, StillHeld
<1>7. ASSUME NEW c \in calls, HearOk(c) PROVE HeldForReason'
  <2>1. PICK S : /\ calls' = (calls \ {c}) \cup S
                 /\ \A b \in locked' \cap ButtonOf(c.op) :
                      \/ alert'.button = b
                      \/ \E q \in S : q.then.do = "free" /\ q.then.at = b
    BY <1>7, HearOkIs
  <2>2. locked' \subseteq locked /\ AlertMoves BY <1>7, HearOkIs
  <2>3. c.then.do # "free" BY <1>7 DEF HearOk, TypeInv, Fits, Fitting
  <2>4. \A b \in locked' : Frees(c, b) => alert'.button = b \/ \E q \in calls' : Frees(q, b)
    BY <2>1, <2>3 DEF Frees
  <2> QED BY <2>1, <2>2, <2>4, StillHeld
<1>8. ASSUME NEW c \in calls, HearRefused(c) PROVE HeldForReason'
  <2>1. /\ calls' = calls \ {c} /\ AlertMoves /\ locked' \subseteq locked
        /\ \A b \in locked' \cap ButtonOf(c.op) : alert'.button = b
    BY <1>8, HearRefusedIs
  <2>2. c.then.do # "free" BY <1>8 DEF HearRefused, TypeInv, Fits, Fitting
  <2>3. \A b \in locked' : Frees(c, b) => alert'.button = b BY <2>1, <2>2 DEF Frees
  <2> QED BY <2>1, <2>3, StillHeld
<1>9. CASE EnterPin \/ Uninvited
  <2>1. UNCHANGED wait /\ calls \subseteq calls'
    BY <1>9 DEF EnterPin, Uninvited, Change, Refresh, Expire, FollowLink
  <2> QED BY <1>k, <2>1
<1>10. CASE Leave \/ CloseDeposit \/ CloseForm \/ \E op \in Amounts : OpenForm(op)
  <2>1. UNCHANGED <<wait, calls>> BY <1>10 DEF Leave, CloseDeposit, CloseForm, OpenForm
  <2> QED BY <1>k, <2>1
<1>11. CASE \/ \E m \in Members : TapMember(m) \/ Choose(m)
            \/ \E d \in Deposits : TapDeposit(d)
            \/ \E op \in Confirmed \ {"other"} : AskMember(op)
  <2>1. UNCHANGED <<wait, calls>> BY <1>11 DEF TapMember, Choose, TapDeposit, AskMember
  <2> QED BY <1>k, <2>1
<1>12. CASE UNCHANGED vars BY <1>12, <1>k DEF vars
<1> QED BY <1>1, <1>2, <1>3, <1>4, <1>5, <1>6, <1>7, <1>8, <1>9, <1>10, <1>11, <1>12
        DEF Next, Taps, Dialogs, Travel

\* A button that is disabled will be freed by an answer or by an alert that is shown,
\* or its alert was overwritten (withButtonLock, showAlertModal): an answer that is
\* refused, lost or late leaves none behind.
THEOREM ButtonsHeldForReason == Spec => []HeldForReason
<1>1. Init => HeldForReason BY DEF Init, HeldForReason
<1> QED BY <1>1, TypeAlways, HeldStep, PTL DEF Spec

-------------------------------------------------------------------------------
(* A deposit is credited to somebody chosen for it.                        *)

ChosenFits(b, t) ==
  b.chosen # None => b.chosen \in t \cup
    (IF b.txn = None THEN Members ELSE Named[b.txn] \cup {Matched[b.txn]})
Resolves(c) == c.op = "resolve" => c.subject # None /\ c.member # None

LEMMA ChosenIs == ChosenHere <=> ChosenFits(deposit, tapped) /\ \A c \in calls : Resolves(c)
BY DEF ChosenHere, ChosenFits, Resolves

LEMMA ChosenFrom ==
  ASSUME ChosenFits(deposit', tapped'), \A c \in calls' : Resolves(c)
  PROVE  ChosenHere'
BY DEF ChosenHere, ChosenFits, Resolves

LEMMA NoBoxFits == \A t : ChosenFits(NoBox, t)
BY DEF ChosenFits, NoBox

LEMMA OpenedFits ==
  ASSUME NEW b, NEW t, b.txn \in Deposits,
         b.chosen \in {None, Matched[b.txn]} \cup Named[b.txn]
  PROVE  ChosenFits(b, t)
BY DeskAssumption DEF ChosenFits

LEMMA ChosenStep == TypeInv /\ ChosenHere /\ [Next]_vars => ChosenHere'
<1> SUFFICES ASSUME TypeInv, ChosenHere, [Next]_vars PROVE ChosenHere' OBVIOUS
<1> USE DEF page, box, wait, history
<1>c. ChosenFits(deposit, tapped) /\ \A c \in calls : Resolves(c) BY ChosenIs
<1>b. deposit \in Boxes /\ tapped \subseteq Members BY BoxIs DEF TypeInv, TypeOK
<1>k. ASSUME UNCHANGED <<deposit, tapped>>, \A c \in calls' : c \in calls \/ c.op # "resolve"
      PROVE  ChosenHere'
  BY <1>c, <1>k, ChosenFrom DEF Resolves
<1>1. ASSUME NEW m \in Members, Choose(m) PROVE ChosenHere'
  <2>1. /\ deposit'.txn = deposit.txn /\ deposit'.chosen \in {None, m}
        /\ tapped' = tapped \cup {m} /\ calls' = calls
    BY <1>1, <1>b DEF Choose, Boxes
  <2>2. ChosenFits(deposit', tapped') BY <2>1 DEF ChosenFits
  <2> QED BY <1>c, <2>1, <2>2, ChosenFrom
<1>2. ASSUME NEW d \in Deposits, TapDeposit(d) PROVE ChosenHere'
  <2>1. /\ \/ deposit' = deposit /\ tapped' = tapped
           \/ /\ deposit'.txn = d
              /\ deposit'.chosen \in {None, Matched[d]} \cup Named[d]
        /\ calls' = calls
    BY <1>2, <1>b, OpenDepositType DEF TapDeposit
  <2>2. ChosenFits(deposit', tapped') BY <1>c, <2>1, OpenedFits
  <2> QED BY <1>c, <2>1, <2>2, ChosenFrom
<1>3. CASE CloseDeposit
  <2>1. deposit' = NoBox /\ calls' = calls BY <1>3 DEF CloseDeposit
  <2> QED BY <1>c, <2>1, NoBoxFits, ChosenFrom
<1>4. CASE SubmitDeposit
  <2> DEFINE q == [Request("resolve", deposit.txn, deposit.drawn) EXCEPT !.member = deposit.chosen]
  <2>1. \/ calls' = calls \cup {q} /\ deposit.chosen # None
        \/ calls' = calls
    BY <1>4 DEF SubmitDeposit
  <2>2. deposit.txn # None /\ UNCHANGED <<deposit, tapped>> BY <1>4 DEF SubmitDeposit
  <2>3. q.subject = deposit.txn /\ q.member = deposit.chosen BY DEF Request
  <2> HIDE DEF q
  <2> QED BY <1>c, <2>1, <2>2, <2>3, ChosenFrom DEF Resolves
<1>5. ASSUME NEW op \in Amounts, SubmitForm(op) PROVE ChosenHere'
  <2> DEFINE q == Request(op, target, drawn)
  <2>1. calls' \subseteq calls \cup {q} /\ UNCHANGED <<deposit, tapped>> BY <1>5 DEF SubmitForm
  <2>2. q.op # "resolve" BY DEF Request, Amounts
  <2> HIDE DEF q
  <2> QED BY <1>k, <2>1, <2>2
<1>6. CASE Confirm
  <2> DEFINE q == [Request(dialog.op, Subject(dialog.op), dialog.subject) EXCEPT !.to = dialog.to]
  <2>1. calls' \subseteq calls \cup {q} /\ UNCHANGED <<deposit, tapped>> BY <1>6 DEF Confirm
  <2>2. dialog.op \in Confirmed BY <1>6 DEF Confirm, TypeInv, TypeOK
  <2>3. q.op = dialog.op BY DEF Request
  <2> HIDE DEF q
  <2> QED BY <1>k, <2>1, <2>2, <2>3 DEF Confirmed
<1>7. CASE Dismiss \/ EnterPin \/ Uninvited
  <2>1. UNCHANGED <<deposit, tapped>>
    BY <1>7 DEF Dismiss, EnterPin, Uninvited, Change, Refresh, Expire, FollowLink
  <2>2. \A op, t : Load(op, t).op = op BY DEF Load, Request
  <2>3. CASE Dismiss BY <1>k, <2>1, <2>2, <2>3 DEF Dismiss
  <2>4. CASE EnterPin BY <1>k, <2>1, <2>2, <2>4 DEF EnterPin
  <2>5. CASE Refresh BY <1>k, <2>1, <2>2, <2>5 DEF Refresh, Loads
  <2>6. CASE Change \/ Expire BY <1>k, <2>1, <2>6 DEF Change, Expire
  <2>7. ASSUME NEW s \in Members \cup Deposits, FollowLink(s) PROVE ChosenHere'
    BY <1>k, <2>1, <2>2, <2>7 DEF FollowLink
  <2> QED BY <1>7, <2>3, <2>4, <2>5, <2>6, <2>7 DEF Uninvited
<1>8. ASSUME NEW c \in calls, Serve(c) \/ Lose(c) PROVE ChosenHere'
  <2>1. PICK q : /\ calls' = (calls \ {c}) \cup {q}
                 /\ q.op = c.op /\ q.subject = c.subject /\ q.member = c.member
    BY <1>8, ServeIs, ServedType
  <2>2. UNCHANGED <<deposit, tapped>> BY <1>8, ServeIs
  <2>3. Resolves(q) BY <1>c, <2>1 DEF Resolves
  <2> QED BY <1>c, <2>1, <2>2, <2>3, ChosenFrom
<1>9. ASSUME NEW c \in calls, HearLoad(c) PROVE ChosenHere'
  <2>1. /\ Heard(c).users \in UserLists /\ Heard(c).txns \in TxnLists
        /\ Continue(c, Heard(c).users, Heard(c).txns) /\ calls' \subseteq calls
    BY <1>9, HeardType DEF HearLoad, Rest
  <2> DEFINE s == Shown(c, Heard(c).users, Heard(c).txns)
  <2>2. \/ deposit' = s /\ tapped' = tapped
        \/ /\ deposit'.txn \in Deposits
           /\ deposit'.chosen \in {None, Matched[deposit'.txn]} \cup Named[deposit'.txn]
    BY <2>1, ContinueType
  <2>3. /\ s \in Boxes /\ s.txn \in {deposit.txn, None}
        /\ \/ s.chosen = deposit.chosen
           \/ s.txn # None /\ s.chosen \in Named[s.txn]
    BY <1>b, ShownType
  <2> HIDE DEF s
  <2>4. ChosenFits(s, tapped) BY <1>c, <2>3 DEF ChosenFits, Boxes
  <2>5. ChosenFits(deposit', tapped') BY <2>2, <2>4, OpenedFits
  <2> QED BY <1>c, <2>1, <2>5, ChosenFrom
<1>10. ASSUME NEW c \in calls, HearOk(c) PROVE ChosenHere'
  <2>1. /\ \/ deposit' = deposit /\ tapped' = tapped
           \/ deposit' = NoBox
        /\ \A q \in calls' : q \in calls \/ q.op \in Loads
    BY <1>10, HearOkIs
  <2>2. ChosenFits(deposit', tapped') BY <1>c, <2>1, NoBoxFits
  <2>3. \A q \in calls' : Resolves(q) BY <1>c, <2>1 DEF Resolves, Loads
  <2> QED BY <2>2, <2>3, ChosenFrom
<1>11. ASSUME NEW c \in calls, HearRefused(c) PROVE ChosenHere'
  <2>1. UNCHANGED <<deposit, tapped>> /\ calls' \subseteq calls BY <1>11, HearRefusedIs
  <2> QED BY <1>k, <2>1
<1>12. CASE Leave \/ CloseForm \/ \E op \in Amounts : OpenForm(op)
  <2>1. UNCHANGED <<deposit, tapped, calls>> BY <1>12 DEF Leave, CloseForm, OpenForm
  <2> QED BY <1>k, <2>1
<1>13. CASE \/ \E m \in Members : TapMember(m)
            \/ \E op \in Confirmed \ {"other"} : AskMember(op)
  <2>1. UNCHANGED <<deposit, tapped, calls>> BY <1>13 DEF TapMember, AskMember
  <2> QED BY <1>k, <2>1
<1>14. CASE UNCHANGED vars BY <1>14, <1>k DEF vars
<1> QED BY <1>1, <1>2, <1>3, <1>4, <1>5, <1>6, <1>7, <1>8, <1>9, <1>10, <1>11, <1>12, <1>13,
           <1>14
        DEF Next, Taps, Dialogs, Travel

\* Whatever lists, links and answers come while a deposit's dialog is open, the member
\* it will be credited to bears the depositor's name, was matched by the server or was
\* tapped in this dialog (selectDepositUser, bestDepositCandidate,
\* openDepositDetailModal).
THEOREM CreditedToTheChosen == Spec => []ChosenHere
<1>1. Init => ChosenHere BY DEF Init, ChosenHere, NoBox
<1> QED BY <1>1, TypeAlways, ChosenStep, PTL DEF Spec

-------------------------------------------------------------------------------
(* The card scanner (AdminScanner), for every set of members, cards and    *)
(* codes, and whatever may still happen.                                   *)

CameraType == [n : Nat, stage : {"camera", "play"}]
PutType == [n : Nat, uid : Cards \cup Codes, user : Users, answer : {"none", "ok", "no"}]
Registering == modal.open /\ modal.mode = "REGISTER"

\* TypeOK, and that a card is registered for somebody. (Without it what is registered
\* would not have a member.)
ScanFits ==
  /\ modal \in Sc!ModalType /\ ndef \in {"none", "asked", "on"} /\ cool \subseteq {"nfc", "qr"}
  /\ asking \subseteq CameraType /\ tour \in Sc!TourType /\ puts \subseteq PutType
  /\ reload \in [st : {"none", "asked", "ok"}, rows : SUBSET Sc!RowType]
  /\ cards \subseteq Sc!RowType /\ rows \subseteq Sc!RowType
  /\ presented \subseteq Cards /\ crossed \in BOOLEAN
  /\ Registering => modal.user # None

LEMMA ScanFitsType == ScanFits => Sc!TypeOK
BY DEF ScanFits, Sc!TypeOK, CameraType, PutType

\* What the dialog's helpers leave of a dialog.
LEMMA ModalFields ==
  ASSUME NEW m \in Sc!ModalType
  PROVE  /\ m.open \in BOOLEAN /\ m.mode \in {"SEARCH", "REGISTER"} /\ m.user \in Users \cup {None}
         /\ m.detail \in Users \cup {None} /\ m.uid \in Cards \cup Codes \cup {None}
         /\ Sc!StopCamera(m) \in Sc!ModalType /\ Sc!Close(m) \in Sc!ModalType /\ ~Sc!Close(m).open
         /\ Sc!StopCamera(m).mode = m.mode /\ Sc!StopCamera(m).uid = m.uid /\ Sc!StopCamera(m).open = m.open
         /\ Sc!StopCamera(m).user = m.user /\ Sc!StopCamera(m).sight = m.sight
         /\ Sc!StopCamera(m).native = m.native /\ ~Sc!StopCamera(m).scanning
BY DEF Sc!ModalType, Sc!StopCamera, Sc!Close

LEMMA OpenedFields ==
  ASSUME NEW m \in Sc!ModalType, NEW mode \in {"SEARCH", "REGISTER"}
  PROVE  /\ Sc!Opened(m, mode) \in Sc!ModalType /\ Sc!Opened(m, mode).mode = mode
         /\ Sc!Opened(m, mode).user = IF mode = "SEARCH" THEN None ELSE m.detail
         /\ Sc!Opened(m, mode).uid = None /\ Sc!Opened(m, mode).sight = "NFC"
         /\ ~Sc!Opened(m, mode).native /\ ~Sc!Opened(m, mode).scanning
BY DEF Sc!ModalType, Sc!StopCamera, Sc!Opened

\* A search shows somebody and closes the dialog, or nothing happens.
LEMMA SearchFields ==
  ASSUME NEW m \in Sc!ModalType, cards \subseteq Sc!RowType
  PROVE  Sc!Search(m) \in Sc!ModalType /\ (Sc!Search(m) = m \/ ~Sc!Search(m).open)
<1>1. CASE m.uid = None \/ Sc!Found(m.uid) = {} BY <1>1 DEF Sc!Search
<1>2. CASE ~(m.uid = None \/ Sc!Found(m.uid) = {})
  <2> DEFINE u == CHOOSE u \in Sc!Found(m.uid) : TRUE
  <2>1. u \in Users BY <1>2 DEF Sc!Found, Sc!RowType
  <2>2. Sc!Search(m) = [Sc!Close(m) EXCEPT !.detail = u] BY <1>2 DEF Sc!Search
  <2> HIDE DEF u
  <2>3. \A n \in Sc!ModalType : [n EXCEPT !.detail = u] \in Sc!ModalType /\ [n EXCEPT !.detail = u].open = n.open
    BY <2>1 DEF Sc!ModalType
  <2>4. Sc!Close(m) \in Sc!ModalType /\ ~Sc!Close(m).open BY ModalFields
  <2>5. Sc!Search(m) \in Sc!ModalType /\ Sc!Search(m).open = Sc!Close(m).open BY <2>2, <2>3, <2>4
  <2> QED BY <2>4, <2>5
<1> QED BY <1>1, <1>2

\* What is read goes into the field, or ends a search.
LEMMA DetectedFields ==
  ASSUME NEW m \in Sc!ModalType, NEW uid \in Cards \cup Codes, cards \subseteq Sc!RowType
  PROVE  /\ Sc!Detected(m, uid) \in Sc!ModalType
         /\ Sc!Detected(m, uid) = [m EXCEPT !.uid = uid] \/ ~Sc!Detected(m, uid).open
<1>1. [m EXCEPT !.uid = uid] \in Sc!ModalType BY DEF Sc!ModalType
<1> QED BY <1>1, SearchFields DEF Sc!Detected

LEMMA ScanInit == Sc!ScannerConstants /\ Sc!Init => ScanFits
<1> SUFFICES ASSUME Sc!ScannerConstants, Sc!Init PROVE ScanFits OBVIOUS
<1>1. modal \in Sc!ModalType /\ ~Registering BY DEF Sc!Init, Sc!ModalType, Registering
<1>2. reload \in [st : {"none", "asked", "ok"}, rows : SUBSET Sc!RowType] BY DEF Sc!Init, Sc!NoLoad
<1> QED BY <1>1, <1>2 DEF Sc!Init, ScanFits, Sc!ScannerConstants

LEMMA TourSpent ==
  ASSUME tour \in Sc!TourType, NEW what \in {"opens", "scans", "starts", "puts", "faults"},
         Sc!Spend(what)
  PROVE  tour' \in Sc!TourType
<1>1. tour[what] \in Nat /\ \A n \in Nat : [tour EXCEPT ![what] = n] \in Sc!TourType
  BY DEF Sc!TourType
<1>2. tour[what] - 1 \in Nat BY <1>1 DEF Sc!Spend
<1> QED BY <1>1, <1>2 DEF Sc!Spend

LEMMA ScanStep ==
  ASSUME Sc!ScannerConstants, ScanFits, [Sc!ScanNext]_(Sc!scanVars) PROVE ScanFits'
<1> USE DEF ScanFits
<1>m. modal \in Sc!ModalType OBVIOUS
<1>p. tour.puts \in Nat /\ tour.starts \in Nat BY DEF Sc!TourType
<1>1. ASSUME NEW mode \in {"SEARCH", "REGISTER"}, Sc!Open(mode) PROVE ScanFits'
  <2>1. modal' \in Sc!ModalType /\ modal'.mode = mode
        /\ modal'.user = IF mode = "SEARCH" THEN None ELSE modal.detail
    BY <1>1, OpenedFields DEF Sc!Open
  <2>2. ndef' \in {"none", "asked", "on"} /\ crossed' \in BOOLEAN
    BY <1>1 DEF Sc!Open, Sc!WakeReader, Sc!Crossing
  <2>3. tour' \in Sc!TourType BY <1>1, TourSpent DEF Sc!Open
  <2>4. Registering' => modal'.user # None BY <1>1, <2>1 DEF Sc!Open, Registering
  <2> QED BY <1>1, <2>1, <2>2, <2>3, <2>4 DEF Sc!Open
\* The dialog stays what it is for whoever it is, or closes.
<1>2. ASSUME modal' \in Sc!ModalType,
             ~modal'.open \/ (modal'.mode = modal.mode /\ modal'.user = modal.user /\ modal'.open = modal.open)
      PROVE  Registering' => modal'.user # None
  BY <1>2 DEF Registering
<1>3. ASSUME Sc!SwitchNfc PROVE ScanFits'
  <2>1. \A m \in Sc!ModalType : [m EXCEPT !.sight = "NFC", !.native = FALSE] \in Sc!ModalType
                             /\ [m EXCEPT !.sight = "NFC", !.native = FALSE].mode = m.mode
                             /\ [m EXCEPT !.sight = "NFC", !.native = FALSE].user = m.user
                             /\ [m EXCEPT !.sight = "NFC", !.native = FALSE].open = m.open
    BY DEF Sc!ModalType
  <2>2. Sc!StopCamera(modal) \in Sc!ModalType /\ Sc!StopCamera(modal).mode = modal.mode
        /\ Sc!StopCamera(modal).user = modal.user /\ Sc!StopCamera(modal).open = modal.open
    BY <1>m, ModalFields
  <2>3. modal' = [Sc!StopCamera(modal) EXCEPT !.sight = "NFC", !.native = FALSE] BY <1>3
    DEF Sc!SwitchNfc
  <2>4. modal' \in Sc!ModalType /\ modal'.mode = modal.mode /\ modal'.user = modal.user /\ modal'.open = modal.open
    BY <2>1, <2>2, <2>3
  <2>5. Registering' => modal'.user # None BY <1>2, <2>4
  <2> QED BY <1>3, <2>4, <2>5 DEF Sc!SwitchNfc, Sc!WakeReader, Sc!Crossing
\* The camera is asked for.
<1>4. ASSUME Sc!Start PROVE asking' \subseteq CameraType /\ tour' \in Sc!TourType /\ crossed' \in BOOLEAN
  <2>1. tour' \in Sc!TourType BY <1>4, TourSpent DEF Sc!Start
  <2>2. [n |-> tour.starts, stage |-> "camera"] \in CameraType BY <1>p DEF CameraType
  <2> QED BY <1>4, <2>1, <2>2 DEF Sc!Start
<1>5. ASSUME Sc!SwitchQr PROVE ScanFits'
  <2>1. modal' \in Sc!ModalType /\ modal'.mode = modal.mode /\ modal'.user = modal.user /\ modal'.open = modal.open
    BY <1>5 DEF Sc!SwitchQr, Sc!ModalType, Sc!TourType
  <2>2. Registering' => modal'.user # None BY <1>2, <2>1
  <2>3. asking' \subseteq CameraType /\ tour' \in Sc!TourType /\ crossed' \in BOOLEAN
    BY <1>4, <1>5 DEF Sc!SwitchQr
  <2> QED BY <1>5, <2>1, <2>2, <2>3 DEF Sc!SwitchQr
<1>6. ASSUME Sc!Toggle \/ Sc!Flip PROVE ScanFits'
  <2>1. modal' \in {modal, Sc!StopCamera(modal)} BY <1>6 DEF Sc!Toggle, Sc!Flip
  <2>2. modal' \in Sc!ModalType /\ modal'.mode = modal.mode /\ modal'.user = modal.user /\ modal'.open = modal.open
    BY <1>m, <2>1, ModalFields
  <2>3. Registering' => modal'.user # None BY <1>2, <2>2
  <2>4. asking' \subseteq CameraType /\ tour' \in Sc!TourType /\ crossed' \in BOOLEAN
    BY <1>4, <1>6 DEF Sc!Toggle, Sc!Flip, Sc!Crossing
  <2> QED BY <1>6, <2>2, <2>3, <2>4 DEF Sc!Toggle, Sc!Flip
<1>7. ASSUME Sc!Cancel PROVE ScanFits'
  <2>1. modal' \in Sc!ModalType /\ ~modal'.open BY <1>7, <1>m, ModalFields DEF Sc!Cancel
  <2> QED BY <1>2, <1>7, <2>1 DEF Sc!Cancel, Sc!Crossing
<1>8. ASSUME NEW a \in asking, Sc!Granted(a) PROVE ScanFits'
  <2>1. a.n \in Nat /\ [a EXCEPT !.stage = "play"] \in CameraType BY DEF CameraType
  <2>2. modal' \in Sc!ModalType /\ modal'.mode = modal.mode /\ modal'.user = modal.user /\ modal'.open = modal.open
    BY <1>8, <2>1 DEF Sc!Granted, Sc!ModalType
  <2>3. asking' \subseteq CameraType BY <1>8, <2>1 DEF Sc!Granted
  <2> QED BY <1>2, <1>8, <2>2, <2>3 DEF Sc!Granted
<1>9. ASSUME NEW a \in asking, Sc!Played(a) PROVE ScanFits'
  <2>1. modal' \in Sc!ModalType /\ modal'.mode = modal.mode /\ modal'.user = modal.user /\ modal'.open = modal.open
    BY <1>9 DEF Sc!Played, Sc!ModalType
  <2> QED BY <1>2, <1>9, <2>1 DEF Sc!Played
<1>10. ASSUME NEW a \in asking, Sc!Refused(a) PROVE ScanFits'
  <2>1. tour' \in Sc!TourType BY <1>10, TourSpent DEF Sc!Refused
  <2> QED BY <1>2, <1>10, <2>1 DEF Sc!Refused
<1>11. ASSUME Sc!ReaderStarts PROVE ScanFits'
  <2>1. tour' \in Sc!TourType BY <1>11, TourSpent DEF Sc!ReaderStarts
  <2> QED BY <1>2, <1>11, <2>1 DEF Sc!ReaderStarts
<1>12. ASSUME NEW reader, NEW uid \in Cards \cup Codes, Sc!Read(reader, uid),
              UNCHANGED <<ndef, asking, puts, reload, cards, rows>>,
              cool' \subseteq {"nfc", "qr"}, presented' \subseteq Cards
       PROVE  ScanFits'
  <2>1. modal' \in Sc!ModalType /\ (modal' = [modal EXCEPT !.uid = uid] \/ ~modal'.open)
    BY <1>12, <1>m, DetectedFields DEF Sc!Read
  <2>2. Registering' => modal'.user # None BY <1>m, <2>1 DEF Sc!ModalType, Registering
  <2>3. tour' \in Sc!TourType /\ crossed' \in BOOLEAN BY <1>12, TourSpent DEF Sc!Read
  <2> QED BY <1>12, <2>1, <2>2, <2>3
<1>13. ASSUME NEW c \in Cards, Sc!NdefReading(c) PROVE ScanFits'
  BY <1>12, <1>13 DEF Sc!NdefReading
<1>14. ASSUME NEW c \in Cards, Sc!AppReading(c) PROVE ScanFits'
  BY <1>12, <1>14 DEF Sc!AppReading
<1>15. ASSUME NEW c \in Cards, Sc!HidReading(c) PROVE ScanFits'
  BY <1>12, <1>15 DEF Sc!HidReading
<1>16. ASSUME NEW c \in Codes, Sc!FrameRead(c) \/ Sc!NativeRead(c) PROVE ScanFits'
  BY <1>12, <1>16 DEF Sc!FrameRead, Sc!NativeRead
<1>17. ASSUME NEW reader, Sc!Rested(reader) PROVE ScanFits' BY <1>2, <1>17 DEF Sc!Rested
<1>18. ASSUME Sc!ConfirmSearch PROVE ScanFits'
  <2>1. modal' \in Sc!ModalType /\ ~modal'.open BY <1>18, <1>m, SearchFields DEF Sc!ConfirmSearch
  <2> QED BY <1>2, <1>18, <2>1 DEF Sc!ConfirmSearch, Sc!Crossing
<1>19. ASSUME Sc!Register PROVE ScanFits'
  <2>1. modal.uid \in Cards \cup Codes /\ modal.user \in Users
    BY <1>19, <1>m, ModalFields DEF Sc!Register, Registering
  <2>2. [n |-> tour.puts, uid |-> modal.uid, user |-> modal.user, answer |-> "none"] \in PutType
    BY <1>p, <2>1 DEF PutType
  <2>3. puts' \subseteq PutType BY <1>19, <2>2 DEF Sc!Register
  <2>4. tour' \in Sc!TourType BY <1>19, TourSpent DEF Sc!Register
  <2> QED BY <1>2, <1>19, <2>3, <2>4 DEF Sc!Register
<1>20. ASSUME NEW p \in puts, Sc!ServePut(p) \/ Sc!LosePut(p) \/ Sc!HearPut(p) PROVE ScanFits'
  <2>1. /\ p.uid \in Cards \cup Codes /\ p.user \in Users
        /\ \A a \in {"ok", "no"} : [p EXCEPT !.answer = a] \in PutType
    BY DEF PutType
  <2>2. [uid |-> p.uid, user |-> p.user, type |-> "NFC"] \in Sc!RowType BY <2>1 DEF Sc!RowType
  <2>3. puts' \subseteq PutType BY <1>20, <2>1 DEF Sc!ServePut, Sc!LosePut, Sc!HearPut
  <2>4. rows' \subseteq Sc!RowType BY <1>20, <2>2 DEF Sc!ServePut, Sc!LosePut, Sc!HearPut, Sc!Kept
  <2>5. tour' \in Sc!TourType BY <1>20, TourSpent DEF Sc!ServePut, Sc!LosePut, Sc!HearPut
  <2>6. modal' \in Sc!ModalType /\ (modal' = modal \/ ~modal'.open)
    <3>1. Sc!Close(modal) \in Sc!ModalType /\ ~Sc!Close(modal).open BY <1>m, ModalFields
    <3>2. modal' \in {modal, Sc!Close(modal)} BY <1>20 DEF Sc!ServePut, Sc!LosePut, Sc!HearPut
    <3> QED BY <3>1, <3>2
  <2>7. reload' \in [st : {"none", "asked", "ok"}, rows : SUBSET Sc!RowType] /\ crossed' \in BOOLEAN
    BY <1>20 DEF Sc!ServePut, Sc!LosePut, Sc!HearPut, Sc!NoLoad, Sc!Crossing
  <2>8. Registering' => modal'.user # None BY <1>2, <2>6
  <2> QED BY <1>20, <2>3, <2>4, <2>5, <2>6, <2>7, <2>8 DEF Sc!ServePut, Sc!LosePut, Sc!HearPut
<1>21. ASSUME Sc!CardsEvent \/ Sc!ServeCards \/ Sc!HearCards PROVE ScanFits'
  <2>1. reload' \in [st : {"none", "asked", "ok"}, rows : SUBSET Sc!RowType] /\ cards' \subseteq Sc!RowType
    BY <1>21 DEF Sc!CardsEvent, Sc!ServeCards, Sc!HearCards, Sc!NoLoad
  <2> QED BY <1>2, <1>21, <2>1 DEF Sc!CardsEvent, Sc!ServeCards, Sc!HearCards
<1>22. CASE UNCHANGED Sc!scanVars BY <1>2, <1>22 DEF Sc!scanVars
<1> QED
  BY <1>1, <1>3, <1>5, <1>6, <1>7, <1>8, <1>9, <1>10, <1>11, <1>13, <1>14, <1>15, <1>16, <1>17,
       <1>18,
     <1>19, <1>20, <1>21, <1>22 DEF Sc!ScanNext

\* No camera has been asked for or sees anything in a registration, and its field holds
\* what a contact reader has read since the dialog was opened.
FieldInv ==
  Registering /\ ~crossed =>
    /\ modal.sight = "NFC" /\ ~modal.native /\ ~modal.scanning /\ asking = {}
    /\ modal.uid # None => modal.uid \in presented

LEMMA FieldStep ==
  ASSUME Sc!ScannerConstants, ScanFits, FieldInv, [Sc!ScanNext]_(Sc!scanVars) PROVE FieldInv'
<1>m. modal \in Sc!ModalType BY DEF ScanFits
\* Nothing has been read or opened.
<1>k. ASSUME ~modal'.open \/ modal' = modal, asking' \subseteq asking, presented' = presented,
             crossed' = FALSE => crossed = FALSE
      PROVE  FieldInv'
  BY <1>k DEF FieldInv, Registering, ScanFits
<1>1. ASSUME NEW mode \in {"SEARCH", "REGISTER"}, Sc!Open(mode) PROVE FieldInv'
  <2>1. modal'.uid = None /\ modal'.sight = "NFC" /\ ~modal'.native /\ ~modal'.scanning
    BY <1>1, <1>m, OpenedFields DEF Sc!Open
  <2>2. crossed' = (crossed \/ asking # {}) /\ asking' = asking BY <1>1 DEF Sc!Open, Sc!Crossing
  <2> QED BY <2>1, <2>2 DEF FieldInv
\* In a registration there is nothing to switch, to toggle or to flip.
<1>2. ASSUME Sc!SwitchNfc \/ Sc!Toggle \/ Sc!Flip PROVE FieldInv'
  <2>1. modal.open /\ modal.sight = "QR" BY <1>2 DEF Sc!SwitchNfc, Sc!Toggle, Sc!Flip
  <2>2. crossed' = FALSE => crossed = FALSE BY <1>2
    DEF Sc!SwitchNfc, Sc!Toggle, Sc!Flip, Sc!Start, Sc!Crossing, ScanFits
  <2>3. modal'.mode = modal.mode
    <3>1. Sc!StopCamera(modal) \in Sc!ModalType /\ Sc!StopCamera(modal).mode = modal.mode
      BY <1>m, ModalFields
    <3>2. \A m \in Sc!ModalType : [m EXCEPT !.sight = "NFC", !.native = FALSE].mode = m.mode
      BY DEF Sc!ModalType
    <3> QED BY <1>2, <3>1, <3>2 DEF Sc!SwitchNfc, Sc!Toggle, Sc!Flip
  <2> QED BY <2>1, <2>2, <2>3 DEF FieldInv, Registering, ScanFits
<1>3. ASSUME Sc!SwitchQr PROVE FieldInv'
  <2>1. modal'.mode = "SEARCH" BY <1>3, <1>m DEF Sc!SwitchQr, Sc!ModalType
  <2> QED BY <2>1 DEF FieldInv, Registering
<1>4. ASSUME Sc!Cancel \/ Sc!ConfirmSearch PROVE FieldInv'
  <2>1. ~modal'.open
    <3>1. ~Sc!Close(modal).open BY <1>m, ModalFields
    <3>2. Sc!Search(modal) # modal => ~Sc!Search(modal).open BY <1>m, SearchFields DEF ScanFits
    <3> QED BY <1>4, <3>1, <3>2 DEF Sc!Cancel, Sc!ConfirmSearch
  <2> QED BY <2>1 DEF FieldInv, Registering
\* A camera that starts was asked for.
<1>5. ASSUME NEW a \in asking, Sc!Granted(a) \/ Sc!Played(a) PROVE FieldInv'
  <2>1. modal'.open = modal.open /\ modal'.mode = modal.mode
    BY <1>5, <1>m DEF Sc!Granted, Sc!Played, Sc!ModalType
  <2>2. UNCHANGED crossed BY <1>5 DEF Sc!Granted, Sc!Played
  <2> QED BY <2>1, <2>2 DEF FieldInv, Registering
<1>6. ASSUME NEW a \in asking, Sc!Refused(a) PROVE FieldInv'
  BY <1>k, <1>6 DEF Sc!Refused
<1>7. ASSUME NEW reader, NEW c \in Cards, Sc!Read(reader, c), asking' = asking,
             IF modal.open THEN presented' = presented \cup {c} ELSE presented' = presented
      PROVE  FieldInv'
  <2>1. modal' = [modal EXCEPT !.uid = c] \/ ~modal'.open
    BY <1>7, <1>m, DetectedFields DEF Sc!Read, ScanFits
  <2>2. crossed' = FALSE => crossed = FALSE BY <1>7 DEF Sc!Read, ScanFits
  <2>3. CASE modal' = [modal EXCEPT !.uid = c]
    <3>1. /\ modal'.uid = c /\ modal'.open = modal.open /\ modal'.mode = modal.mode
          /\ modal'.sight = modal.sight /\ modal'.native = modal.native /\ modal'.scanning = modal.scanning
      BY <1>m, <2>3 DEF Sc!ModalType
    <3> QED BY <1>7, <2>2, <3>1 DEF FieldInv, Registering, ScanFits
  <2> QED BY <2>1, <2>3 DEF FieldInv, Registering
<1>8. ASSUME NEW c \in Cards, Sc!NdefReading(c) \/ Sc!AppReading(c) \/ Sc!HidReading(c)
      PROVE  FieldInv'
  BY <1>7, <1>8 DEF Sc!NdefReading, Sc!AppReading, Sc!HidReading
\* A camera sees something, which is not in a registration.
<1>9. ASSUME NEW c \in Codes, Sc!FrameRead(c) \/ Sc!NativeRead(c) PROVE FieldInv'
  <2>1. modal.scanning \/ modal.native BY <1>9 DEF Sc!FrameRead, Sc!NativeRead
  <2>2. modal' = [modal EXCEPT !.uid = c] \/ ~modal'.open
    BY <1>9, <1>m, DetectedFields DEF Sc!FrameRead, Sc!NativeRead, Sc!Read, ScanFits
  <2>3. crossed' = FALSE => crossed = FALSE BY <1>9
    DEF Sc!FrameRead, Sc!NativeRead, Sc!Read, ScanFits
  <2>4. CASE modal' = [modal EXCEPT !.uid = c]
    <3>1. modal'.open = modal.open /\ modal'.mode = modal.mode BY <1>m, <2>4 DEF Sc!ModalType
    <3> QED BY <2>1, <2>3, <3>1 DEF FieldInv, Registering, ScanFits
  <2> QED BY <2>2, <2>4 DEF FieldInv, Registering
<1>10. ASSUME Sc!ReaderStarts \/ Sc!Register \/ Sc!CardsEvent \/ Sc!ServeCards \/ Sc!HearCards PROVE FieldInv'
  BY <1>k, <1>10 DEF Sc!ReaderStarts, Sc!Register, Sc!CardsEvent, Sc!ServeCards, Sc!HearCards
<1>11. ASSUME NEW reader, Sc!Rested(reader) PROVE FieldInv' BY <1>k, <1>11 DEF Sc!Rested
<1>12. ASSUME NEW p \in puts, Sc!ServePut(p) \/ Sc!LosePut(p) \/ Sc!HearPut(p) PROVE FieldInv'
  <2>1. modal' = modal \/ ~modal'.open
    <3>1. ~Sc!Close(modal).open BY <1>m, ModalFields
    <3>2. modal' \in {modal, Sc!Close(modal)} BY <1>12 DEF Sc!ServePut, Sc!LosePut, Sc!HearPut
    <3> QED BY <3>1, <3>2
  <2>2. crossed' = FALSE => crossed = FALSE
    BY <1>12 DEF Sc!ServePut, Sc!LosePut, Sc!HearPut, Sc!Crossing, ScanFits
  <2> QED BY <1>k, <1>12, <2>1, <2>2 DEF Sc!ServePut, Sc!LosePut, Sc!HearPut
<1>13. CASE UNCHANGED Sc!scanVars BY <1>k, <1>13 DEF Sc!scanVars
<1> QED
  BY <1>1, <1>2, <1>3, <1>4, <1>5, <1>6, <1>8, <1>9, <1>10, <1>11, <1>12, <1>13 DEF Sc!ScanNext

\* Only a tap sends a registration.
LEMMA PutStep ==
  ASSUME Sc!ScannerConstants, ScanFits, FieldInv, [Sc!ScanNext]_(Sc!scanVars),
         NEW p \in puts' \ puts, p.answer = "none", ~crossed
  PROVE  p.uid \in presented
<1>1. CASE Sc!Register
  <2>1. p = [n |-> tour.puts, uid |-> modal.uid, user |-> modal.user, answer |-> "none"]
    BY <1>1 DEF Sc!Register
  <2>2. p.uid = modal.uid BY <2>1
  <2> QED BY <1>1, <2>2 DEF Sc!Register, FieldInv, Registering
<1>2. ASSUME NEW q \in puts, Sc!ServePut(q) \/ Sc!LosePut(q) \/ Sc!HearPut(q) PROVE FALSE
  <2>1. \A a \in {"ok", "no"} : [q EXCEPT !.answer = a].answer = a BY DEF ScanFits, PutType
  <2>2. p \in {[q EXCEPT !.answer = "ok"], [q EXCEPT !.answer = "no"]}
    BY <1>2 DEF Sc!ServePut, Sc!LosePut, Sc!HearPut
  <2> QED BY <2>1, <2>2
<1>3. CASE UNCHANGED puts BY <1>3
<1> QED
  BY <1>1, <1>2, <1>3
     DEF Sc!ScanNext, Sc!scanVars, Sc!Open, Sc!SwitchNfc, Sc!SwitchQr, Sc!Toggle, Sc!Flip,
       Sc!Cancel, Sc!ConfirmSearch, Sc!Granted,
         Sc!Played, Sc!Refused, Sc!ReaderStarts, Sc!Rested, Sc!NdefReading, Sc!AppReading,
             Sc!HidReading, Sc!FrameRead,
         Sc!NativeRead, Sc!CardsEvent, Sc!ServeCards, Sc!HearCards

\* What is registered for a member has been presented to a contact reader in the dialog
\* that was opened for him (openScannerModal, handleScannerConfirm), unless a
\* camera was crossed.
THEOREM PresentedToRegister == Sc!ScanSpec => RegistersPresented
<1> Sc!ScannerConstants BY AppAssumption
<1>1. Sc!Init => FieldInv BY DEF Sc!Init, FieldInv, Registering
<1>2. ScanFits /\ FieldInv /\ [Sc!ScanNext]_(Sc!scanVars) =>
        [\A p \in puts' \ puts : p.answer = "none" /\ ~crossed => p.uid \in presented]_(Sc!scanVars)
  BY PutStep
<1> QED BY ScanInit, ScanStep, <1>1, FieldStep, <1>2, PTL DEF Sc!ScanSpec, RegistersPresented, Sc!RegistersPresented

-------------------------------------------------------------------------------
(* What a kiosk offers (KioskSettings), for every catalogue, any number of *)
(* taps, changes elsewhere, faults and signals.                            *)

\* A request: what is put on sale is a product.
KioskRequest ==
  {c \in [op : K!OfPage \cup K!OfKiosk, set : K!Row, product : K!Choices, mine : BOOLEAN,
          answer : {"none", "ok", "refused", "lost"}, list : SUBSET Products] :
     c.op = "sell" => c.product \in Products}

\* What is asked: for the list and the like, with a setting, with a product.
LEMMA Asked ==
  /\ \A op \in K!OfPage \cup K!OfKiosk :
       /\ K!Ask(op).op = op /\ K!Ask(op).answer = "none"
       /\ op # "sell" => K!Ask(op) \in KioskRequest
  /\ \A op \in K!OfPage \cup K!OfKiosk, s \in K!Row :
       /\ K!AskFor(op, s).op = op /\ K!AskFor(op, s).answer = "none"
       /\ K!AskFor(op, s).set = s /\ K!AskFor(op, s).mine
       /\ op # "sell" => K!AskFor(op, s) \in KioskRequest
  /\ \A op \in K!OfPage \cup K!OfKiosk, d \in K!Choices :
       /\ [K!Ask(op) EXCEPT !.product = d].op = op
       /\ op # "sell" \/ d \in Products => [K!Ask(op) EXCEPT !.product = d] \in KioskRequest
BY DEF K!Ask, K!AskFor, KioskRequest, K!Row, K!Choices, K!Blank

\* The operators keep to their types.
LEMMA FlipType ==
  ASSUME NEW S \in SUBSET Products, NEW p \in Products PROVE K!Flip(S, p) \in SUBSET Products
BY DEF K!Flip

LEMMA AmongType ==
  ASSUME NEW d \in K!Choices, NEW S \in SUBSET Products PROVE K!Among(d, S) \in K!Choices
BY DEF K!Among, K!Choices

LEMMA ReplyType ==
  ASSUME NEW c \in KioskRequest, NEW a \in {"none", "ok", "refused", "lost"}
  PROVE  [c EXCEPT !.answer = a] \in KioskRequest
BY DEF KioskRequest

Device == [menu : SUBSET Products, default : K!Choices, products : SUBSET Products]

\* SettingsTypeOK with names for what a request and the kiosk's settings look like, and
\* that a question is asked whenever it is not NoQuestion.
Typed ==
  /\ row \in K!Row /\ sold \subseteq Products /\ entry \in K!Row /\ products \subseteq Products
  /\ screen \in {"tab", "detail", "away"} /\ selected \in BOOLEAN /\ default \in K!Choices
  /\ question \in {"none", "remove", "unsell"} \X K!Choices
  /\ question[1] = "none" => question = K!NoQuestion
  /\ device \in Device /\ ticks \subseteq Products /\ pick \in K!Choices
  /\ requests \subseteq KioskRequest
  /\ news \in [page : Nat, kiosk : Nat] /\ calm \in BOOLEAN /\ orderly \in BOOLEAN

LEMMA TypedFits == Typed => K!SettingsTypeOK
BY DEF Typed, K!SettingsTypeOK, KioskRequest, Device

\* The records and what is made of them.
LEMMA RowType ==
  /\ K!Blank \in K!Row
  /\ \A d \in K!Choices,
      m \in SUBSET Products : [there |-> TRUE, menu |-> m, default |-> d] \in K!Row
  /\ \A r \in K!Row : r.there \in BOOLEAN /\ r.menu \in SUBSET Products /\ r.default \in K!Choices
  /\ \A r \in K!Row, d \in K!Choices, m \in SUBSET Products :
       [r EXCEPT !.menu = m] \in K!Row /\ [r EXCEPT !.default = d] \in K!Row
  /\ \A b \in BOOLEAN : [K!Blank EXCEPT !.there = b] \in K!Row
BY DEF K!Blank, K!Row, K!Choices

LEMMA DeviceType ==
  /\ \A d \in Device :
       d.menu \in SUBSET Products /\ d.default \in K!Choices /\ d.products \in SUBSET Products
  /\ \A d \in Device, m \in SUBSET Products, x \in K!Choices :
       /\ [d EXCEPT !.menu = m, !.default = x] \in Device
       /\ [d EXCEPT !.products = m] \in Device
BY DEF Device

LEMMA KioskRequestType ==
  /\ \A c \in KioskRequest :
       /\ c.op \in K!OfPage \cup K!OfKiosk /\ c.set \in K!Row /\ c.product \in K!Choices
       /\ c.mine \in BOOLEAN /\ c.list \in SUBSET Products
       /\ c.answer \in {"none", "ok", "refused", "lost"}
       /\ \A a \in {"none", "ok", "refused", "lost"} : [c EXCEPT !.answer = a] \in KioskRequest
       /\ \A r \in K!Row, l \in SUBSET Products :
            [c EXCEPT !.answer = "ok", !.set = r, !.list = l] \in KioskRequest
       /\ c.op = "sell" => c.product \in Products
       /\ \A b \in BOOLEAN : [c EXCEPT !.mine = b] \in KioskRequest
BY DEF KioskRequest

LEMMA OrphanedType ==
  ASSUME NEW R \in SUBSET KioskRequest PROVE K!Orphaned(R) \in SUBSET KioskRequest
BY KioskRequestType DEF K!Orphaned

LEMMA ChoiceType ==
  /\ Products \subseteq K!Choices /\ None \in K!Choices
  /\ "save" \in K!OfPage /\ "remove" \in K!OfPage /\ "list" \in K!OfPage /\ "status" \in K!OfPage
  /\ "catalog" \in K!OfPage /\ "sell" \in K!OfPage /\ "unsell" \in K!OfPage
  /\ "sync" \in K!OfKiosk /\ "fetch" \in K!OfKiosk /\ "offer" \in K!OfKiosk
BY DEF K!Choices, K!OfPage, K!OfKiosk

LEMMA HeaderType ==
  ASSUME NEW d \in K!Choices, NEW S \in SUBSET Products, pick \in K!Choices
  PROVE  K!HeaderPick(d, S) \in K!Choices
BY AmongType DEF K!HeaderPick

LEMMA TellType ==
  ASSUME news \in [page : Nat, kiosk : Nat], orderly \in BOOLEAN, \E b : K!Tell(b)
  PROVE  news' \in [page : Nat, kiosk : Nat] /\ orderly' \in BOOLEAN
BY DEF K!Tell

LEMMA TypedStep ==
  ASSUME K!SettingsConstants, Typed, [K!SettingsNext]_(K!settingsVars)
  PROVE  Typed'
<1> USE DEF Typed, K!NoQuestion, K!settingsVars, K!server, K!admin, K!detail, K!kiosk
<1>1. ASSUME K!OpenKioskDetail
     PROVE  Typed'
  <2>1. requests' \subseteq KioskRequest BY <1>1, AmongType, RowType DEF K!OpenKioskDetail
  <2> QED BY <1>1, <2>1, AmongType, RowType DEF K!OpenKioskDetail
<1>2. ASSUME K!LeaveDetail
     PROVE  Typed'
  <2>1. requests' \subseteq KioskRequest BY <1>2, Asked, RowType, ChoiceType
    DEF K!LeaveDetail, K!ToTab
  <2> QED BY <1>2, <2>1, Asked, RowType, ChoiceType DEF K!LeaveDetail, K!ToTab
<1>3. ASSUME K!AskToRemove
     PROVE  Typed'
  <2>1. requests' \subseteq KioskRequest BY <1>3, ChoiceType DEF K!AskToRemove, K!InDetail
  <2> QED BY <1>3, <2>1, ChoiceType DEF K!AskToRemove, K!InDetail
<1>4. ASSUME K!Answered
     PROVE  Typed'
  <2>1. PICK op \in {"none", "remove", "unsell"}, d \in K!Choices : question = <<op, d>>
    BY DEF Typed
  <2>2. op \in {"remove", "unsell"} BY <1>4, <2>1 DEF K!Answered, K!NoQuestion
  <2>3. [K!Ask(op) EXCEPT !.product = d] \in KioskRequest BY <2>2, Asked, ChoiceType
  <2>4. requests' \in {requests, requests \cup {[K!Ask(op) EXCEPT !.product = d]}}
    BY <1>4, <2>1 DEF K!Answered
  <2>5. question' \in {"none", "remove", "unsell"} \X K!Choices BY <1>4, ChoiceType
    DEF K!Answered, K!NoQuestion
  <2> QED BY <1>4, <2>3, <2>4, <2>5 DEF K!Answered
<1>5. ASSUME K!AdminRefresh
     PROVE  Typed'
  <2>1. requests' \subseteq KioskRequest BY <1>5, Asked, ChoiceType DEF K!AdminRefresh
  <2>2. calm' \in BOOLEAN BY <1>5 DEF K!AdminRefresh
  <2>3. news' \in [page : Nat, kiosk : Nat] BY <1>5 DEF K!AdminRefresh
  <2> QED BY <1>5, <2>1, <2>2, <2>3 DEF K!AdminRefresh
<1>6. ASSUME K!Poll
     PROVE  Typed'
  <2>1. requests' \subseteq KioskRequest BY <1>6, Asked, RowType, ChoiceType DEF K!Poll
  <2> QED BY <1>6, <2>1, Asked, RowType, ChoiceType DEF K!Poll
<1>7. ASSUME NEW p \in Products, K!ToggleKioskProduct(p)
     PROVE  Typed'
  <2>1. requests' \subseteq KioskRequest BY <1>7, Asked, RowType, ChoiceType, FlipType
    DEF K!ToggleKioskProduct, K!InDetail, K!AutoSaveKiosk
  <2> QED BY <1>7, <2>1, Asked, RowType, ChoiceType, FlipType
    DEF K!ToggleKioskProduct, K!InDetail, K!AutoSaveKiosk
<1>8. ASSUME NEW p \in Products, K!SaveMenuAdd(p)
     PROVE  Typed'
  <2>1. requests' = requests \cup {[K!Ask("sell") EXCEPT !.product = p]} BY <1>8 DEF K!SaveMenuAdd
  <2>2. [K!Ask("sell") EXCEPT !.product = p] \in KioskRequest BY Asked, ChoiceType
  <2> QED BY <1>8, <2>1, <2>2 DEF K!SaveMenuAdd
<1>9. ASSUME NEW d \in K!Choices, K!ChooseDefault(d)
     PROVE  Typed'
  <2>1. requests' \subseteq KioskRequest BY <1>9, Asked, RowType, ChoiceType
    DEF K!ChooseDefault, K!InDetail, K!AutoSaveKiosk
  <2> QED BY <1>9, <2>1, Asked, RowType, ChoiceType DEF K!ChooseDefault, K!InDetail, K!AutoSaveKiosk
<1>10. ASSUME K!HandleKioskMenuRefresh
     PROVE  Typed'
  <2>1. requests' \subseteq KioskRequest BY <1>10, Asked, RowType, ChoiceType
    DEF K!HandleKioskMenuRefresh
  <2> QED BY <1>10, <2>1, Asked, RowType, ChoiceType DEF K!HandleKioskMenuRefresh
<1>11. ASSUME NEW p \in Products, K!ToggleKioskAssignedProduct(p)
     PROVE  Typed'
  <2>1. ticks' \in SUBSET Products /\ ticks' = K!Flip(ticks, p)
    BY <1>11, FlipType DEF K!ToggleKioskAssignedProduct
  <2>2. [there |-> TRUE, menu |-> ticks', default |-> pick] \in K!Row BY <2>1, RowType
  <2>3. K!AskFor("sync", [there |-> TRUE, menu |-> ticks', default |-> pick]) \in KioskRequest
    BY <2>2, Asked, ChoiceType
  <2>4. requests' \subseteq KioskRequest
    BY <1>11, <2>3 DEF K!ToggleKioskAssignedProduct, K!SaveKioskDeviceSettings
  <2> QED BY <1>11, <2>1, <2>4 DEF K!ToggleKioskAssignedProduct, K!SaveKioskDeviceSettings
<1>12. ASSUME NEW d \in K!Choices, K!PickDefault(d)
     PROVE  Typed'
  <2>1. [there |-> TRUE, menu |-> ticks, default |-> d] \in K!Row BY RowType
  <2>2. K!AskFor("sync", [there |-> TRUE, menu |-> ticks, default |-> d]) \in KioskRequest
    BY <2>1, Asked, ChoiceType
  <2>3. requests' \subseteq KioskRequest BY <1>12, <2>2 DEF K!PickDefault, K!SaveKioskDeviceSettings
  <2> QED BY <1>12, <2>3 DEF K!PickDefault, K!SaveKioskDeviceSettings
<1>13. ASSUME NEW c \in requests, K!ServeKiosk(c)
     PROVE  Typed'
  <2>1. requests' \subseteq KioskRequest BY <1>13, TellType, RowType, KioskRequestType
    DEF K!ServeKiosk, K!Reply
  <2> QED BY <1>13, <2>1, TellType, RowType, KioskRequestType DEF K!ServeKiosk, K!Reply
<1>14. ASSUME NEW c \in requests, K!ServeProduct(c)
     PROVE  Typed'
  <2>1. requests' \subseteq KioskRequest BY <1>14, KioskRequestType DEF K!ServeProduct, K!Reply
  <2>2. sold' \subseteq Products BY <1>14, KioskRequestType DEF K!ServeProduct
  <2>3. news' \in [page : Nat, kiosk : Nat] /\ orderly' \in BOOLEAN
    BY <1>14, TellType DEF K!ServeProduct
  <2> QED BY <1>14, <2>1, <2>2, <2>3 DEF K!ServeProduct
<1>15. ASSUME NEW c \in requests, K!ServeSync(c)
     PROVE  Typed'
  <2>1. requests' \subseteq KioskRequest BY <1>15, RowType, KioskRequestType
    DEF K!ServeSync, K!Reply
  <2> QED BY <1>15, <2>1, RowType, KioskRequestType DEF K!ServeSync, K!Reply
<1>16. ASSUME NEW c \in requests, K!ServeRead(c)
     PROVE  Typed'
  <2> DEFINE s == IF c.op \in {"list", "fetch"} THEN row
                  ELSE IF c.op = "status" THEN [K!Blank EXCEPT !.there = row.there] ELSE K!Blank
             l == IF c.op \in {"catalog", "offer"} THEN sold ELSE {}
  <2>1. s \in K!Row /\ l \in SUBSET Products BY RowType
  <2>2. [c EXCEPT !.answer = "ok", !.set = s, !.list = l] \in KioskRequest BY <2>1, KioskRequestType
  <2>3. requests' = (requests \ {c}) \cup {[c EXCEPT !.answer = "ok", !.set = s, !.list = l]}
    BY <1>16 DEF K!ServeRead
  <2> QED BY <1>16, <2>2, <2>3 DEF K!ServeRead
<1>17. ASSUME NEW c \in requests, K!LoseRequest(c)
     PROVE  Typed'
  <2>1. requests' \subseteq KioskRequest BY <1>17, KioskRequestType DEF K!LoseRequest, K!Reply
  <2> QED BY <1>17, <2>1, KioskRequestType DEF K!LoseRequest, K!Reply
<1>18. ASSUME NEW c \in requests, K!HearSave(c)
     PROVE  Typed'
  <2>1. requests' \subseteq KioskRequest BY <1>18, RowType, KioskRequestType
    DEF K!HearSave, K!Without, K!Ok
  <2> QED BY <1>18, <2>1, RowType, KioskRequestType DEF K!HearSave, K!Without, K!Ok
<1>19. ASSUME NEW c \in requests, K!HearList(c)
     PROVE  Typed'
  <2>1. c.set \in K!Row BY KioskRequestType
  <2>2. K!Without(c) \subseteq KioskRequest BY DEF K!Without
  <2>3. K!Orphaned(K!Without(c)) \subseteq KioskRequest BY <2>2, OrphanedType
  <2>4. requests' \subseteq KioskRequest BY <1>19, <2>2, <2>3, Asked, ChoiceType
    DEF K!HearList, K!ToTab
  <2>5. default' \in K!Choices BY <1>19, <2>1, RowType, AmongType DEF K!HearList
  <2>6. entry' \in K!Row BY <1>19, <2>1 DEF K!HearList
  <2>7. calm' \in BOOLEAN /\ screen' \in {"tab", "detail", "away"} /\ selected' \in BOOLEAN
    BY <1>19 DEF K!HearList, K!ToTab
  <2> QED BY <1>19, <2>4, <2>5, <2>6, <2>7 DEF K!HearList
<1>20. ASSUME NEW c \in requests, K!HearStatus(c)
     PROVE  Typed'
  <2>1. requests' \subseteq KioskRequest BY <1>20, Asked, ChoiceType DEF K!HearStatus, K!Without
  <2>2. default' \in K!Choices BY <1>20, RowType, AmongType DEF K!HearStatus
  <2>3. calm' \in BOOLEAN BY <1>20 DEF K!HearStatus
  <2> QED BY <1>20, <2>1, <2>2, <2>3 DEF K!HearStatus
<1>21. ASSUME NEW c \in requests, K!HearCatalog(c)
     PROVE  Typed'
  <2>1. requests' \subseteq KioskRequest BY <1>21, RowType, KioskRequestType, AmongType
    DEF K!HearCatalog, K!Without, K!Ok
  <2> QED BY <1>21, <2>1, RowType, KioskRequestType, AmongType DEF K!HearCatalog, K!Without, K!Ok
<1>22. ASSUME NEW c \in requests, K!HearChange(c)
     PROVE  Typed'
  <2>1. requests' \subseteq KioskRequest BY <1>22, Asked, RowType, ChoiceType
    DEF K!HearChange, K!Without, K!Ok, K!ToTab
  <2> QED BY <1>22, <2>1, Asked, RowType, ChoiceType DEF K!HearChange, K!Without, K!Ok, K!ToTab
<1>23. ASSUME NEW c \in requests, K!HearSync(c)
     PROVE  Typed'
  <2>1. c.set.menu \in SUBSET Products /\ c.set.default \in K!Choices BY KioskRequestType, RowType
  <2>2. requests' \subseteq KioskRequest BY <1>23 DEF K!HearSync, K!Without
  <2>3. device' \in Device 
    <3>1. [device EXCEPT !.menu = c.set.menu, !.default = c.set.default] \in Device
      BY <2>1, DeviceType
    <3> QED BY <1>23, <3>1 DEF K!HearSync
  <2>4. K!HeaderPick(c.set.default, device.products) \in K!Choices BY <2>1, DeviceType, HeaderType
  <2>5. pick' \in K!Choices /\ orderly' \in BOOLEAN BY <1>23, <2>4 DEF K!HearSync
  <2> QED BY <1>23, <2>2, <2>3, <2>5 DEF K!HearSync
<1>24. ASSUME NEW c \in requests, K!HearFetch(c)
     PROVE  Typed'
  <2>1. c.set.menu \in SUBSET Products /\ c.set.default \in K!Choices BY KioskRequestType, RowType
  <2>2. requests' \subseteq KioskRequest BY <1>24, Asked, ChoiceType DEF K!HearFetch, K!Without
  <2>3. device' \in Device 
    <3>1. [device EXCEPT !.menu = c.set.menu, !.default = c.set.default] \in Device
      BY <2>1, DeviceType
    <3> QED BY <1>24, <3>1 DEF K!HearFetch
  <2>4. K!HeaderPick(c.set.default, device.products) \in K!Choices BY <2>1, DeviceType, HeaderType
  <2>5. pick' \in K!Choices /\ orderly' \in BOOLEAN BY <1>24, <2>4 DEF K!HearFetch
  <2> QED BY <1>24, <2>2, <2>3, <2>5 DEF K!HearFetch
<1>25. ASSUME NEW c \in requests, K!HearOffer(c)
     PROVE  Typed'
  <2>1. c.list \in SUBSET Products BY KioskRequestType
  <2>2. requests' \subseteq KioskRequest BY <1>25 DEF K!HearOffer, K!Without
  <2>3. device' \in Device BY <1>25, <2>1, DeviceType DEF K!HearOffer
  <2>4. K!Among(device.default, c.list) \in K!Choices BY <2>1, DeviceType, AmongType
  <2>5. pick' \in K!Choices /\ orderly' \in BOOLEAN /\ ticks' \subseteq Products
    BY <1>25, <2>1, <2>4 DEF K!HearOffer
  <2> QED BY <1>25, <2>2, <2>3, <2>5 DEF K!HearOffer
<1>26. ASSUME K!Elsewhere
     PROVE  Typed'
  <2>1. \A p \in Products : K!Flip(sold, p) \in SUBSET Products /\ K!Flip(row.menu, p) \in SUBSET Products
    BY RowType, FlipType
  <2>2. \A d \in sold \cup {None} : [row EXCEPT !.default = d] \in K!Row BY RowType, ChoiceType
  <2>3. \A p \in sold : [row EXCEPT !.menu = K!Flip(row.menu, p)] \in K!Row BY <2>1, RowType
  <2>4. row' \in K!Row /\ sold' \subseteq Products BY <1>26, <2>1, <2>2, <2>3, RowType
    DEF K!Elsewhere
  <2>5. news' \in [page : Nat, kiosk : Nat] /\ orderly' \in BOOLEAN BY <1>26, TellType
    DEF K!Elsewhere
  <2> QED BY <1>26, <2>4, <2>5 DEF K!Elsewhere
<1>27. CASE UNCHANGED K!settingsVars BY <1>27
<1> QED
  BY <1>1, <1>2, <1>3, <1>4, <1>5, <1>6, <1>7, <1>8, <1>9, <1>10, <1>11, <1>12, <1>13, <1>14,
       <1>15, <1>16, <1>17, <1>18, <1>19, <1>20, <1>21, <1>22, <1>23, <1>24, <1>25, <1>26, <1>27
     DEF K!SettingsNext, K!ByAdmin, K!ByKiosk, K!Traffic

LEMMA TypedInit == K!SettingsConstants /\ K!Init => Typed
<1> SUFFICES ASSUME K!SettingsConstants, K!Init PROVE Typed OBVIOUS
<1>1. PICK m \in SUBSET OnSale : row = [there |-> TRUE, menu |-> m, default |-> None] BY DEF K!Init
<1>2. row \in K!Row /\ row.menu = m BY <1>1, RowType, ChoiceType DEF K!SettingsConstants
<1>3. device \in Device /\ ticks \subseteq Products
  BY <1>2, ChoiceType DEF K!Init, Device, K!SettingsConstants
<1> QED BY <1>2, <1>3, ChoiceType DEF K!Init, Typed, K!SettingsConstants, K!NoQuestion

\* The type invariant: what the page and the kiosk ask, show and save is of the types
\* above (admin.js, kiosk.js, kiosk_devices in models.py).
THEOREM SettingsTypeCorrect == K!SettingsSpec => []K!SettingsTypeOK
<1> K!SettingsConstants BY AppAssumption
<1> QED BY TypedInit, TypedStep, TypedFits, PTL DEF K!SettingsSpec

-------------------------------------------------------------------------------
\* A save, or a load of the list.
Works(c) == c.op \in {"save", "list"}

OneAtWork == \A c, d \in requests : Works(c) /\ Works(d) => c = d
AtRest ==
  ~K!Busy(requests) /\ row.there => entry = row /\ (selected => default = K!Among(row.default, products))
\* What a save on its way says is what the page shows, and what the server has taken.
SaveFits(c) ==
  /\ screen # "tab" /\ selected /\ c.mine /\ c.set.there /\ entry.there
  /\ entry.menu = c.set.menu /\ default = c.set.default /\ default \in products \cup {None}
  /\ K!Ok(c) /\ row.there => row = c.set
ListFits(c) == K!Ok(c) /\ row.there => c.set = row

CalmInv ==
  calm =>
    /\ OneAtWork /\ AtRest
    /\ \A c \in requests : (c.op = "save" => SaveFits(c)) /\ (c.op = "list" => ListFits(c))

shown == <<row, entry, products, screen, selected, default>>

\* A step of something else.
LEMMA CalmKept ==
  ASSUME CalmInv, calm' => calm, UNCHANGED shown,
         \A c : Works(c) => (c \in requests' <=> c \in requests)
  PROVE  CalmInv'
BY DEF CalmInv, OneAtWork, AtRest, SaveFits, ListFits, Works, K!Busy, K!Ok, shown

\* The list is asked for.
LEMMA ListAsked ==
  ASSUME NEW R, requests' = R \cup {K!Ask("list")}, calm' = ~K!Busy(R)
  PROVE  CalmInv'
<1> SUFFICES ASSUME ~K!Busy(R)
             PROVE  /\ OneAtWork' /\ AtRest'
                    /\ \A c \in requests' : (c.op = "save" => SaveFits(c)') /\ (c.op = "list" => ListFits(c)')
  BY DEF CalmInv
<1>1. \A c \in requests' : Works(c) => c = K!Ask("list") BY DEF K!Busy, Works
<1>2. K!Ask("list").op = "list" /\ K!Ask("list").answer = "none" BY Asked, ChoiceType
<1>3. OneAtWork' BY <1>1 DEF OneAtWork, Works
<1>4. AtRest' BY <1>2 DEF AtRest, K!Busy
<1>5. ASSUME NEW c \in requests' PROVE (c.op = "save" => SaveFits(c)') /\ (c.op = "list" => ListFits(c)')
  BY <1>1, <1>2 DEF Works, ListFits, K!Ok
<1> QED BY <1>3, <1>4, <1>5

\* A save is asked for.
LEMMA SaveAsked ==
  ASSUME Typed, CalmInv, NEW m \in SUBSET Products, NEW d \in products \cup {None},
         requests' = requests \cup {K!AskFor("save", [there |-> TRUE, menu |-> m, default |-> d])},
         calm' = (calm /\ ~K!Busy(requests)), entry'.there, entry'.menu = m, default' = d,
         screen = "detail", selected, UNCHANGED <<row, products, screen, selected>>
  PROVE  CalmInv'
<1> SUFFICES ASSUME calm, ~K!Busy(requests)
             PROVE  /\ OneAtWork' /\ AtRest'
                    /\ \A c \in requests' : (c.op = "save" => SaveFits(c)') /\ (c.op = "list" => ListFits(c)')
  BY DEF CalmInv
<1> DEFINE s == [there |-> TRUE, menu |-> m, default |-> d]  a == K!AskFor("save", s)
<1>0. s \in K!Row BY RowType, ChoiceType DEF Typed
<1>1. \A c \in requests' : Works(c) => c = a BY DEF K!Busy, Works
<1>2. a.op = "save" /\ a.answer = "none" /\ a.set = s /\ a.mine BY <1>0, Asked, ChoiceType
<1>3. OneAtWork' BY <1>1 DEF OneAtWork, Works
<1>4. AtRest' BY <1>2 DEF AtRest, K!Busy
<1>5. SaveFits(a)' BY <1>2 DEF SaveFits, K!Ok
<1> QED BY <1>1, <1>2, <1>3, <1>4, <1>5 DEF Works

\* The one at work is heard or lost, and nothing is asked.
LEMMA WorkDone ==
  ASSUME CalmInv, calm, NEW c \in requests, Works(c)
  PROVE  ~K!Busy(requests \ {c}) /\ \A d \in requests \ {c} : ~Works(d)
BY DEF CalmInv, OneAtWork, K!Busy, Works

\* Nothing is at work.
LEMMA CalmAtRest ==
  ASSUME ~K!Busy(requests'), calm' => AtRest' PROVE CalmInv'
BY DEF CalmInv, OneAtWork, Works, K!Busy

\* The default that an open detail shows is among the products it offers.
FormOffered == selected => default \in products \cup {None}

LEMMA FormStep ==
  ASSUME FormOffered, [K!SettingsNext]_(K!settingsVars) PROVE FormOffered'
<1> USE DEF FormOffered, K!settingsVars, K!server, K!admin, K!detail, K!kiosk
<1>1. \A d, S : K!Among(d, S) \in S \cup {None} BY DEF K!Among
<1>2. ASSUME K!OpenKioskDetail PROVE FormOffered' BY <1>1, <1>2 DEF K!OpenKioskDetail
<1>3. ASSUME K!LeaveDetail PROVE FormOffered' BY <1>3 DEF K!LeaveDetail
<1>4. ASSUME NEW d, K!ChooseDefault(d) PROVE FormOffered' BY <1>4 DEF K!ChooseDefault
<1>5. ASSUME NEW c, K!HearList(c) PROVE FormOffered' BY <1>1, <1>5 DEF K!HearList
<1>6. ASSUME NEW c, K!HearStatus(c) PROVE FormOffered' BY <1>1, <1>6 DEF K!HearStatus
<1>7. ASSUME NEW c, K!HearCatalog(c) PROVE FormOffered' BY <1>1, <1>7 DEF K!HearCatalog
<1>8. ASSUME NEW c, K!HearChange(c) PROVE FormOffered' BY <1>8 DEF K!HearChange
<1>9. CASE UNCHANGED <<products, selected, default>> BY <1>9
<1>10. ASSUME K!ByAdmin PROVE FormOffered'
  BY <1>2, <1>3, <1>4, <1>9, <1>10
     DEF K!ByAdmin, K!AskToRemove, K!Answered, K!AdminRefresh, K!Poll, K!ToggleKioskProduct,
       K!SaveMenuAdd
<1>11. ASSUME K!ByKiosk PROVE FormOffered'
  BY <1>9, <1>11 DEF K!ByKiosk, K!HandleKioskMenuRefresh, K!ToggleKioskAssignedProduct,
       K!PickDefault
<1>12. ASSUME K!Traffic PROVE FormOffered'
  BY <1>5, <1>6, <1>7, <1>8, <1>9, <1>12
     DEF K!Traffic, K!ServeKiosk, K!ServeProduct, K!ServeSync, K!ServeRead, K!LoseRequest,
       K!HearSave, K!HearSync,
         K!HearFetch, K!HearOffer
<1>13. ASSUME K!Elsewhere PROVE FormOffered' BY <1>9, <1>13 DEF K!Elsewhere
<1> QED BY <1>9, <1>10, <1>11, <1>12, <1>13 DEF K!SettingsNext

LEMMA CalmStep ==
  ASSUME K!SettingsConstants, Typed, FormOffered, CalmInv, [K!SettingsNext]_(K!settingsVars)
  PROVE  CalmInv'
<1> USE DEF K!settingsVars, K!server, K!admin, K!detail, K!kiosk
<1>t. requests \subseteq KioskRequest BY DEF Typed
<1>1. ASSUME K!OpenKioskDetail PROVE CalmInv'
  <2>1. \A c \in requests : c.op = "save" => ~calm BY <1>1 DEF K!OpenKioskDetail, CalmInv, SaveFits
  <2>2. calm' => AtRest' BY <1>1 DEF K!OpenKioskDetail, CalmInv, AtRest
  <2>3. calm' => OneAtWork' BY <1>1 DEF K!OpenKioskDetail, CalmInv, OneAtWork
  <2>4. calm' => \A c \in requests : c.op = "list" => ListFits(c)'
    BY <1>1 DEF K!OpenKioskDetail, CalmInv, ListFits, K!Ok
  <2> QED BY <1>1, <2>1, <2>2, <2>3, <2>4 DEF K!OpenKioskDetail, CalmInv
<1>2. ASSUME K!LeaveDetail PROVE CalmInv'
  <2>1. CASE screen # "tab" /\ K!ToTab(requests) BY <2>1, ListAsked DEF K!ToTab
  <2>2. CASE ~ (screen # "tab" /\ K!ToTab(requests))
    <3>1. screen' = "away" /\ UNCHANGED <<row, entry, products, selected, default, requests, calm>>
      BY <1>2, <2>2 DEF K!LeaveDetail
    <3> QED BY <3>1 DEF CalmInv, OneAtWork, AtRest, SaveFits, ListFits, K!Ok
  <2> QED BY <2>1, <2>2
<1>3. ASSUME K!AskToRemove PROVE CalmInv' BY <1>3, CalmKept DEF K!AskToRemove, shown
<1>4. ASSUME K!Answered PROVE CalmInv'
  <2>1. PICK op \in {"none", "remove", "unsell"}, d \in K!Choices : question = <<op, d>>
    BY DEF Typed
  <2>2. op \in {"remove", "unsell"} BY <1>4, <2>1 DEF K!Answered, K!NoQuestion, Typed
  <2>3. ~Works([K!Ask(op) EXCEPT !.product = d]) BY <2>2, Asked, ChoiceType DEF Works
  <2>4. requests' \in {requests, requests \cup {[K!Ask(op) EXCEPT !.product = d]}}
    BY <1>4, <2>1 DEF K!Answered
  <2> QED BY <1>4, <2>3, <2>4, CalmKept DEF K!Answered, shown
<1>5. ASSUME K!AdminRefresh PROVE CalmInv'
  <2>1. CASE screen = "tab" BY <1>5, <2>1, ListAsked DEF K!AdminRefresh
  <2>2. CASE screen # "tab"
    <3>1. ~Works(K!Ask("status")) BY Asked, ChoiceType DEF Works
    <3> QED BY <1>5, <2>2, <3>1, CalmKept DEF K!AdminRefresh, shown
  <2> QED BY <2>1, <2>2
<1>6. ASSUME K!Poll PROVE CalmInv'
  <2>1. ~Works(K!Ask("status")) BY Asked, ChoiceType DEF Works
  <2> QED BY <1>6, <2>1, CalmKept DEF K!Poll, shown
<1>7. ASSUME NEW p \in Products, K!ToggleKioskProduct(p) PROVE CalmInv'
  <2>1. entry'.there /\ entry'.menu \in SUBSET Products
    BY <1>7, RowType, FlipType DEF K!ToggleKioskProduct, K!InDetail, Typed, K!Row
  <2> QED BY <1>7, <2>1, SaveAsked
    DEF K!ToggleKioskProduct, K!InDetail, K!AutoSaveKiosk, FormOffered
<1>8. ASSUME NEW p \in Products, K!SaveMenuAdd(p) PROVE CalmInv'
  <2>1. ~Works([K!Ask("sell") EXCEPT !.product = p]) BY Asked, ChoiceType DEF Works
  <2> QED BY <1>8, <2>1, CalmKept DEF K!SaveMenuAdd, shown
<1>9. ASSUME NEW d \in K!Choices, K!ChooseDefault(d) PROVE CalmInv'
  <2>1. entry.menu \in SUBSET Products BY RowType DEF Typed
  <2> QED BY <1>9, <2>1, SaveAsked DEF K!ChooseDefault, K!InDetail, K!AutoSaveKiosk
<1>10. ASSUME K!HandleKioskMenuRefresh PROVE CalmInv'
  <2>1. ~Works(K!Ask("fetch")) BY Asked, ChoiceType DEF Works
  <2> QED BY <1>10, <2>1, CalmKept DEF K!HandleKioskMenuRefresh, shown
<1>11. ASSUME NEW m \in SUBSET Products, NEW d \in K!Choices, K!SaveKioskDeviceSettings(m, d),
              UNCHANGED <<shown, calm>>
       PROVE  CalmInv'
  <2>1. [there |-> TRUE, menu |-> m, default |-> d] \in K!Row BY RowType
  <2>2. ~Works(K!AskFor("sync", [there |-> TRUE, menu |-> m, default |-> d]))
    BY <2>1, Asked, ChoiceType DEF Works
  <2> QED BY <1>11, <2>2, CalmKept DEF K!SaveKioskDeviceSettings
<1>12. ASSUME NEW p \in Products, K!ToggleKioskAssignedProduct(p) PROVE CalmInv'
  <2>1. ticks' \in SUBSET Products BY <1>12, FlipType DEF K!ToggleKioskAssignedProduct, Typed
  <2> QED BY <1>11, <1>12, <2>1 DEF K!ToggleKioskAssignedProduct, Typed, shown
<1>13. ASSUME NEW d \in K!Choices, K!PickDefault(d) PROVE CalmInv'
  BY <1>11, <1>13 DEF K!PickDefault, Typed, shown
<1>14. ASSUME NEW c \in requests, K!ServeKiosk(c) PROVE CalmInv'
  <2>1. \E a \in {"ok", "refused"} :
          /\ requests' = (requests \ {c}) \cup {[c EXCEPT !.answer = a]}
          /\ a = "refused" => row' = row
          /\ a = "ok" => row' = IF c.op = "save" THEN c.set ELSE K!Blank
    BY <1>14 DEF K!ServeKiosk, K!Reply
  <2>2. PICK a \in {"ok", "refused"} :
          /\ requests' = (requests \ {c}) \cup {[c EXCEPT !.answer = a]}
          /\ a = "refused" => row' = row
          /\ a = "ok" => row' = IF c.op = "save" THEN c.set ELSE K!Blank
    BY <2>1
  <2> DEFINE n == [c EXCEPT !.answer = a]
  <2>3. n.op = c.op /\ n.set = c.set /\ n.mine = c.mine /\ n.answer = a /\ c.op \in {"save", "remove"}
    BY <1>14, <1>t DEF KioskRequest, K!ServeKiosk
  <2>4. UNCHANGED <<entry, products, screen, selected, default, calm>> BY <1>14 DEF K!ServeKiosk
  <2>5. K!Blank.there = FALSE BY DEF K!Blank
  <2> SUFFICES ASSUME calm
               PROVE  /\ OneAtWork' /\ AtRest'
                      /\ \A d \in requests' : (d.op = "save" => SaveFits(d)') /\ (d.op = "list" => ListFits(d)')
    BY <2>4 DEF CalmInv
  <2>6. CASE c.op = "save"
    <3>1. \A d \in requests \ {c} : ~Works(d) BY <2>6, WorkDone DEF Works
    <3>2. OneAtWork' BY <2>2, <2>3, <3>1 DEF OneAtWork
    <3>3. AtRest' BY <2>2, <2>3, <2>6 DEF AtRest, K!Busy
    <3>4. SaveFits(n)' BY <2>2, <2>3, <2>4, <2>6 DEF CalmInv, SaveFits, K!Ok
    <3> QED BY <2>2, <2>3, <2>6, <3>1, <3>2, <3>3, <3>4 DEF Works
  <2>7. CASE c.op = "remove"
    <3>1. ~Works(c) /\ ~Works(n) BY <2>3, <2>7 DEF Works
    <3>2. \A d : Works(d) => (d \in requests' <=> d \in requests) BY <2>2, <3>1
    <3>3. CASE a = "refused"
      <4>1. CalmInv' BY <2>2, <2>4, <3>2, <3>3, CalmKept DEF shown
      <4> QED BY <2>4, <4>1 DEF CalmInv
    <3>4. CASE a = "ok"
      <4>1. ~row'.there BY <2>2, <2>5, <2>7, <3>4
      <4>2. OneAtWork' BY <3>2 DEF CalmInv, OneAtWork
      <4>3. AtRest' BY <4>1 DEF AtRest
      <4>4. ASSUME NEW d \in requests' 
            PROVE  (d.op = "save" => SaveFits(d)') /\ (d.op = "list" => ListFits(d)')
        BY <2>4, <3>2, <4>1 DEF CalmInv, SaveFits, ListFits, Works
      <4> QED BY <4>2, <4>3, <4>4
    <3> QED BY <3>3, <3>4
  <2> QED BY <2>3, <2>6, <2>7
<1>15. ASSUME NEW c \in requests, K!ServeProduct(c) PROVE CalmInv'
  <2>1. ~Works(c) /\ ~Works([c EXCEPT !.answer = "ok"]) BY <1>15, <1>t
    DEF K!ServeProduct, Works, KioskRequest
  <2> QED BY <1>15, <2>1, CalmKept DEF K!ServeProduct, K!Reply, shown
<1>16. ASSUME NEW c \in requests, K!ServeSync(c) PROVE CalmInv' BY <1>16 DEF K!ServeSync, CalmInv
<1>17. ASSUME NEW c \in requests, K!ServeRead(c) PROVE CalmInv'
  <2> DEFINE s == IF c.op \in {"list", "fetch"} THEN row
                  ELSE IF c.op = "status" THEN [K!Blank EXCEPT !.there = row.there] ELSE K!Blank
             l == IF c.op \in {"catalog", "offer"} THEN sold ELSE {}
             n == [c EXCEPT !.answer = "ok", !.set = s, !.list = l]
  <2>1. n.op = c.op /\ n.set = s /\ n.answer = "ok" BY <1>17, <1>t DEF KioskRequest
  <2>2. requests' = (requests \ {c}) \cup {n} /\ UNCHANGED <<shown, calm>> BY <1>17
    DEF K!ServeRead, shown
  <2>3. CASE ~Works(c) BY <2>1, <2>2, <2>3, CalmKept DEF Works
  <2>4. CASE Works(c)
    <3> SUFFICES ASSUME calm
                 PROVE  /\ OneAtWork' /\ AtRest'
                        /\ \A d \in requests' : (d.op = "save" => SaveFits(d)') /\ (d.op = "list" => ListFits(d)')
      BY <2>2 DEF CalmInv
    <3>1. c.op = "list" /\ s = row BY <1>17, <2>4 DEF K!ServeRead, Works
    <3> HIDE DEF n, s, l
    <3>2. \A d \in requests \ {c} : ~Works(d) BY <2>4, WorkDone
    <3>3. OneAtWork' BY <2>2, <3>2 DEF OneAtWork
    <3>4. AtRest' BY <2>1, <2>2, <3>1 DEF AtRest, K!Busy
    <3>5. \A d \in requests' : Works(d) => d.op = "list" /\ d.set = row
      BY <2>1, <2>2, <3>1, <3>2
    <3>6. row' = row BY <2>2 DEF shown
    <3> QED BY <3>3, <3>4, <3>5, <3>6 DEF Works, ListFits
  <2> QED BY <2>3, <2>4
<1>18. ASSUME NEW c \in requests, K!LoseRequest(c) PROVE CalmInv'
  <2> DEFINE n == [c EXCEPT !.answer = "lost"]
  <2>1. n.op = c.op /\ n.set = c.set /\ n.mine = c.mine /\ n.answer = "lost" BY <1>t
    DEF KioskRequest
  <2>2. requests' = (requests \ {c}) \cup {n} /\ UNCHANGED <<shown, calm>>
    BY <1>18 DEF K!LoseRequest, K!Reply, shown
  <2> HIDE DEF n
  <2> SUFFICES ASSUME calm
               PROVE  /\ OneAtWork' /\ AtRest'
                      /\ \A d \in requests' : (d.op = "save" => SaveFits(d)') /\ (d.op = "list" => ListFits(d)')
    BY <2>2 DEF CalmInv
  <2>3. OneAtWork' BY <2>1, <2>2 DEF CalmInv, OneAtWork, Works
  <2>4. AtRest' BY <2>1, <2>2 DEF CalmInv, AtRest, K!Busy, shown
  <2>5. (n.op = "save" => SaveFits(n)') /\ (n.op = "list" => ListFits(n)')
    BY <2>1, <2>2 DEF CalmInv, SaveFits, ListFits, K!Ok, shown
  <2>6. \A d \in requests : (d.op = "save" => SaveFits(d)') /\ (d.op = "list" => ListFits(d)')
    BY <2>2 DEF CalmInv, SaveFits, ListFits, K!Ok, shown
  <2> QED BY <2>2, <2>3, <2>4, <2>5, <2>6
<1>19. ASSUME NEW c \in requests, K!HearSave(c) PROVE CalmInv'
  <2> SUFFICES ASSUME calm, K!Ok(c) PROVE CalmInv' BY <1>19 DEF K!HearSave, CalmInv
  <2>1. Works(c) /\ SaveFits(c) BY <1>19 DEF K!HearSave, CalmInv, Works
  <2>2. requests' = requests \ {c} /\ UNCHANGED <<row, products, screen, selected, default>>
    BY <1>19 DEF K!HearSave, K!Without
  <2>3. ~K!Busy(requests') BY <2>1, <2>2, WorkDone
  <2>4. entry' = [entry EXCEPT !.default = c.set.default] BY <1>19, <2>1 DEF K!HearSave, SaveFits
  <2>5. entry \in K!Row /\ c.set \in K!Row BY <1>t, KioskRequestType DEF Typed
  <2>6. row.there => row = c.set BY <2>1 DEF SaveFits
  <2>7. entry' = c.set BY <2>1, <2>4, <2>5 DEF SaveFits, K!Row
  <2>8. default = K!Among(c.set.default, products) BY <2>1 DEF SaveFits, K!Among
  <2>9. AtRest' BY <2>2, <2>6, <2>7, <2>8 DEF AtRest
  <2> QED BY <2>3, <2>9, CalmAtRest
<1>20. ASSUME NEW c \in requests, K!HearList(c) PROVE CalmInv'
  <2>0. c.op = "list" BY <1>20 DEF K!HearList
  <2>1. CASE ~K!Ok(c) BY <1>20, <2>1 DEF K!HearList, CalmInv
  <2>2. CASE K!Ok(c) /\ selected /\ ~c.set.there
    BY <1>20, <2>2, ListAsked DEF K!HearList, K!ToTab
  <2>3. CASE K!Ok(c) /\ (selected => c.set.there)
    <3> SUFFICES ASSUME calm PROVE CalmInv' BY <1>20, <2>3 DEF K!HearList, CalmInv
    <3>1. \A d \in requests \ {c} : ~Works(d) BY <2>0, WorkDone DEF Works
    <3>2. requests' = K!Orphaned(requests \ {c}) BY <1>20, <2>3 DEF K!HearList, K!Without
    <3>3. \A d \in KioskRequest, b \in BOOLEAN : [d EXCEPT !.mine = b].op = d.op BY DEF KioskRequest
    <3>4. \A d \in requests : [d EXCEPT !.mine = d.mine /\ d.op # "save"].op = d.op
      BY <1>t, <3>3, KioskRequestType
    <3>5. ASSUME NEW d \in requests' PROVE ~Works(d)
      <4>1. PICK e \in requests \ {c} : d = [e EXCEPT !.mine = e.mine /\ e.op # "save"]
        BY <3>2 DEF K!Orphaned
      <4> QED BY <3>1, <3>4, <4>1 DEF Works
    <3>6. ~K!Busy(requests') BY <3>5 DEF Works, K!Busy
    <3>7. row.there => c.set = row BY <2>0, <2>3 DEF CalmInv, ListFits
    <3>8. AtRest' BY <1>20, <2>3, <3>7 DEF K!HearList, AtRest
    <3> QED BY <3>6, <3>8, CalmAtRest
  <2> QED BY <2>1, <2>2, <2>3
<1>21. ASSUME NEW c \in requests, K!HearStatus(c) PROVE CalmInv'
  <2>0. c.op = "status" BY <1>21 DEF K!HearStatus
  <2>1. CASE K!Ok(c) /\ c.set.there /\ ~entry.there
    <3>1. K!Busy(requests) <=> K!Busy(K!Without(c)) BY <2>0 DEF K!Busy, K!Without
    <3> QED BY <1>21, <2>1, <3>1, ListAsked DEF K!HearStatus
  <2>2. CASE ~(K!Ok(c) /\ c.set.there /\ ~entry.there)
    <3>1. \A d : Works(d) => (d \in K!Without(c) <=> d \in requests) BY <2>0 DEF Works, K!Without
    <3>2. CASE default' = default BY <1>21, <2>2, <3>1, <3>2, CalmKept DEF K!HearStatus, shown
    <3>3. CASE default' # default BY <1>21, <2>2, <3>3 DEF K!HearStatus, CalmInv
    <3> QED BY <3>2, <3>3
  <2> QED BY <2>1, <2>2
<1>22. ASSUME NEW c \in requests, K!HearCatalog(c) PROVE CalmInv'
  <2>0. /\ c.op = "catalog" /\ requests' = requests \ {c}
        /\ calm' = (calm /\ (default' = default \/ ~K!Busy(requests)))
        /\ UNCHANGED <<row, entry, screen, selected>>
    BY <1>22 DEF K!HearCatalog, K!Without
  <2>1. \A d : Works(d) => (d \in requests' <=> d \in requests) BY <2>0 DEF Works
  <2>2. CASE ~(K!Ok(c) /\ selected)
    <3>1. default' = default /\ (selected => products' = products) BY <1>22, <2>2 DEF K!HearCatalog
    <3> SUFFICES ASSUME calm
                 PROVE  /\ OneAtWork' /\ AtRest'
                        /\ \A d \in requests' : (d.op = "save" => SaveFits(d)') /\ (d.op = "list" => ListFits(d)')
      BY <2>0 DEF CalmInv
    <3>2. OneAtWork' BY <2>1 DEF CalmInv, OneAtWork
    <3>3. AtRest' BY <2>0, <2>1, <3>1 DEF CalmInv, AtRest, K!Busy, Works
    <3> QED BY <2>0, <3>1, <3>2, <3>3 DEF CalmInv, SaveFits, ListFits, K!Ok
  <2>3. CASE K!Ok(c) /\ selected
    <3>1. default' = K!Among(entry.default, products') BY <1>22, <2>3 DEF K!HearCatalog
    <3>2. CASE ~K!Busy(requests)
      <4>1. ~K!Busy(requests') BY <2>0, <3>2 DEF K!Busy
      <4>2. calm' => AtRest' BY <2>0, <3>1, <3>2, <4>1 DEF CalmInv, AtRest
      <4> QED BY <4>1, <4>2, CalmAtRest
    <3>3. CASE K!Busy(requests)
      <4> SUFFICES ASSUME calm, default' = default
                   PROVE  /\ OneAtWork' /\ AtRest'
                          /\ \A d \in requests' : (d.op = "save" => SaveFits(d)') /\ (d.op = "list" => ListFits(d)')
        BY <2>0, <3>3 DEF CalmInv
      <4>1. OneAtWork' BY <2>1 DEF CalmInv, OneAtWork
      <4>2. AtRest' BY <2>0, <3>3 DEF AtRest, K!Busy
      <4>3. default' \in products' \cup {None} BY <3>1 DEF K!Among
      <4> QED BY <2>0, <4>1, <4>2, <4>3 DEF CalmInv, SaveFits, ListFits, K!Ok
    <3> QED BY <3>2, <3>3
  <2> QED BY <2>2, <2>3
<1>23. ASSUME NEW c \in requests, K!HearChange(c) PROVE CalmInv'
  <2>0. ~Works(c) BY <1>23 DEF K!HearChange, Works
  <2>1. ~Works(K!Ask("catalog")) BY Asked, ChoiceType DEF Works
  <2>2. CASE K!Ok(c) /\ c.op = "remove" BY <1>23, <2>2, ListAsked DEF K!HearChange, K!ToTab
  <2>3. CASE ~(K!Ok(c) /\ c.op = "remove")
    BY <1>23, <2>0, <2>1, <2>3, CalmKept DEF K!HearChange, K!Without, shown
  <2> QED BY <2>2, <2>3
<1>24. ASSUME NEW c \in requests, K!HearSync(c) PROVE CalmInv'
  <2>1. ~Works(c) BY <1>24 DEF K!HearSync, Works
  <2> QED BY <1>24, <2>1, CalmKept DEF K!HearSync, K!Without, shown
<1>25. ASSUME NEW c \in requests, K!HearFetch(c) PROVE CalmInv'
  <2>1. ~Works(c) BY <1>25 DEF K!HearFetch, Works
  <2>2. ~Works(K!Ask("offer")) BY Asked, ChoiceType DEF Works
  <2> QED BY <1>25, <2>1, <2>2, CalmKept DEF K!HearFetch, K!Without, shown
<1>26. ASSUME NEW c \in requests, K!HearOffer(c) PROVE CalmInv'
  <2>1. ~Works(c) BY <1>26 DEF K!HearOffer, Works
  <2> QED BY <1>26, <2>1, CalmKept DEF K!HearOffer, K!Without, shown
<1>27. ASSUME K!Elsewhere PROVE CalmInv' BY <1>27 DEF K!Elsewhere, CalmInv
<1>28. CASE UNCHANGED K!settingsVars BY <1>28, CalmKept DEF shown
<1> QED
  BY <1>1, <1>2, <1>3, <1>4, <1>5, <1>6, <1>7, <1>8, <1>9, <1>10, <1>12, <1>13, <1>14, <1>15, <1>16,
     <1>17, <1>18, <1>19, <1>20, <1>21, <1>22, <1>23, <1>24, <1>25, <1>26, <1>27, <1>28
     DEF K!SettingsNext, K!ByAdmin, K!ByKiosk, K!Traffic

\* At rest the detail shows what the server has although nothing is loaded after a save
\* (autoSaveKiosk, renderKioskDetail), however many taps, signals and requests there were,
\* while calm holds.
THEOREM PageAgrees == K!SettingsSpec => []AgreesAtRest
<1> K!SettingsConstants BY AppAssumption
<1>1. K!Init => FormOffered /\ CalmInv BY DEF K!Init, FormOffered, CalmInv, OneAtWork, AtRest
<1>2. CalmInv => AgreesAtRest BY DEF CalmInv, AtRest, AgreesAtRest, K!AgreesAtRest
<1> QED BY TypedInit, TypedStep, <1>1, FormStep, CalmStep, <1>2, PTL DEF K!SettingsSpec

-------------------------------------------------------------------------------
\* A request of the kiosk.
Calls(c) == c.op \in K!OfKiosk

OneCall == \A c, d \in requests : Calls(c) /\ Calls(d) => c = d
KioskAtRest ==
  ~K!Waiting(requests) =>
    device.products = sold /\ (row.there => device.menu = row.menu /\ ticks = row.menu \cap sold)
\* What the kiosk's own save says is what its settings show; what it fetches is what the
\* server has, and stays so.
SyncFits(c) ==
  /\ device.products = sold /\ c.set.menu = ticks
  /\ K!Ok(c) /\ row.there => row.menu = c.set.menu
FetchFits(c) == K!Ok(c) /\ row.there => c.set.menu = row.menu
OfferFits(c) == (row.there => device.menu = row.menu) /\ (K!Ok(c) => c.list = sold)
CallFits(c) ==
  /\ c.op = "sync" => SyncFits(c)
  /\ c.op = "fetch" => FetchFits(c)
  /\ c.op = "offer" => OfferFits(c)

OrderlyInv ==
  /\ ticks \subseteq device.products
  /\ orderly => OneCall
  /\ orderly /\ news.kiosk = 0 => KioskAtRest /\ \A c \in requests : CallFits(c)

offered == <<row, sold, device, ticks, news.kiosk>>

\* A step of something else.
LEMMA OrderKept ==
  ASSUME OrderlyInv, orderly' => orderly, UNCHANGED offered,
         \A c : Calls(c) => (c \in requests' <=> c \in requests)
  PROVE  OrderlyInv'
<1> USE DEF offered
<1>1. (ticks \subseteq device.products)' BY DEF OrderlyInv
<1>2. orderly' => OneCall' BY DEF OrderlyInv, OneCall
<1>3. K!Waiting(requests) <=> K!Waiting(requests') BY DEF K!Waiting, Calls
<1>4. orderly' /\ news'.kiosk = 0 => KioskAtRest' BY <1>3 DEF OrderlyInv, KioskAtRest
<1>5. ASSUME orderly', news'.kiosk = 0, NEW c \in requests' PROVE CallFits(c)'
  <2>1. CASE Calls(c) BY <1>5, <2>1 DEF OrderlyInv, CallFits, SyncFits, FetchFits, OfferFits, K!Ok
  <2>2. CASE ~Calls(c) BY <2>2, ChoiceType DEF CallFits, Calls
  <2> QED BY <2>1, <2>2
<1> QED BY <1>1, <1>2, <1>4, <1>5 DEF OrderlyInv

\* The kiosk has been told of a change, or nothing is promised any more.
LEMMA KioskTold ==
  ASSUME Typed, OrderlyInv, UNCHANGED <<device, ticks>>, NEW b, K!Tell(b),
         orderly => OneCall'
  PROVE  OrderlyInv'
<1>1. PICK p \in {0, 1}, k \in {0, 1} :
        /\ news' = [page |-> news.page + p, kiosk |-> news.kiosk + k]
        /\ orderly' = (orderly /\ k = 1)
  BY DEF K!Tell
<1>2. news.kiosk \in Nat BY DEF Typed
<1>3. k = 1 => news'.kiosk # 0 BY <1>1, <1>2
<1> QED BY <1>1, <1>3 DEF OrderlyInv

\* The only call is answered or lost.
LEMMA OnlyCall ==
  ASSUME OrderlyInv, orderly, NEW c \in requests, Calls(c)
  PROVE  ~K!Waiting(requests \ {c}) /\ \A d \in requests \ {c} : ~Calls(d)
BY DEF OrderlyInv, OneCall, K!Waiting, Calls

\* A call is all there is.
LEMMA CallAlone ==
  ASSUME (ticks \subseteq device.products)', NEW n, Calls(n), n \in requests',
         orderly' => \A d \in requests' : Calls(d) => d = n,
         orderly' /\ news'.kiosk = 0 => \A d \in requests' : Calls(d) => CallFits(d)'
  PROVE  OrderlyInv'
<1>1. orderly' => OneCall' BY DEF OneCall
<1>2. KioskAtRest' BY DEF KioskAtRest, K!Waiting, Calls
<1>3. \A d : ~Calls(d) => CallFits(d)' BY ChoiceType DEF CallFits, Calls
<1> QED BY <1>1, <1>2, <1>3 DEF OrderlyInv

\* Somebody at the kiosk has tapped.
LEMMA SyncAsked ==
  ASSUME Typed, OrderlyInv, NEW d \in K!Choices, ticks' \subseteq device.products,
         K!SaveKioskDeviceSettings(ticks', d), UNCHANGED <<row, sold, device, news>>
  PROVE  OrderlyInv'
<1> DEFINE s == [there |-> TRUE, menu |-> ticks', default |-> d]
           n == K!AskFor("sync", s)
<1>1. ticks' \in SUBSET Products BY DeviceType DEF Typed
<1>2. s \in K!Row BY <1>1, RowType
<1>3. n.op = "sync" /\ n.answer = "none" /\ n.set = s /\ s.menu = ticks'
  BY <1>2, Asked, ChoiceType
<1>4. requests' = requests \cup {n} /\ orderly' = (orderly /\ ~K!Waiting(requests))
  BY DEF K!SaveKioskDeviceSettings
<1> HIDE DEF n, s
<1>5. Calls(n) BY <1>3, ChoiceType DEF Calls
<1>6. orderly' => \A e \in requests' : Calls(e) => e = n BY <1>4 DEF K!Waiting, Calls
<1>7. ASSUME orderly', news'.kiosk = 0, NEW e \in requests', Calls(e) PROVE CallFits(e)'
  <2>1. e.op = "sync" /\ e.answer = "none" /\ e.set.menu = ticks' BY <1>3, <1>6, <1>7
  <2>2. device.products = sold BY <1>4, <1>7 DEF OrderlyInv, KioskAtRest
  <2> QED BY <2>1, <2>2 DEF CallFits, SyncFits, K!Ok
<1> QED BY <1>4, <1>5, <1>6, <1>7, CallAlone

LEMMA OrderStep ==
  ASSUME K!SettingsConstants, Typed, OrderlyInv, [K!SettingsNext]_(K!settingsVars)
  PROVE  OrderlyInv'
<1> USE DEF K!settingsVars, K!server, K!admin, K!detail, K!kiosk, offered
<1>t. requests \subseteq KioskRequest BY DEF Typed
<1>1. ASSUME K!OpenKioskDetail PROVE OrderlyInv' BY <1>1, OrderKept DEF K!OpenKioskDetail
<1>l. ~Calls(K!Ask("list")) /\ ~Calls(K!Ask("status")) /\ ~Calls(K!Ask("catalog"))
  BY Asked, ChoiceType DEF Calls, K!OfKiosk
<1>2. ASSUME K!LeaveDetail PROVE OrderlyInv' BY <1>2, <1>l, OrderKept DEF K!LeaveDetail, K!ToTab
<1>3. ASSUME K!AskToRemove PROVE OrderlyInv' BY <1>3, OrderKept DEF K!AskToRemove
<1>4. ASSUME K!Answered PROVE OrderlyInv'
  <2>1. PICK op \in {"none", "remove", "unsell"}, d \in K!Choices : question = <<op, d>>
    BY DEF Typed
  <2>2. op \in {"remove", "unsell"} BY <1>4, <2>1 DEF K!Answered, K!NoQuestion, Typed
  <2>3. ~Calls([K!Ask(op) EXCEPT !.product = d]) BY <2>2, Asked, ChoiceType DEF Calls, K!OfKiosk
  <2>4. requests' \in {requests, requests \cup {[K!Ask(op) EXCEPT !.product = d]}}
    BY <1>4, <2>1 DEF K!Answered
  <2> QED BY <1>4, <2>3, <2>4, OrderKept DEF K!Answered
<1>5. ASSUME K!AdminRefresh PROVE OrderlyInv'
  <2>1. news'.kiosk = news.kiosk BY <1>5 DEF K!AdminRefresh, Typed
  <2> QED BY <1>5, <1>l, <2>1, OrderKept DEF K!AdminRefresh
<1>6. ASSUME K!Poll PROVE OrderlyInv' BY <1>6, <1>l, OrderKept DEF K!Poll
<1>7. ASSUME NEW m \in SUBSET Products, NEW d \in K!Choices, K!AutoSaveKiosk(m, d),
             UNCHANGED <<offered, orderly>>
      PROVE  OrderlyInv'
  <2>1. [there |-> TRUE, menu |-> m, default |-> d] \in K!Row BY RowType
  <2>2. ~Calls(K!AskFor("save", [there |-> TRUE, menu |-> m, default |-> d]))
    BY <2>1, Asked, ChoiceType DEF Calls, K!OfKiosk
  <2> QED BY <1>7, <2>2, OrderKept DEF K!AutoSaveKiosk
<1>8. ASSUME NEW p \in Products, K!ToggleKioskProduct(p) PROVE OrderlyInv'
  <2>1. entry'.menu \in SUBSET Products
    BY <1>8, RowType, FlipType DEF K!ToggleKioskProduct, Typed, K!Row
  <2> QED BY <1>7, <1>8, <2>1 DEF K!ToggleKioskProduct, Typed
<1>9. ASSUME NEW d \in K!Choices, K!ChooseDefault(d) PROVE OrderlyInv'
  <2>1. entry.menu \in SUBSET Products BY RowType DEF Typed
  <2> QED BY <1>7, <1>9, <2>1 DEF K!ChooseDefault
<1>10. ASSUME NEW p \in Products, K!SaveMenuAdd(p) PROVE OrderlyInv'
  <2>1. ~Calls([K!Ask("sell") EXCEPT !.product = p]) BY Asked, ChoiceType DEF Calls, K!OfKiosk
  <2> QED BY <1>10, <2>1, OrderKept DEF K!SaveMenuAdd
<1>11. ASSUME K!HandleKioskMenuRefresh PROVE OrderlyInv'
  <2> DEFINE n == K!Ask("fetch")
  <2>1. n.op = "fetch" /\ n.answer = "none" BY Asked, ChoiceType
  <2>2. /\ requests' = requests \cup {n} /\ orderly' = ~K!Waiting(requests)
        /\ UNCHANGED <<row, sold, device, ticks>>
    BY <1>11 DEF K!HandleKioskMenuRefresh
  <2> HIDE DEF n
  <2>3. Calls(n) BY <2>1, ChoiceType DEF Calls
  <2>4. orderly' => \A d \in requests' : Calls(d) => d = n BY <2>2 DEF K!Waiting, Calls
  <2>5. \A d : d = n => CallFits(d)' BY <2>1 DEF CallFits, FetchFits, K!Ok
  <2>6. (ticks \subseteq device.products)' BY <2>2 DEF OrderlyInv
  <2> QED BY <2>2, <2>3, <2>4, <2>5, <2>6, CallAlone
<1>12. ASSUME NEW p \in Products, K!ToggleKioskAssignedProduct(p) PROVE OrderlyInv'
  <2>1. ticks' \subseteq device.products BY <1>12
    DEF K!ToggleKioskAssignedProduct, K!Flip, OrderlyInv
  <2> QED BY <1>12, <2>1, SyncAsked DEF K!ToggleKioskAssignedProduct, Typed
<1>13. ASSUME NEW d \in K!Choices, K!PickDefault(d) PROVE OrderlyInv'
  <2>1. ticks' = ticks /\ ticks' \subseteq device.products BY <1>13 DEF K!PickDefault, OrderlyInv
  <2> QED BY <1>13, <2>1, SyncAsked DEF K!PickDefault
<1>14. ASSUME NEW c \in requests, K!ServeKiosk(c) PROVE OrderlyInv'
  <2>1. PICK a \in {"ok", "refused"} :
          /\ requests' = (requests \ {c}) \cup {[c EXCEPT !.answer = a]}
          /\ a = "refused" => UNCHANGED <<row, news, orderly>>
          /\ a = "ok" => K!Tell(left)
    BY <1>14 DEF K!ServeKiosk, K!Reply
  <2>2. ~Calls(c) /\ ~Calls([c EXCEPT !.answer = a]) BY <1>14, <1>t
    DEF K!ServeKiosk, Calls, K!OfKiosk, KioskRequest
  <2>3. \A d : Calls(d) => (d \in requests' <=> d \in requests) BY <2>1, <2>2
  <2>4. CASE a = "refused" BY <1>14, <2>1, <2>3, <2>4, OrderKept DEF K!ServeKiosk
  <2>5. CASE a = "ok"
    <3>1. orderly => OneCall' BY <2>3 DEF OrderlyInv, OneCall
    <3> QED BY <1>14, <2>1, <2>5, <3>1, KioskTold DEF K!ServeKiosk
  <2> QED BY <2>4, <2>5
<1>15. ASSUME NEW c \in requests, K!ServeProduct(c) PROVE OrderlyInv'
  <2>1. ~Calls(c) /\ ~Calls([c EXCEPT !.answer = "ok"]) BY <1>15, <1>t
    DEF K!ServeProduct, Calls, K!OfKiosk, KioskRequest
  <2>2. orderly => OneCall' BY <1>15, <2>1 DEF K!ServeProduct, K!Reply, OrderlyInv, OneCall
  <2> QED BY <1>15, <2>2, KioskTold DEF K!ServeProduct
<1>16. ASSUME NEW c \in requests, K!ServeSync(c) PROVE OrderlyInv'
  <2> DEFINE n == [c EXCEPT !.answer = "ok"]
  <2>1. n.op = "sync" /\ n.set = c.set /\ n.answer = "ok" /\ c.op = "sync" BY <1>16, <1>t
    DEF KioskRequest, K!ServeSync
  <2>2. requests' = (requests \ {c}) \cup {n} /\ UNCHANGED <<sold, device, ticks, news, orderly>>
    BY <1>16 DEF K!ServeSync, K!Reply
  <2>3. row'.menu = c.set.menu
    <3>1. c.set \in K!Row BY <1>t, KioskRequestType
    <3>2. \A r \in K!Row : \A d : [r EXCEPT !.default = d].menu = r.menu BY DEF K!Row
    <3> QED BY <1>16, <3>1, <3>2 DEF K!ServeSync
  <2> HIDE DEF n
  <2>4. Calls(n) /\ Calls(c) BY <2>1, ChoiceType DEF Calls
  <2>5. orderly => \A d \in requests' : Calls(d) => d = n BY <2>2, <2>4, OnlyCall
  <2>6. ASSUME orderly', news'.kiosk = 0, NEW d \in requests', Calls(d) PROVE CallFits(d)'
    <3>1. d.op = "sync" /\ d.set = c.set BY <2>1, <2>2, <2>5, <2>6
    <3>2. SyncFits(c) BY <2>1, <2>2, <2>6 DEF OrderlyInv, CallFits
    <3> QED BY <2>2, <2>3, <3>1, <3>2 DEF CallFits, SyncFits
  <2> QED BY <2>2, <2>4, <2>5, <2>6, CallAlone DEF OrderlyInv
<1>17. ASSUME NEW c \in requests, K!ServeRead(c) PROVE OrderlyInv'
  <2> DEFINE s == IF c.op \in {"list", "fetch"} THEN row
                  ELSE IF c.op = "status" THEN [K!Blank EXCEPT !.there = row.there] ELSE K!Blank
             l == IF c.op \in {"catalog", "offer"} THEN sold ELSE {}
             n == [c EXCEPT !.answer = "ok", !.set = s, !.list = l]
  <2>1. n.op = c.op /\ n.set = s /\ n.list = l BY <1>17, <1>t DEF KioskRequest
  <2>2. requests' = (requests \ {c}) \cup {n} /\ UNCHANGED <<offered, orderly>> BY <1>17
    DEF K!ServeRead
  <2>3. CASE ~Calls(c) BY <2>1, <2>2, <2>3, OrderKept DEF Calls
  <2>4. CASE Calls(c)
    <3>1. /\ c.op \in {"fetch", "offer"}
          /\ c.op = "fetch" => s = row
          /\ c.op = "offer" => l = sold
      BY <1>17, <2>4 DEF K!ServeRead, Calls, K!OfKiosk
    <3> HIDE DEF n, s, l
    <3>2. Calls(n) BY <2>1, <2>4 DEF Calls
    <3>3. orderly => \A d \in requests' : Calls(d) => d = n BY <2>2, <2>4, OnlyCall
    <3>4. ASSUME orderly', news'.kiosk = 0, NEW d \in requests', Calls(d) PROVE CallFits(d)'
      <4>1. d = n BY <2>2, <3>3, <3>4
      <4>2. CallFits(c) BY <2>2, <3>4 DEF OrderlyInv
      <4>3. d.op = c.op /\ d.set = s /\ d.list = l BY <2>1, <4>1
      <4>4. CASE c.op = "fetch" BY <2>2, <3>1, <4>3, <4>4 DEF CallFits, FetchFits
      <4>5. CASE c.op = "offer" BY <2>2, <3>1, <4>2, <4>3, <4>5 DEF CallFits, OfferFits
      <4> QED BY <3>1, <4>4, <4>5
    <3> QED BY <2>2, <3>2, <3>3, <3>4, CallAlone DEF OrderlyInv
  <2> QED BY <2>3, <2>4
<1>18. ASSUME NEW c \in requests, K!LoseRequest(c) PROVE OrderlyInv'
  <2> DEFINE n == [c EXCEPT !.answer = "lost"]
  <2>1. n.op = c.op /\ n.set = c.set /\ n.answer = "lost" BY <1>t DEF KioskRequest
  <2>2. requests' = (requests \ {c}) \cup {n} /\ UNCHANGED <<offered, orderly>>
    BY <1>18 DEF K!LoseRequest, K!Reply
  <2> HIDE DEF n
  <2>3. CASE ~Calls(c) BY <2>1, <2>2, <2>3, OrderKept DEF Calls
  <2>4. CASE Calls(c)
    <3>2. Calls(n) BY <2>1, <2>4 DEF Calls
    <3>3. orderly => \A d \in requests' : Calls(d) => d = n BY <2>2, <2>4, OnlyCall
    <3>4. ASSUME orderly', news'.kiosk = 0, NEW d \in requests', Calls(d) PROVE CallFits(d)'
      <4>1. d = n BY <2>2, <3>3, <3>4
      <4>2. CallFits(c) BY <2>2, <3>4 DEF OrderlyInv
      <4> QED BY <2>1, <2>2, <4>1, <4>2 DEF CallFits, SyncFits, FetchFits, OfferFits, K!Ok
    <3> QED BY <2>2, <3>2, <3>3, <3>4, CallAlone DEF OrderlyInv
  <2> QED BY <2>3, <2>4
<1>19. ASSUME NEW c \in requests, K!HearSave(c) PROVE OrderlyInv'
  <2>1. ~Calls(c) BY <1>19 DEF K!HearSave, Calls, K!OfKiosk
  <2> QED BY <1>19, <2>1, OrderKept DEF K!HearSave, K!Without
<1>20. ASSUME NEW c \in requests, K!HearList(c) PROVE OrderlyInv'
  <2>1. c.op = "list" /\ ~Calls(c) BY <1>20 DEF K!HearList, Calls, K!OfKiosk
  <2>2. \A d \in KioskRequest : d.op # "save" => [d EXCEPT !.mine = d.mine /\ d.op # "save"] = d
    BY DEF KioskRequest
  <2>3. \A d \in KioskRequest : [d EXCEPT !.mine = d.mine /\ d.op # "save"].op = d.op
    BY DEF KioskRequest
  <2>4. \A d : Calls(d) => d.op # "save" BY DEF Calls, K!OfKiosk
  <2>5. ASSUME NEW d, Calls(d) PROVE d \in K!Orphaned(K!Without(c)) <=> d \in requests
    <3>1. d \in requests => d \in K!Orphaned(K!Without(c))
      BY <1>t, <2>1, <2>2, <2>4, <2>5 DEF K!Orphaned, K!Without
    <3>2. ASSUME d \in K!Orphaned(K!Without(c)) PROVE d \in requests
      <4>1. PICK e \in K!Without(c) : d = [e EXCEPT !.mine = e.mine /\ e.op # "save"]
        BY <3>2 DEF K!Orphaned
      <4>2. e \in requests /\ e.op = d.op BY <1>t, <2>3, <4>1 DEF K!Without
      <4>3. d = e BY <1>t, <2>2, <2>4, <2>5, <4>1, <4>2
      <4> QED BY <4>2, <4>3
    <3> QED BY <3>1, <3>2
  <2>6. \A d : Calls(d) => (d \in requests' <=> d \in requests)
    BY <1>20, <1>l, <2>1, <2>5 DEF K!HearList, K!ToTab, K!Without
  <2> QED BY <1>20, <2>6, OrderKept DEF K!HearList
<1>21. ASSUME NEW c \in requests, K!HearStatus(c) PROVE OrderlyInv'
  <2>1. ~Calls(c) BY <1>21 DEF K!HearStatus, Calls, K!OfKiosk
  <2>2. requests' \in {K!Without(c), K!Without(c) \cup {K!Ask("list")}} BY <1>21 DEF K!HearStatus
  <2> QED BY <1>21, <1>l, <2>1, <2>2, OrderKept DEF K!HearStatus, K!Without
<1>22. ASSUME NEW c \in requests, K!HearCatalog(c) PROVE OrderlyInv'
  <2>1. ~Calls(c) BY <1>22 DEF K!HearCatalog, Calls, K!OfKiosk
  <2> QED BY <1>22, <2>1, OrderKept DEF K!HearCatalog, K!Without
<1>23. ASSUME NEW c \in requests, K!HearChange(c) PROVE OrderlyInv'
  <2>1. ~Calls(c) BY <1>23 DEF K!HearChange, Calls, K!OfKiosk
  <2>2. requests' \in {K!Without(c), K!Without(c) \cup {K!Ask("list")}, K!Without(c) \cup {K!Ask("catalog")}}
    BY <1>23 DEF K!HearChange, K!ToTab
  <2> QED BY <1>23, <1>l, <2>1, <2>2, OrderKept DEF K!HearChange, K!Without
<1>24. ASSUME NEW c \in requests, K!HearSync(c) PROVE OrderlyInv'
  <2>1. Calls(c) /\ c.op = "sync" BY <1>24, ChoiceType DEF K!HearSync, Calls
  <2>2. CASE ~K!Ok(c) BY <1>24, <2>2 DEF K!HearSync, OrderlyInv
  <2>3. CASE K!Ok(c)
    <3>1. /\ requests' = requests \ {c} /\ UNCHANGED <<row, sold, ticks, news, orderly>>
          /\ device' = [device EXCEPT !.menu = c.set.menu, !.default = c.set.default]
      BY <1>24, <2>3 DEF K!HearSync, K!Without
    <3>2. device'.menu = c.set.menu /\ device'.products = device.products
      BY <3>1 DEF Typed, Device
    <3>3. orderly => ~K!Waiting(requests') /\ \A d \in requests' : ~Calls(d) BY <2>1, <3>1, OnlyCall
    <3>4. \A d : ~Calls(d) => CallFits(d)' BY ChoiceType DEF CallFits, Calls
    <3>5. orderly' => OneCall' BY <3>1, <3>3 DEF OneCall
    <3>6. orderly' /\ news'.kiosk = 0 => KioskAtRest'
      BY <2>1, <2>3, <3>1, <3>2 DEF OrderlyInv, KioskAtRest, CallFits, SyncFits
    <3> QED BY <3>1, <3>2, <3>3, <3>4, <3>5, <3>6 DEF OrderlyInv
  <2> QED BY <2>2, <2>3
<1>25. ASSUME NEW c \in requests, K!HearFetch(c) PROVE OrderlyInv'
  <2> DEFINE n == K!Ask("offer")
  <2>1. n.op = "offer" /\ n.answer = "none" BY Asked, ChoiceType
  <2>2. Calls(c) /\ c.op = "fetch" /\ requests' = (requests \ {c}) \cup {n}
    BY <1>25, ChoiceType DEF K!HearFetch, Calls, K!Without
  <2> HIDE DEF n
  <2>3. UNCHANGED <<row, sold, ticks, news>> /\ device'.products = device.products
    BY <1>25 DEF K!HearFetch, Typed, Device
  <2>4. CASE ~K!Ok(c) BY <1>25, <2>3, <2>4 DEF K!HearFetch, OrderlyInv
  <2>5. CASE K!Ok(c)
    <3>1. orderly' = orderly /\ device'.menu = c.set.menu BY <1>25, <2>5
      DEF K!HearFetch, Typed, Device
    <3>2. Calls(n) BY <2>1, ChoiceType DEF Calls
    <3>3. orderly' => \A d \in requests' : Calls(d) => d = n BY <2>2, <3>1, OnlyCall
    <3>4. ASSUME orderly', news'.kiosk = 0, NEW d \in requests', Calls(d) PROVE CallFits(d)'
      <4>1. d.op = "offer" /\ d.answer = "none" BY <2>1, <3>3, <3>4
      <4>2. FetchFits(c) BY <2>2, <2>3, <3>1, <3>4 DEF OrderlyInv, CallFits
      <4> QED BY <2>3, <2>5, <3>1, <4>1, <4>2 DEF CallFits, FetchFits, OfferFits, K!Ok
    <3> QED BY <2>2, <2>3, <3>2, <3>3, <3>4, CallAlone DEF OrderlyInv
  <2> QED BY <2>4, <2>5
<1>26. ASSUME NEW c \in requests, K!HearOffer(c) PROVE OrderlyInv'
  <2>1. Calls(c) /\ c.op = "offer" BY <1>26, ChoiceType DEF K!HearOffer, Calls
  <2>2. CASE ~K!Ok(c) BY <1>26, <2>2 DEF K!HearOffer, OrderlyInv
  <2>3. CASE K!Ok(c)
    <3>1. /\ requests' = requests \ {c} /\ UNCHANGED <<row, sold, news, orderly>>
          /\ device' = [device EXCEPT !.products = c.list] /\ ticks' = device.menu \cap c.list
      BY <1>26, <2>3 DEF K!HearOffer, K!Without
    <3>2. device'.menu = device.menu /\ device'.products = c.list BY <3>1 DEF Typed, Device
    <3>3. orderly => ~K!Waiting(requests') /\ \A d \in requests' : ~Calls(d) BY <2>1, <3>1, OnlyCall
    <3>4. \A d : ~Calls(d) => CallFits(d)' BY ChoiceType DEF CallFits, Calls
    <3>5. orderly' => OneCall' BY <3>1, <3>3 DEF OneCall
    <3>6. orderly' /\ news'.kiosk = 0 => KioskAtRest'
      BY <2>1, <2>3, <3>1, <3>2 DEF OrderlyInv, KioskAtRest, CallFits, OfferFits
    <3> QED BY <3>1, <3>2, <3>3, <3>4, <3>5, <3>6 DEF OrderlyInv
  <2> QED BY <2>2, <2>3
<1>27. ASSUME K!Elsewhere PROVE OrderlyInv'
  <2>1. orderly => OneCall' BY <1>27 DEF K!Elsewhere, OrderlyInv, OneCall
  <2> QED BY <1>27, <2>1, KioskTold DEF K!Elsewhere
<1>28. CASE UNCHANGED K!settingsVars BY <1>28, OrderKept
<1> QED
  BY <1>1, <1>2, <1>3, <1>4, <1>5, <1>6, <1>8, <1>9, <1>10, <1>11, <1>12, <1>13, <1>14, <1>15,
       <1>16,
     <1>17, <1>18, <1>19, <1>20, <1>21, <1>22, <1>23, <1>24, <1>25, <1>26, <1>27, <1>28
     DEF K!SettingsNext, K!ByAdmin, K!ByKiosk, K!Traffic

\* At rest the kiosk offers what the server assigns to it and sells, and its settings show
\* it (handleKioskMenuRefresh, saveKioskDeviceSettings), while orderly holds.
THEOREM KioskFollows == K!SettingsSpec => []DeviceFollows
<1> K!SettingsConstants BY AppAssumption
<1>1. K!Init => OrderlyInv
  BY DEF K!Init, OrderlyInv, OneCall, KioskAtRest, K!SettingsConstants
<1>2. OrderlyInv => DeviceFollows BY DEF OrderlyInv, KioskAtRest, DeviceFollows, K!DeviceFollows
<1> QED BY TypedInit, TypedStep, <1>1, OrderStep, <1>2, PTL DEF K!SettingsSpec

===============================================================================
