--------------------------- MODULE MemberApp_proofs ---------------------------
(***************************************************************************)
(* Theorems about the member's page: about AccountActivation for any number*)
(* of members, numbers and requests under way, about MemberHome for any    *)
(* members, deposits and sockets, and about HistoryPages for any rows, and *)
(* whatever may still happen.                                              *)
(***************************************************************************)
EXTENDS MemberApp, Sequences, TLAPS, WellFoundedInduction, FiniteSetTheorems, SequenceTheorems

Ops == {"none", "check", "login", "request", "status", "verify", "complete"}
CallType == [op : Ops, phone : Phones \cup {None}, id : Codes \cup {None},
             good : BOOLEAN, answer : Answers, got : Codes \cup {None}]
CodeType == [phone : Phones \cup {None}, young : BOOLEAN, late : BOOLEAN,
             sms : {"none", "queued", "claimed", "failed", "fresh", "grace", "over"},
             attempts : 0..MaxAttempts, verified : BOOLEAN]

-------------------------------------------------------------------------------
(* The operators of the model.                                             *)

LEMMA LeastNat ==
  ASSUME NEW T, T \subseteq Nat, T # {} PROVE \E n \in T : \A k \in T : n <= k
<1>1. PICK n \in T : \A k \in T : ~ (<<k, n>> \in OpToRel(<, Nat))
  BY WFMin, NatLessThanWellFounded
<1>2. \A k \in T : ~ (k \in Nat /\ n \in Nat /\ k < n) BY <1>1, Zenon DEF OpToRel
<1> QED BY <1>2

\* A set of numbers with a bound has a largest: the least of its bounds.
LEMMA MaxOf ==
  ASSUME NEW T, T \subseteq Nat, T # {}, NEW b \in Nat, \A k \in T : k <= b
  PROVE  Max(T) \in T /\ \A k \in T : k <= Max(T)
<1> DEFINE U == {n \in Nat : \A k \in T : k <= n}
<1>1. PICK n \in U : \A m \in U : n <= m
  <2> U \subseteq Nat /\ b \in U OBVIOUS
  <2> HIDE DEF U
  <2> QED BY LeastNat
<1>2. n \in T
  <2> SUFFICES ASSUME n \notin T PROVE FALSE OBVIOUS
  <2>1. \A k \in T : k < n BY <1>1
  <2>2. n - 1 \in Nat
    <3>1. PICK k \in T : TRUE OBVIOUS
    <3> QED BY <1>1, <2>1, <3>1
  <2>3. n - 1 \in U BY <2>1, <2>2
  <2> QED BY <1>1, <2>3
<1>3. \A k \in T : n >= k BY <1>1
<1> QED BY <1>2, <1>3 DEF Max

LEMMA IdleFields ==
  /\ Idle \in CallType /\ Idle.op = "none" /\ Idle.answer = "none"
BY DEF Idle, CallType, Ops, Answers

LEMMA NoCodeFields ==
  /\ NoCode \in CodeType /\ NoCode.phone = None /\ ~NoCode.young /\ ~NoCode.late
  /\ NoCode.sms = "none" /\ ~NoCode.verified
BY ActivationAssumption DEF NoCode, CodeType

LEMMA AskFields ==
  ASSUME NEW op \in Ops, NEW p \in Phones \cup {None}, NEW i \in Codes \cup {None}, NEW good \in BOOLEAN
  PROVE  /\ Ask(op, p, i, good) \in CallType
         /\ Ask(op, p, i, good).op = op /\ Ask(op, p, i, good).phone = p
         /\ Ask(op, p, i, good).id = i /\ Ask(op, p, i, good).answer = "none"
BY IdleFields DEF Ask, CallType, Idle

\* What becomes of the calls.
LEMMA PutCalls ==
  ASSUME calls \in [Slots -> CallType], NEW s \in Slots, NEW c \in CallType, Put(s, c)
  PROVE  /\ calls' \in [Slots -> CallType] /\ calls'[s] = c
         /\ \A t \in Slots \ {s} : calls'[t] = calls[t]
BY DEF Put

LEMMA AnswerCalls ==
  ASSUME calls \in [Slots -> CallType], NEW s \in Slots, NEW a \in Answers, Answer(s, a)
  PROVE  /\ calls' \in [Slots -> CallType]
         /\ calls'[s].op = calls[s].op /\ calls'[s].phone = calls[s].phone
         /\ calls'[s].id = calls[s].id /\ calls'[s].answer = a /\ calls'[s].got = calls[s].got
         /\ \A t \in Slots \ {s} : calls'[t] = calls[t]
BY DEF Answer, Put, CallType

LEMMA SlotFree == ASSUME NEW s \in Slots, Free(s) PROVE calls[s] = Idle
BY DEF Free

LEMMA NextFree ==
  ASSUME \E i \in Codes : codes[i] = NoCode
  PROVE  /\ NextCode \in Codes /\ codes[NextCode] = NoCode
         /\ \A j \in Codes : codes[j] = NoCode => NextCode <= j
<1> DEFINE T == {i \in Codes : codes[i] = NoCode}
<1>1. T \subseteq Nat /\ T # {} BY ActivationAssumption
<1>2. PICK i \in T : \A j \in T : i <= j BY <1>1, LeastNat
<1>3. \E k \in Codes : codes[k] = NoCode /\ \A j \in Codes : codes[j] = NoCode => k <= j BY <1>2
<1> QED BY <1>3 DEF NextCode

-------------------------------------------------------------------------------
(* What the steps do.                                                      *)

Others(s) == \A t \in Slots \ {s} : calls'[t] = calls[t]
\* A call of the kind op has taken the place of what was in s.
Placed(s, op, p, i) ==
  /\ calls' \in [Slots -> CallType] /\ Others(s)
  /\ calls'[s].op = op /\ calls'[s].phone = p /\ calls'[s].id = i /\ calls'[s].answer = "none"
\* The call in s is over.
Cleared(s) == calls' \in [Slots -> CallType] /\ Others(s) /\ calls'[s].op = "none" /\ calls'[s].answer = "none"

LEMMA TypeFacts ==
  ASSUME TypeOK
  PROVE  /\ calls \in [Slots -> CallType] /\ codes \in [Codes -> CodeType]
         /\ act \in ActType \cup {None} /\ step \in {"login", "verify", "password"}
         /\ field \in Phones \cup {None} /\ user \in Phones \cup {None} /\ needsPw \in BOOLEAN
         /\ buttons \subseteq {"login", "resend", "verify", "complete"}
         /\ timers \subseteq {"poll", "tick", "strayPoll", "strayTick"}
         /\ chosen \subseteq Phones /\ orderly \in BOOLEAN
         /\ step # "login" => act # None
         /\ step = "password" => act.token # None
BY DEF TypeOK, CallType, CodeType, ActType, Ops

LEMMA TypeFrom ==
  ASSUME calls' \in [Slots -> CallType], codes' \in [Codes -> CodeType],
         act' \in ActType \cup {None}, step' \in {"login", "verify", "password"},
         field' \in Phones \cup {None}, user' \in Phones \cup {None}, needsPw' \in BOOLEAN,
         buttons' \subseteq {"login", "resend", "verify", "complete"},
         timers' \subseteq {"poll", "tick", "strayPoll", "strayTick"},
         chosen' \subseteq Phones, orderly' \in BOOLEAN,
         step' # "login" => act' # None, step' = "password" => act'.token # None
  PROVE  TypeOK'
BY DEF TypeOK, CallType, CodeType, ActType, Ops

LEMMA PlacedBy ==
  ASSUME calls \in [Slots -> CallType], NEW s \in Slots, NEW op \in Ops,
         NEW p \in Phones \cup {None}, NEW i \in Codes \cup {None}, NEW good \in BOOLEAN,
         Put(s, Ask(op, p, i, good))
  PROVE  Placed(s, op, p, i)
<1> DEFINE c == Ask(op, p, i, good)
<1>1. /\ c \in CallType /\ c.op = op /\ c.phone = p /\ c.id = i /\ c.answer = "none" BY AskFields
<1>2. Put(s, c) OBVIOUS
<1> HIDE DEF c
<1> QED BY <1>1, <1>2, PutCalls DEF Placed, Others

LEMMA ClearedBy ==
  ASSUME calls \in [Slots -> CallType], NEW s \in Slots, Put(s, Idle)
  PROVE  Cleared(s)
BY IdleFields, PutCalls DEF Cleared, Others

LEMMA LoginShape ==
  ASSUME TypeOK, NEW s \in Slots, NEW good \in BOOLEAN, Login(s, good)
  PROVE  /\ step = "login" /\ "login" \in buttons /\ calls[s].op = "none"
         /\ \E op \in {"check", "login"}, p \in Phones : Placed(s, op, p, None)
         /\ buttons' = buttons \ {"login"}
         /\ UNCHANGED <<form, step, act, timers, server, orderly>>
<1> DEFINE op == IF needsPw THEN "login" ELSE "check"
<1>1. Put(s, Ask(op, field, None, good)) /\ field # None BY DEF Login
<1>2. op \in {"check", "login"} OBVIOUS
<1> HIDE DEF op
<1>3. Placed(s, op, field, None) /\ field \in Phones
  BY <1>1, <1>2, PlacedBy, TypeFacts DEF Ops
<1>4. calls[s].op = "none" BY SlotFree, IdleFields DEF Login
<1> QED BY <1>2, <1>3, <1>4 DEF Login

\* A request for a number, of the member that the record rec is about.
LEMMA RequestShape ==
  ASSUME TypeOK, NEW s \in Slots, NEW rec \in ActType, NEW others, Request(s, rec, others)
  PROVE  Placed(s, "request", rec.phone, None)
BY PlacedBy, TypeFacts DEF Request, ActType, Ops

LEMMA BlankType ==
  ASSUME NEW p \in Phones PROVE Blank(p) \in ActType /\ Blank(p).phone = p
BY DEF Blank, ActType

\* An answer to the form starts the activation of its member, or not.
LEMMA HearLoginShape ==
  ASSUME TypeOK, NEW s \in Slots, HearLogin(s), calls[s].phone \in Phones
  PROVE  /\ calls[s].op \in {"check", "login"}
         /\ \/ /\ Placed(s, "request", calls[s].phone, None)
               /\ act' = Blank(calls[s].phone) /\ step' = "verify"
               /\ timers' = Stopped(timers)
               /\ buttons' = (buttons \cup {"login"}) \ {"resend", "verify"}
               /\ UNCHANGED form
            \/ /\ Cleared(s) /\ buttons' = buttons \cup {"login"}
               /\ field' = field /\ user' \in {user, calls[s].phone} /\ needsPw' \in BOOLEAN
               /\ UNCHANGED <<step, act, timers>>
         /\ UNCHANGED <<server, orderly>>
<1> calls \in [Slots -> CallType] /\ needsPw \in BOOLEAN BY TypeFacts
<1>1. calls[s].op \in {"check", "login"} BY DEF HearLogin, Heard
<1>2. CASE StartActivation(s) /\ UNCHANGED form
  <2> DEFINE rec == Blank(calls[s].phone)
  <2>1. rec \in ActType /\ rec.phone = calls[s].phone BY BlankType
  <2>2. Request(s, rec, buttons \cup {"login"}) /\ step' = "verify" /\ orderly' = orderly
    BY <1>2 DEF StartActivation
  <2> HIDE DEF rec
  <2>3. Placed(s, "request", rec.phone, None) BY <2>1, <2>2, RequestShape
  <2>4. /\ act' = rec /\ timers' = Stopped(timers)
        /\ buttons' = (buttons \cup {"login"}) \ {"resend", "verify"}
    BY <2>2 DEF Request
  <2> QED BY <1>1, <1>2, <2>1, <2>2, <2>3, <2>4 DEF HearLogin, rec
<1>3. CASE ~ (StartActivation(s) /\ UNCHANGED form)
  <2>1. /\ needsPw' = (IF calls[s].answer = "ok" THEN FALSE ELSE needsPw \/ calls[s].answer = "password")
        /\ user' = (IF calls[s].answer = "ok" THEN calls[s].phone ELSE user)
        /\ buttons' = buttons \cup {"login"} /\ Put(s, Idle)
        /\ UNCHANGED <<field, step, act, timers, orderly, server>>
    BY <1>3 DEF HearLogin
  <2> QED BY <1>1, <2>1, ClearedBy
<1> QED BY <1>2, <1>3

LEMMA SpendOrderly ==
  ASSUME TypeOK, NEW ks, NEW crossing \in BOOLEAN, SpendCrossing(ks, crossing)
  PROVE  /\ orderly' \in BOOLEAN /\ (orderly' => orderly /\ ~crossing)
BY TypeFacts DEF SpendCrossing

LEMMA ResendShape ==
  ASSUME TypeOK, NEW s \in Slots, Resend(s)
  PROVE  /\ step = "verify" /\ act \in ActType /\ calls[s].op = "none"
         /\ Placed(s, "request", act.phone, None)
         /\ act' = act /\ timers' = Stopped(timers) /\ buttons' = buttons \ {"resend", "verify"}
         /\ orderly' \in BOOLEAN /\ (orderly' => orderly /\ ~Under(Activating))
         /\ UNCHANGED <<form, step, server>>
<1>1. step = "verify" /\ act \in ActType BY TypeFacts DEF Resend
<1>2. calls[s].op = "none" BY SlotFree, IdleFields DEF Resend
<1>3. Request(s, act, buttons) BY DEF Resend
<1>4. Under(Activating) \in BOOLEAN BY DEF Under
<1>5. orderly' \in BOOLEAN /\ (orderly' => orderly /\ ~Under(Activating))
  BY <1>4, SpendOrderly DEF Resend
<1>6. Placed(s, "request", act.phone, None) BY <1>1, <1>3, RequestShape
<1> QED BY <1>1, <1>2, <1>3, <1>5, <1>6 DEF Request, Resend

\* The number that was made is asked for, or the button comes back.
LEMMA HearRequestShape ==
  ASSUME TypeOK, NEW s \in Slots, HearRequest(s)
  PROVE  /\ calls[s].op = "request"
         /\ \/ /\ calls[s].answer = "ok" /\ act \in ActType /\ act' \in ActType
               /\ act'.phone = act.phone /\ act'.id = calls[s].got /\ act'.token = act.token
               /\ act'.clock = act.clock
               /\ timers' = Started("poll", timers)
               /\ Placed(s, "status", act.phone, calls[s].got) /\ UNCHANGED buttons
            \/ /\ buttons' = buttons \cup {"resend"} /\ Cleared(s) /\ UNCHANGED <<act, timers>>
         /\ UNCHANGED <<form, step, server, orderly>>
<1> calls \in [Slots -> CallType] BY TypeFacts
<1> calls[s].got \in Codes \cup {None} BY DEF CallType
<1>1. calls[s].op = "request" /\ UNCHANGED <<form, step, server, orderly>>
  BY DEF HearRequest, Heard
<1>2. CASE calls[s].answer = "ok" /\ act # None
  <2>1. /\ act' = [act EXCEPT !.id = calls[s].got] /\ timers' = Started("poll", timers)
        /\ Put(s, Ask("status", act.phone, calls[s].got, FALSE)) /\ UNCHANGED buttons
    BY <1>2 DEF HearRequest
  <2>2. act \in ActType BY <1>2, TypeFacts
  <2>3. act.phone \in Phones \cup {None} BY <2>2 DEF ActType
  <2>4. Placed(s, "status", act.phone, calls[s].got)
    BY <2>1, <2>3, PlacedBy DEF Ops
  <2>5. /\ act' \in ActType /\ act'.phone = act.phone /\ act'.id = calls[s].got
        /\ act'.token = act.token /\ act'.clock = act.clock
    BY <2>1, <2>2 DEF ActType
  <2> QED BY <1>1, <1>2, <2>1, <2>2, <2>4, <2>5
<1>3. CASE ~ (calls[s].answer = "ok" /\ act # None)
  <2>1. buttons' = buttons \cup {"resend"} /\ Put(s, Idle) /\ UNCHANGED <<act, timers>>
    BY <1>3 DEF HearRequest
  <2> QED BY <1>1, <2>1, ClearedBy
<1> QED BY <1>2, <1>3

LEMMA PollShape ==
  ASSUME TypeOK, NEW s \in Slots, Poll(s)
  PROVE  /\ timers \cap {"poll", "strayPoll"} # {} /\ act \in ActType /\ act.id \in Codes
         /\ calls[s].op = "none" /\ Placed(s, "status", act.phone, act.id)
         /\ orderly' \in BOOLEAN /\ (orderly' => orderly /\ ~Under({"status"}))
         /\ UNCHANGED <<form, step, act, buttons, timers, server>>
<1>1. act \in ActType BY TypeFacts DEF Poll
<1>2. act.id \in Codes /\ act.phone \in Phones BY <1>1 DEF Poll, ActType
<1>3. calls[s].op = "none" BY SlotFree, IdleFields DEF Poll
<1>4. Placed(s, "status", act.phone, act.id)
  BY <1>2, PlacedBy, TypeFacts DEF Poll, Ops
<1>5. Under({"status"}) \in BOOLEAN BY DEF Under
<1>6. orderly' \in BOOLEAN /\ (orderly' => orderly /\ ~Under({"status"}))
  BY <1>5, SpendOrderly DEF Poll
<1> QED BY <1>1, <1>2, <1>3, <1>4, <1>6 DEF Poll

\* The text has gone out and the minute begins, or it never will, or the page asks on.
LEMMA HearStatusShape ==
  ASSUME TypeOK, NEW s \in Slots, HearStatus(s)
  PROVE  /\ calls[s].op = "status" /\ Cleared(s)
         /\ \/ UNCHANGED <<act, buttons, timers>>
            \/ /\ act \in ActType /\ act' \in ActType
               /\ act'.phone = act.phone /\ act'.id = act.id /\ act'.token = act.token
               /\ act'.clock = calls[s].id
               /\ timers' = Started("tick", timers \ {"poll"})
               /\ buttons' = buttons \cup {"verify"}
            \/ /\ act' = act /\ timers' = timers \ {"poll"} /\ buttons' = buttons \cup {"resend"}
         /\ UNCHANGED <<form, step, server, orderly>>
<1> calls \in [Slots -> CallType] BY TypeFacts
<1> calls[s].id \in Codes \cup {None} BY DEF CallType
<1>1. calls[s].op = "status" /\ UNCHANGED <<form, step, server, orderly>> /\ Put(s, Idle)
  BY DEF HearStatus, Heard
<1>2. Cleared(s) BY <1>1, ClearedBy
<1>3. CASE act = None \/ calls[s].answer \notin {"sent", "failed", "expired"}
  BY <1>1, <1>2, <1>3 DEF HearStatus
<1>4. CASE act # None /\ calls[s].answer = "sent"
  <2>1. /\ timers' = Started("tick", timers \ {"poll"}) /\ buttons' = buttons \cup {"verify"}
        /\ act' = [act EXCEPT !.clock = calls[s].id]
    BY <1>4 DEF HearStatus
  <2>2. act \in ActType BY <1>4, TypeFacts
  <2>3. /\ act' \in ActType /\ act'.phone = act.phone /\ act'.id = act.id
        /\ act'.token = act.token /\ act'.clock = calls[s].id
    BY <2>1, <2>2 DEF ActType
  <2> QED BY <1>1, <1>2, <2>1, <2>2, <2>3
<1>5. CASE act # None /\ calls[s].answer \in {"failed", "expired"}
  <2>1. /\ act' = act /\ timers' = timers \ {"poll"} /\ buttons' = buttons \cup {"resend"}
    BY <1>5 DEF HearStatus
  <2> QED BY <1>1, <1>2, <2>1
<1> QED BY <1>3, <1>4, <1>5

LEMMA SubmitCodeShape ==
  ASSUME TypeOK, NEW s \in Slots, NEW good \in BOOLEAN, SubmitCode(s, good)
  PROVE  /\ step = "verify" /\ "verify" \in buttons /\ act \in ActType /\ act.id \in Codes
         /\ calls[s].op = "none" /\ Placed(s, "verify", act.phone, act.id)
         /\ buttons' = buttons \ {"verify"}
         /\ UNCHANGED <<form, step, act, timers, server, orderly>>
<1>1. act \in ActType BY TypeFacts DEF SubmitCode
<1>2. act.id \in Codes /\ act.phone \in Phones BY <1>1 DEF SubmitCode, ActType
<1>3. calls[s].op = "none" BY SlotFree, IdleFields DEF SubmitCode
<1>4. Placed(s, "verify", act.phone, act.id)
  BY <1>2, PlacedBy, TypeFacts DEF SubmitCode, Ops
<1> QED BY <1>1, <1>2, <1>3, <1>4 DEF SubmitCode

LEMMA HearVerifyShape ==
  ASSUME TypeOK, NEW s \in Slots, HearVerify(s), calls[s].phone \in Phones
  PROVE  /\ calls[s].op = "verify" /\ Cleared(s)
         /\ \/ /\ act \in ActType /\ act' \in ActType /\ step' = "password"
               /\ act'.token = calls[s].phone
               /\ timers' = Stopped(timers) /\ UNCHANGED buttons
            \/ /\ buttons' \in {buttons \cup {"resend"}, buttons \cup {"verify"}}
               /\ UNCHANGED <<act, step, timers>>
         /\ UNCHANGED <<form, server, orderly>>
<1>1. calls[s].op = "verify" /\ UNCHANGED <<form, server, orderly>> /\ Put(s, Idle)
  BY DEF HearVerify, Heard
<1>2. Cleared(s) BY <1>1, ClearedBy, TypeFacts
<1>3. CASE calls[s].answer = "ok" /\ act # None
  <2>1. /\ act' = [act EXCEPT !.token = calls[s].phone] /\ step' = "password"
        /\ timers' = Stopped(timers) /\ UNCHANGED buttons
    BY <1>3 DEF HearVerify
  <2>2. act \in ActType BY <1>3, TypeFacts
  <2>3. act' \in ActType /\ act'.token = calls[s].phone BY <2>1, <2>2 DEF ActType
  <2> QED BY <1>1, <1>2, <2>1, <2>2, <2>3
<1>4. CASE ~ (calls[s].answer = "ok" /\ act # None)
  <2>1. /\ buttons' = buttons \cup {IF calls[s].answer = "again" THEN "resend" ELSE "verify"}
        /\ UNCHANGED <<act, step, timers>>
    BY <1>4 DEF HearVerify
  <2> QED BY <1>1, <1>2, <2>1
<1> QED BY <1>3, <1>4

LEMMA SubmitPasswordShape ==
  ASSUME TypeOK, NEW s \in Slots, SubmitPassword(s)
  PROVE  /\ step = "password" /\ calls[s].op = "none"
         /\ \E p \in Phones : Placed(s, "complete", p, None)
         /\ buttons' = buttons \ {"complete"}
         /\ UNCHANGED <<form, step, act, timers, server, orderly>>
<1>1. step = "password" /\ act \in ActType /\ act.token # None BY TypeFacts DEF SubmitPassword
<1>2. act.token \in Phones BY <1>1 DEF ActType
<1>3. calls[s].op = "none" BY SlotFree, IdleFields DEF SubmitPassword
<1>4. Placed(s, "complete", act.token, None)
  BY <1>2, PlacedBy, TypeFacts DEF SubmitPassword, Ops
<1> QED BY <1>1, <1>2, <1>3, <1>4 DEF SubmitPassword

LEMMA HearCompleteShape ==
  ASSUME TypeOK, NEW s \in Slots, HearComplete(s)
  PROVE  /\ calls[s].op = "complete" /\ Cleared(s) /\ buttons' = buttons \cup {"complete"}
         /\ \/ act' = None /\ step' = "login" /\ timers' = Abandoned(timers)
               /\ user' = calls[s].phone
            \/ UNCHANGED <<act, step, user, timers>>
         /\ UNCHANGED <<field, needsPw, server, orderly>>
<1>1. calls[s].op = "complete" /\ Put(s, Idle) BY DEF HearComplete, Heard
<1>2. Cleared(s) BY <1>1, ClearedBy, TypeFacts
<1> QED BY <1>1, <1>2 DEF HearComplete

-------------------------------------------------------------------------------
(* Types: what the calls and the rows have to do with each other.          *)

\* The page shows the record's steps while there is a record; the form is waited for
\* once; only a request for a number is decided first; each call is about somebody.
PageInv ==
  /\ act = None <=> step = "login"
  /\ \A s \in Slots :
       /\ calls[s].op \in {"check", "login"} => step = "login" /\ "login" \notin buttons
       /\ calls[s].op # "none" => calls[s].phone \in Phones
       /\ calls[s].answer = "deciding" => calls[s].op = "request"
       /\ calls[s].op \in {"status", "verify"} => calls[s].id \in Codes
       /\ calls[s].op = "request" /\ calls[s].answer = "ok" => calls[s].got \in Codes
  /\ \A s, t \in Slots :
       calls[s].op \in {"check", "login"} /\ calls[t].op \in {"check", "login"} => s = t

\* A number is used up, or its text will never go out.
Spent(i) == codes[i].sms = "failed" \/ codes[i].verified
\* In its first minute a number is not late and its text has not run out.
YoungFits(i) ==
  codes[i].young => ~codes[i].late /\ codes[i].sms \in {"queued", "claimed", "fresh", "failed"}

\* Rows are made in the order of their ids, of which there is a largest.
CodesInv ==
  /\ \E b \in Nat : \A i \in Codes : codes[i].phone # None => i <= b
  /\ \A i \in Codes : codes[i].phone = None => codes[i] = NoCode
  /\ \A i, j \in Codes : codes[i].phone # None /\ codes[j].phone = None => i < j
  /\ \A i \in Codes : YoungFits(i)

TypeInv == TypeOK /\ PageInv /\ CodesInv

\* What no step but the making of a row does to a row.
Kept(i) ==
  /\ codes'[i].phone = codes[i].phone
  /\ codes[i].phone = None => codes'[i] = codes[i]
  /\ codes'[i].young => codes[i].young
  /\ Spent(i) => Spent(i)'
  /\ YoungFits(i)'
Onward == codes' \in [Codes -> CodeType] /\ \A i \in Codes : Kept(i)

LEMMA KeptSame ==
  ASSUME CodesInv, NEW i \in Codes, codes'[i] = codes[i] PROVE Kept(i)
BY DEF Kept, Spent, YoungFits, CodesInv

LEMMA OnwardSame ==
  ASSUME TypeOK, CodesInv, codes' = codes PROVE Onward
BY KeptSame, TypeFacts DEF Onward

LEMMA OnwardCodes ==
  ASSUME CodesInv, Onward PROVE CodesInv'
<1>1. \A i \in Codes : codes'[i].phone = codes[i].phone BY DEF Onward, Kept
<1>2. PICK b \in Nat : \A i \in Codes : codes[i].phone # None => i <= b BY DEF CodesInv
<1>3. \E c \in Nat : \A i \in Codes : codes'[i].phone # None => i <= c BY <1>1, <1>2
<1>4. \A i \in Codes : codes'[i].phone = None => codes'[i] = NoCode
  BY <1>1 DEF Onward, Kept, CodesInv
<1>5. \A i, j \in Codes : codes'[i].phone # None /\ codes'[j].phone = None => i < j
  BY <1>1 DEF CodesInv
<1>6. \A i \in Codes : YoungFits(i)' BY DEF Onward, Kept
<1> QED BY <1>3, <1>4, <1>5, <1>6 DEF CodesInv

\* The newest row of a member who has one.
NewestOf(i, p) ==
  i \in Codes /\ codes[i].phone = p /\ \A j \in Codes : codes[j].phone = p => j <= i

LEMMA NewestIs ==
  ASSUME CodesInv, NEW p \in Phones, HasNewest(p) PROVE NewestOf(Newest(p), p)
<1>0. p # None BY ActivationAssumption
<1>1. Made(p) \subseteq Nat /\ Made(p) # {} BY ActivationAssumption DEF Made, HasNewest
<1>2. PICK b \in Nat : \A i \in Codes : codes[i].phone # None => i <= b BY DEF CodesInv
<1>3. \A i \in Made(p) : i <= b BY <1>0, <1>2 DEF Made
<1>4. Newest(p) \in Made(p) /\ \A k \in Made(p) : k <= Newest(p) BY <1>1, <1>3, MaxOf DEF Newest
<1> QED BY <1>4 DEF NewestOf, Made

\* A reply of the server to the call in s, or its loss: the page has not heard of it.
Replied(s) ==
  /\ calls' \in [Slots -> CallType] /\ Others(s)
  /\ calls'[s].op = calls[s].op /\ calls'[s].phone = calls[s].phone /\ calls'[s].id = calls[s].id
  /\ UNCHANGED <<form, step, act, buttons, timers, orderly>>

LEMMA RepliedBy ==
  ASSUME TypeOK, NEW s \in Slots, NEW a \in Answers, Answer(s, a),
         UNCHANGED <<form, step, act, buttons, timers, orderly>>
  PROVE  Replied(s) /\ calls'[s].answer = a /\ calls'[s].got = calls[s].got
BY AnswerCalls, TypeFacts DEF Replied, Others

LEMMA RepliedGot ==
  ASSUME TypeOK, NEW s \in Slots, NEW g \in Codes, Put(s, [calls[s] EXCEPT !.answer = "ok", !.got = g]),
         UNCHANGED <<form, step, act, buttons, timers, orderly>>
  PROVE  Replied(s) /\ calls'[s].answer = "ok" /\ calls'[s].got = g
<1> DEFINE c == [calls[s] EXCEPT !.answer = "ok", !.got = g]
<1>1. calls \in [Slots -> CallType] BY TypeFacts
<1>2. /\ c \in CallType /\ c.op = calls[s].op /\ c.phone = calls[s].phone /\ c.id = calls[s].id
      /\ c.answer = "ok" /\ c.got = g
  BY <1>1 DEF CallType, Answers
<1>3. Put(s, c) OBVIOUS
<1> HIDE DEF c
<1> QED BY <1>1, <1>2, <1>3, PutCalls DEF Replied, Others

\* The server's steps: what becomes of the call and of the rows.
LEMMA ServeLoginShape ==
  ASSUME TypeInv, NEW s \in Slots, ServeLogin(s)
  PROVE  Replied(s) /\ calls[s].op \in {"check", "login"} /\ calls'[s].answer # "deciding" /\ UNCHANGED server
<1> DEFINE a == CASE calls[s].op = "check" -> IF calls[s].phone \in chosen THEN "password" ELSE "verify"
                  [] calls[s].op = "login" /\ calls[s].phone \notin chosen -> "required"
                  [] OTHER -> IF calls[s].good THEN "ok" ELSE "no"
<1>1. Answer(s, a) /\ UNCHANGED <<form, step, act, buttons, timers, server, budget, orderly>>
  BY DEF ServeLogin
<1>2. calls[s].op \in {"check", "login"} BY DEF ServeLogin
<1>3. a \in {"password", "verify", "required", "ok", "no"} BY <1>2
<1> HIDE DEF a
<1> QED BY <1>1, <1>2, <1>3, RepliedBy DEF TypeInv, Answers

LEMMA DecideCodeShape ==
  ASSUME TypeInv, NEW s \in Slots, DecideCode(s)
  PROVE  /\ Replied(s) /\ calls[s].op = "request" /\ UNCHANGED server
         /\ \/ calls'[s].answer = "no"
            \/ calls'[s].answer = "ok" /\ NewestOf(calls'[s].got, calls[s].phone)
            \/ calls'[s].answer = "deciding" /\ ~ Recent(calls[s].phone)
<1> DEFINE p == calls[s].phone
<1>1. /\ calls[s].op = "request"
      /\ UNCHANGED <<form, step, act, buttons, timers, server, budget, orderly>>
  BY DEF DecideCode
<1>2. p \in Phones BY <1>1 DEF TypeInv, PageInv
<1>3. CASE Answer(s, "no") BY <1>1, <1>3, RepliedBy DEF TypeInv, Answers
<1>4. CASE p \notin chosen /\ Recent(p)
  <2>1. Put(s, [calls[s] EXCEPT !.answer = "ok", !.got = Newest(p)]) BY <1>4 DEF DecideCode
  <2>2. NewestOf(Newest(p), p) BY <1>2, <1>4, NewestIs DEF Recent, TypeInv
  <2>3. Newest(p) \in Codes BY <2>2 DEF NewestOf
  <2> QED BY <1>1, <2>1, <2>2, <2>3, RepliedGot DEF TypeInv
<1>5. CASE p \notin chosen /\ ~ Recent(p)
  <2>1. Answer(s, "no") \/ Answer(s, "deciding") BY <1>5 DEF DecideCode
  <2> QED BY <1>1, <1>3, <1>5, <2>1, RepliedBy DEF TypeInv, Answers
<1>6. CASE p \in chosen BY <1>3, <1>6 DEF DecideCode
<1> QED BY <1>4, <1>5, <1>6

\* A row is made, with a larger id than any.
LEMMA MakeCodeShape ==
  ASSUME TypeInv, NEW s \in Slots, MakeCode(s)
  PROVE  /\ Replied(s) /\ calls[s].op = "request" /\ calls[s].answer = "deciding"
         /\ calls'[s].answer = "ok" /\ calls'[s].got = NextCode
         /\ NextCode \in Codes /\ codes[NextCode].phone = None
         /\ \A i \in Codes : codes[i].phone # None => i < NextCode
         /\ \A i \in Codes : codes[i].phone = None => NextCode <= i
         /\ codes' \in [Codes -> CodeType]
         /\ codes'[NextCode].phone = calls[s].phone
         /\ ~codes'[NextCode].late /\ codes'[NextCode].sms = "queued"
         /\ \A i \in Codes \ {NextCode} : codes'[i] = codes[i]
         /\ chosen' = chosen
<1>1. /\ calls[s].answer = "deciding" /\ \E i \in Codes : codes[i] = NoCode
      /\ codes' = [codes EXCEPT ![NextCode] = [NoCode EXCEPT !.phone = calls[s].phone, !.sms = "queued",
                                                      !.young = TRUE]]
      /\ Put(s, [calls[s] EXCEPT !.answer = "ok", !.got = NextCode])
      /\ UNCHANGED <<form, step, act, buttons, timers, chosen, budget, orderly>>
  BY DEF MakeCode
<1>2. calls[s].op = "request" /\ calls[s].phone \in Phones BY <1>1 DEF TypeInv, PageInv
<1>3. /\ NextCode \in Codes /\ codes[NextCode] = NoCode
      /\ \A j \in Codes : codes[j] = NoCode => NextCode <= j
  BY <1>1, NextFree
<1>4. codes[NextCode].phone = None BY <1>3, NoCodeFields
<1> DEFINE c == [NoCode EXCEPT !.phone = calls[s].phone, !.sms = "queued", !.young = TRUE]
<1>5. c \in CodeType /\ c.phone = calls[s].phone /\ ~c.late /\ c.sms = "queued"
  BY <1>2, NoCodeFields DEF CodeType
<1>6. codes' = [codes EXCEPT ![NextCode] = c] BY <1>1
<1> HIDE DEF c
<1>7. /\ codes' \in [Codes -> CodeType] /\ codes'[NextCode] = c
      /\ \A i \in Codes \ {NextCode} : codes'[i] = codes[i]
  BY <1>3, <1>5, <1>6, TypeFacts DEF TypeInv
<1>8. Replied(s) /\ calls'[s].answer = "ok" /\ calls'[s].got = NextCode
  BY <1>1, <1>3, RepliedGot DEF TypeInv
<1>9. /\ \A i \in Codes : codes[i].phone # None => i < NextCode
      /\ \A i \in Codes : codes[i].phone = None => NextCode <= i
  BY <1>3, <1>4 DEF TypeInv, CodesInv
<1> QED BY <1>1, <1>2, <1>3, <1>4, <1>5, <1>7, <1>8, <1>9

LEMMA StatusShape ==
  ASSUME TypeInv, NEW s \in Slots, Status(s)
  PROVE  Replied(s) /\ Onward /\ chosen' = chosen /\ calls[s].op = "status" /\ calls'[s].answer # "deciding"
<1> TypeOK /\ CodesInv BY DEF TypeInv
<1>1. /\ calls[s].op = "status" /\ chosen' = chosen
      /\ UNCHANGED <<form, step, act, buttons, timers, orderly>>
  BY DEF Status
<1>i. PICK i \in Codes : i = calls[s].id BY <1>1 DEF TypeInv, PageInv
<1>2. calls[s].phone \in Phones BY <1>1 DEF TypeInv, PageInv
<1>3. SmsState(i) \in {"expired", "failed", "sent", "sending"} BY DEF SmsState
<1>4. Answer(s, "no") \/ Answer(s, SmsState(i)) BY <1>i DEF Status
<1>5. Replied(s) /\ calls'[s].answer # "deciding"
  BY <1>1, <1>3, <1>4, RepliedBy DEF Answers
<1>6. \/ codes' = codes
      \/ codes[i].phone # None /\ codes' = [codes EXCEPT ![i].sms = "failed"]
  BY <1>i, <1>2, ActivationAssumption DEF Status
<1>7. CASE codes' = codes BY <1>1, <1>5, <1>7, OnwardSame
<1>8. CASE codes[i].phone # None /\ codes' = [codes EXCEPT ![i].sms = "failed"]
  <2>1. codes \in [Codes -> CodeType] BY TypeFacts
  <2>2. /\ codes' \in [Codes -> CodeType] /\ codes'[i].phone = codes[i].phone
        /\ codes'[i].young = codes[i].young /\ codes'[i].late = codes[i].late
        /\ codes'[i].sms = "failed"
        /\ \A j \in Codes \ {i} : codes'[j] = codes[j]
    BY <1>2, <1>8, <2>1 DEF CodeType
  <2>3. Kept(i) BY <1>2, <1>8, <2>2 DEF Kept, Spent, YoungFits, CodesInv
  <2>4. Onward BY <2>2, <2>3, KeptSame DEF Onward
  <2> QED BY <1>1, <1>5, <2>4
<1> QED BY <1>6, <1>7, <1>8

LEMMA VerifyCodeShape ==
  ASSUME TypeInv, NEW s \in Slots, VerifyCode(s)
  PROVE  Replied(s) /\ Onward /\ chosen' = chosen /\ calls[s].op = "verify" /\ calls'[s].answer # "deciding"
<1> DEFINE v == Verdict(calls[s].id, calls[s].phone)
<1> TypeOK /\ CodesInv BY DEF TypeInv
<1>0. codes \in [Codes -> CodeType] /\ calls \in [Slots -> CallType] BY TypeFacts
<1>1. /\ calls[s].op = "verify" /\ chosen' = chosen
      /\ UNCHANGED <<form, step, act, buttons, timers, orderly>>
  BY DEF VerifyCode
<1>i. PICK i \in Codes : i = calls[s].id BY <1>1 DEF TypeInv, PageInv
<1>2. calls[s].phone \in Phones /\ calls[s].good \in BOOLEAN
  BY <1>0, <1>1 DEF TypeInv, PageInv, CallType
<1>3. v \in {"again", "no", "ok"} BY DEF Verdict
<1>4. Answer(s, v) \/ Answer(s, "ok") \/ Answer(s, "no") \/ Answer(s, "again") BY DEF VerifyCode
<1>5. Replied(s) /\ calls'[s].answer # "deciding"
  BY <1>1, <1>3, <1>4, RepliedBy DEF Answers
<1>6. CASE v # "ok"
  <2>1. codes' = codes BY <1>6 DEF VerifyCode
  <2> QED BY <1>1, <1>5, <2>1, OnwardSame
<1>7. CASE v = "ok"
  <2>1. codes' = [codes EXCEPT ![i].attempts = @ + 1, ![i].verified = calls[s].good]
    BY <1>i, <1>7 DEF VerifyCode
  <2>2. /\ codes[i].phone = calls[s].phone /\ ~codes[i].verified /\ codes[i].attempts < MaxAttempts
        /\ codes[i].sms \in {"fresh", "grace", "over"}
    BY <1>0, <1>i, <1>2, <1>7, ActivationAssumption DEF Verdict, CodeType
  <2>3. codes[i].attempts + 1 \in 0..MaxAttempts
    <3>1. codes[i].attempts \in 0..MaxAttempts BY <1>0 DEF CodeType
    <3> QED BY <2>2, <3>1, ActivationAssumption
  <2>4. /\ codes' \in [Codes -> CodeType] /\ codes'[i].phone = codes[i].phone
        /\ codes'[i].young = codes[i].young /\ codes'[i].late = codes[i].late
        /\ codes'[i].sms = codes[i].sms
        /\ \A j \in Codes \ {i} : codes'[j] = codes[j]
    BY <1>0, <1>2, <2>1, <2>3 DEF CodeType
  <2>5. codes[i].phone # None BY <1>2, <2>2, ActivationAssumption
  <2>6. Kept(i) BY <1>2, <2>2, <2>4, <2>5 DEF Kept, Spent, YoungFits, CodesInv
  <2>7. Onward BY <2>4, <2>6, KeptSame DEF Onward
  <2> QED BY <1>1, <1>5, <2>7
<1> QED BY <1>6, <1>7

LEMMA CompleteShape ==
  ASSUME TypeInv, NEW s \in Slots, Complete(s)
  PROVE  /\ Replied(s) /\ codes' = codes /\ chosen' \subseteq Phones
         /\ calls[s].op = "complete" /\ calls'[s].answer # "deciding"
<1>1. /\ calls[s].op = "complete" /\ chosen' = chosen \cup {calls[s].phone}
      /\ Answer(s, "no") \/ Answer(s, "ok")
      /\ UNCHANGED <<form, step, act, buttons, timers, codes, orderly>>
  BY DEF Complete
<1>2. calls[s].phone \in Phones BY <1>1 DEF TypeInv, PageInv
<1> QED BY <1>1, <1>2, RepliedBy, TypeFacts DEF TypeInv, Answers

LEMMA LoseShape ==
  ASSUME TypeInv, NEW s \in Slots, Lose(s)
  PROVE  Replied(s) /\ UNCHANGED server /\ calls'[s].answer = "lost"
BY RepliedBy DEF Lose, TypeInv, Answers

\* Texts and time: nothing of the page changes.
LEMMA WorldShape ==
  ASSUME TypeInv, NEW i \in Codes, Carry(i) \/ Ages(i) \/ RunsOut(i)
  PROVE  Onward /\ UNCHANGED World
<1> TypeOK /\ CodesInv BY DEF TypeInv
<1>0. codes \in [Codes -> CodeType] BY TypeFacts
<1>n. codes[i].phone = None => codes[i].sms = "none" BY NoCodeFields DEF CodesInv
<1>1. UNCHANGED World BY DEF Carry, Ages, RunsOut
<1>2. ASSUME NEW to \in {"claimed", "failed", "fresh", "grace", "over"}, codes[i].phone # None,
             codes[i].sms # "failed", codes' = [codes EXCEPT ![i].sms = to],
             codes[i].young => to \in {"claimed", "failed", "fresh"}
      PROVE  Onward
  <2>1. /\ codes' \in [Codes -> CodeType] /\ codes'[i].phone = codes[i].phone
        /\ codes'[i].young = codes[i].young /\ codes'[i].late = codes[i].late
        /\ codes'[i].sms = to /\ codes'[i].verified = codes[i].verified
        /\ \A j \in Codes \ {i} : codes'[j] = codes[j]
    BY <1>0, <1>2 DEF CodeType
  <2>2. Kept(i) BY <1>2, <2>1 DEF Kept, Spent, YoungFits, CodesInv
  <2> QED BY <2>1, <2>2, KeptSame DEF Onward
<1>3. CASE Carry(i)
  <2>1. \/ SetSms(i, "queued", "claimed") \/ SetSms(i, "claimed", "fresh")
        \/ SetSms(i, "claimed", "failed")
    BY <1>3 DEF Carry
  <2> QED BY <1>1, <1>2, <1>n, <2>1 DEF SetSms
<1>4. CASE RunsOut(i)
  <2>1. ~codes[i].young /\ (SetSms(i, "fresh", "grace") \/ SetSms(i, "grace", "over"))
    BY <1>4 DEF RunsOut
  <2> QED BY <1>1, <1>2, <1>n, <2>1 DEF SetSms
<1>5. CASE Ages(i)
  <2>1. /\ codes[i].phone # None
        /\ \/ codes' = [codes EXCEPT ![i].young = FALSE]
           \/ ~codes[i].young /\ codes' = [codes EXCEPT ![i].late = TRUE]
    BY <1>5 DEF Ages
  <2>2. /\ codes' \in [Codes -> CodeType] /\ codes'[i].phone = codes[i].phone
        /\ ~codes'[i].young /\ codes'[i].sms = codes[i].sms
        /\ codes'[i].verified = codes[i].verified
        /\ \A j \in Codes \ {i} : codes'[j] = codes[j]
    BY <1>0, <2>1 DEF CodeType
  <2>3. Kept(i) BY <2>1, <2>2 DEF Kept, Spent, YoungFits
  <2> QED BY <1>1, <2>2, <2>3, KeptSame DEF Onward
<1> QED BY <1>3, <1>4, <1>5

LEMMA NextSteps ==
  ASSUME Next
  PROVE  \/ \E p \in Phones : Edit(p)
         \/ Logout \/ Tick \/ Cancel
         \/ \E s \in Slots, good \in BOOLEAN : Login(s, good) \/ SubmitCode(s, good)
         \/ \E s \in Slots :
              \/ HearLogin(s) \/ Resend(s) \/ HearRequest(s) \/ Poll(s) \/ HearStatus(s)
              \/ HearVerify(s) \/ SubmitPassword(s) \/ HearComplete(s)
         \/ \E s \in Slots :
              \/ ServeLogin(s) \/ DecideCode(s) \/ MakeCode(s) \/ Status(s) \/ VerifyCode(s)
              \/ Complete(s) \/ Lose(s)
         \/ \E i \in Codes : Carry(i) \/ Ages(i) \/ RunsOut(i)
BY DEF Next, Serve, Hear

\* A reply changes what a call says, not what it is about.
LEMMA ReplyType ==
  ASSUME TypeInv, NEW s \in Slots, Replied(s),
         codes' \in [Codes -> CodeType], CodesInv', chosen' \subseteq Phones,
         calls'[s].answer = "deciding" => calls[s].op = "request",
         calls[s].op = "request" /\ calls'[s].answer = "ok" => calls'[s].got \in Codes
  PROVE  TypeInv'
<1>1. UNCHANGED <<form, step, act, buttons, timers, orderly>> BY DEF Replied
<1>2. TypeOK' BY <1>1, TypeFacts, TypeFrom DEF TypeInv, Replied, form
<1>3. PageInv' BY <1>1 DEF TypeInv, PageInv, Replied, Others
<1> QED BY <1>2, <1>3 DEF TypeInv

\* A step of the page with one call, that is not one of the login form.
LEMMA PageType ==
  ASSUME TypeInv, NEW s \in Slots, calls' \in [Slots -> CallType], Others(s), UNCHANGED server,
         calls'[s].op \notin {"check", "login"}, calls'[s].answer = "none",
         calls'[s].op # "none" => calls'[s].phone \in Phones,
         calls'[s].op \in {"status", "verify"} => calls'[s].id \in Codes,
         act' \in ActType \cup {None}, step' \in {"login", "verify", "password"},
         act' = None <=> step' = "login", step' = "password" => act'.token # None,
         field' \in Phones \cup {None}, user' \in Phones \cup {None}, needsPw' \in BOOLEAN,
         buttons' \subseteq {"login", "resend", "verify", "complete"},
         timers' \subseteq {"poll", "tick", "strayPoll", "strayTick"}, orderly' \in BOOLEAN,
         \/ step' = "login" /\ ("login" \in buttons' => "login" \in buttons)
         \/ \A t \in Slots \ {s} : calls[t].op \notin {"check", "login"}
  PROVE  TypeInv'
<1>1. codes' = codes /\ chosen' = chosen BY DEF server
<1>2. TypeOK' BY <1>1, TypeFacts, TypeFrom DEF TypeInv
<1>3. PageInv'
  <2>1. \A t \in Slots \ {s} : calls'[t] = calls[t] BY DEF Others
  <2>2. \A t \in Slots : calls'[t].op \in {"check", "login"} =>
          t # s /\ calls[t].op \in {"check", "login"} /\ step' = "login" /\ "login" \notin buttons'
    BY <2>1 DEF TypeInv, PageInv
  <2>3. \A t \in Slots :
          /\ calls'[t].op # "none" => calls'[t].phone \in Phones
          /\ calls'[t].answer = "deciding" => calls'[t].op = "request"
          /\ calls'[t].op \in {"status", "verify"} => calls'[t].id \in Codes
          /\ calls'[t].op = "request" /\ calls'[t].answer = "ok" => calls'[t].got \in Codes
    BY <2>1 DEF TypeInv, PageInv
  <2>4. \A t, u \in Slots :
          calls'[t].op \in {"check", "login"} /\ calls'[u].op \in {"check", "login"} => t = u
    BY <2>1, <2>2 DEF TypeInv, PageInv
  <2> QED BY <2>2, <2>3, <2>4 DEF PageInv
<1>4. CodesInv' BY <1>1, OnwardSame, OnwardCodes DEF TypeInv
<1> QED BY <1>2, <1>3, <1>4 DEF TypeInv

\* A step without calls.
LEMMA AloneType ==
  ASSUME TypeInv, calls' = calls, UNCHANGED server,
         act' \in ActType \cup {None}, step' \in {"login", "verify", "password"},
         act' = None <=> step' = "login", step' = "password" => act'.token # None,
         step = "login" => step' = "login",
         field' \in Phones \cup {None}, user' \in Phones \cup {None}, needsPw' \in BOOLEAN,
         buttons' \subseteq {"login", "resend", "verify", "complete"},
         "login" \in buttons' => "login" \in buttons,
         timers' \subseteq {"poll", "tick", "strayPoll", "strayTick"}, orderly' \in BOOLEAN
  PROVE  TypeInv'
<1>1. codes' = codes /\ chosen' = chosen BY DEF server
<1>2. TypeOK' BY <1>1, TypeFacts, TypeFrom DEF TypeInv
<1>3. PageInv' BY DEF TypeInv, PageInv
<1>4. CodesInv' BY <1>1, OnwardSame, OnwardCodes DEF TypeInv
<1> QED BY <1>2, <1>3, <1>4 DEF TypeInv

LEMMA TimersType ==
  ASSUME timers \subseteq {"poll", "tick", "strayPoll", "strayTick"}
  PROVE  /\ Stopped(timers) \subseteq {"poll", "tick", "strayPoll", "strayTick"}
         /\ Abandoned(timers) \subseteq {"poll", "tick", "strayPoll", "strayTick"}
         /\ \A t \in {"poll", "tick"} :
              /\ Started(t, timers) \subseteq {"poll", "tick", "strayPoll", "strayTick"}
              /\ Started(t, timers \ {"poll"}) \subseteq {"poll", "tick", "strayPoll", "strayTick"}
<1>1. \A t \in {"poll", "tick"} : Stray[t] \in {"strayPoll", "strayTick"} BY DEF Stray
<1> QED BY <1>1 DEF Stopped, Abandoned, Started

LEMMA LoginType ==
  ASSUME TypeInv, NEW s \in Slots, NEW good \in BOOLEAN, Login(s, good) PROVE TypeInv'
<1> TypeOK /\ PageInv /\ CodesInv BY DEF TypeInv
<1>1. PICK op \in {"check", "login"}, p \in Phones : Placed(s, op, p, None) BY LoginShape
<1>2. /\ step = "login" /\ "login" \in buttons /\ buttons' = buttons \ {"login"}
      /\ UNCHANGED <<form, step, act, timers, server, orderly>>
  BY LoginShape
<1>3. codes' = codes /\ chosen' = chosen BY <1>2 DEF server
<1>4. TypeOK' BY <1>1, <1>2, <1>3, TypeFacts, TypeFrom DEF Placed, form
<1>5. \A t \in Slots : calls[t].op \notin {"check", "login"} BY <1>2 DEF PageInv
<1>6. PageInv' BY <1>1, <1>2, <1>5 DEF PageInv, Placed, Others
<1>7. CodesInv' BY <1>3, OnwardSame, OnwardCodes
<1> QED BY <1>4, <1>6, <1>7 DEF TypeInv

LEMMA HearLoginType ==
  ASSUME TypeInv, NEW s \in Slots, HearLogin(s) PROVE TypeInv'
<1> TypeOK /\ PageInv /\ CodesInv BY DEF TypeInv
<1>0. calls[s].op \in {"check", "login"} BY DEF HearLogin, Heard
<1>1. calls[s].phone \in Phones /\ step = "login" BY <1>0 DEF PageInv
<1>2. \A t \in Slots \ {s} : calls[t].op \notin {"check", "login"} BY <1>0 DEF PageInv
<1>3. UNCHANGED <<server, orderly>> BY <1>1, HearLoginShape
<1>4. CASE /\ Placed(s, "request", calls[s].phone, None)
           /\ act' = Blank(calls[s].phone) /\ step' = "verify"
           /\ timers' = Stopped(timers)
           /\ buttons' = (buttons \cup {"login"}) \ {"resend", "verify"}
           /\ UNCHANGED form
  <2>1. act' \in ActType BY <1>1, <1>4, BlankType
  <2>2. act' # None BY <1>4, <2>1, ActivationAssumption
  <2>3. timers' \subseteq {"poll", "tick", "strayPoll", "strayTick"}
    BY <1>4, TimersType, TypeFacts
  <2>4. /\ buttons' \subseteq {"login", "resend", "verify", "complete"}
        /\ field' \in Phones \cup {None} /\ user' \in Phones \cup {None}
        /\ needsPw' \in BOOLEAN /\ orderly' \in BOOLEAN
    BY <1>3, <1>4, TypeFacts DEF form
  <2> QED BY <1>1, <1>2, <1>3, <1>4, <2>1, <2>2, <2>3, <2>4, PageType DEF Placed
<1>5. CASE /\ Cleared(s) /\ buttons' = buttons \cup {"login"}
           /\ field' = field /\ user' \in {user, calls[s].phone} /\ needsPw' \in BOOLEAN
           /\ UNCHANGED <<step, act, timers>>
  <2>1. /\ act' \in ActType \cup {None} /\ step' \in {"login", "verify", "password"}
        /\ act' = None <=> step' = "login"
        /\ step' = "password" => act'.token # None
    BY <1>5, TypeFacts DEF PageInv
  <2>2. /\ buttons' \subseteq {"login", "resend", "verify", "complete"}
        /\ timers' \subseteq {"poll", "tick", "strayPoll", "strayTick"}
        /\ field' \in Phones \cup {None} /\ user' \in Phones \cup {None}
        /\ needsPw' \in BOOLEAN /\ orderly' \in BOOLEAN
    BY <1>1, <1>3, <1>5, TypeFacts
  <2> QED BY <1>2, <1>3, <1>5, <2>1, <2>2, PageType DEF Cleared
<1> QED BY <1>1, <1>4, <1>5, HearLoginShape

\* The row that is made is the largest of its ids, and it is young.
LEMMA MakeCodeType ==
  ASSUME TypeInv, NEW s \in Slots, MakeCode(s) PROVE TypeInv'
<1> TypeOK /\ PageInv /\ CodesInv BY DEF TypeInv
<1>1. PICK m \in Codes : m = NextCode BY MakeCodeShape
<1>2. /\ Replied(s) /\ calls[s].op = "request" /\ calls'[s].answer = "ok" /\ calls'[s].got = m
      /\ codes[m].phone = None
      /\ \A i \in Codes : codes[i].phone # None => i < m
      /\ \A i \in Codes : codes[i].phone = None => m <= i
      /\ codes' \in [Codes -> CodeType] /\ codes'[m].phone = calls[s].phone
      /\ ~codes'[m].late /\ codes'[m].sms = "queued"
      /\ \A i \in Codes \ {m} : codes'[i] = codes[i]
      /\ chosen' = chosen
  BY <1>1, MakeCodeShape
<1>3. codes'[m].phone # None BY <1>2, ActivationAssumption DEF PageInv
<1>n. Codes \subseteq Nat BY ActivationAssumption
<1>4. \A i \in Codes : codes'[i].phone # None => i <= m BY <1>2, <1>n
<1>5. \A i \in Codes : codes'[i].phone = None => codes'[i] = NoCode
  BY <1>2, <1>3 DEF CodesInv
<1>6. \A i, j \in Codes : codes'[i].phone # None /\ codes'[j].phone = None => i < j
  BY <1>2, <1>3, <1>n DEF CodesInv
<1>7. \A i \in Codes : YoungFits(i)' BY <1>2 DEF CodesInv, YoungFits
<1>8. CodesInv' BY <1>4, <1>5, <1>6, <1>7, <1>n DEF CodesInv
<1>9. chosen' \subseteq Phones BY <1>2, TypeFacts
<1> QED BY <1>2, <1>8, <1>9, ReplyType

LEMMA TypeStep ==
  ASSUME TypeInv, [Next]_vars PROVE TypeInv'
<1> TypeOK /\ PageInv /\ CodesInv BY DEF TypeInv
<1>0. /\ act \in ActType \cup {None} /\ step \in {"login", "verify", "password"}
      /\ field \in Phones \cup {None} /\ user \in Phones \cup {None} /\ needsPw \in BOOLEAN
      /\ buttons \subseteq {"login", "resend", "verify", "complete"}
      /\ timers \subseteq {"poll", "tick", "strayPoll", "strayTick"}
      /\ chosen \subseteq Phones /\ orderly \in BOOLEAN
      /\ step = "password" => act.token # None
      /\ act = None <=> step = "login"
  BY TypeFacts DEF PageInv
<1>f. \A s \in Slots : step # "login" => calls[s].op \notin {"check", "login"} BY DEF PageInv
<1>1. CASE UNCHANGED vars BY <1>0, <1>1, AloneType DEF vars, form, server
<1>2. ASSUME NEW p \in Phones, Edit(p) PROVE TypeInv'
  BY <1>0, <1>2, AloneType DEF Edit
<1>3. CASE Logout BY <1>0, <1>3, AloneType DEF Logout
<1>4. CASE Tick BY <1>0, <1>4, AloneType DEF Tick, form
<1>5. CASE Cancel
  <2>1. /\ timers' = Stopped(timers) /\ act' = None /\ step' = "login"
        /\ SpendCrossing({}, Under(Activating))
        /\ UNCHANGED <<form, buttons, calls, server>>
    BY <1>5 DEF Cancel
  <2>2. orderly' \in BOOLEAN
    <3> Under(Activating) \in BOOLEAN BY DEF Under
    <3> QED BY <2>1, SpendOrderly
  <2> QED BY <1>0, <2>1, <2>2, AloneType, TimersType DEF form
<1>6. ASSUME NEW s \in Slots, NEW good \in BOOLEAN, Login(s, good) PROVE TypeInv'
  BY <1>6, LoginType
<1>7. ASSUME NEW s \in Slots, NEW good \in BOOLEAN, SubmitCode(s, good) PROVE TypeInv'
  <2>1. /\ step = "verify" /\ act.phone \in Phones /\ act.id \in Codes
        /\ Placed(s, "verify", act.phone, act.id)
        /\ buttons' = buttons \ {"verify"}
        /\ UNCHANGED <<form, step, act, timers, server, orderly>>
    BY <1>7, SubmitCodeShape DEF ActType
  <2> QED BY <1>0, <1>f, <2>1, PageType DEF Placed, form
<1>8. ASSUME NEW s \in Slots, HearLogin(s) PROVE TypeInv' BY <1>8, HearLoginType
<1>9. ASSUME NEW s \in Slots, Resend(s) PROVE TypeInv'
  <2>1. /\ step = "verify" /\ act.phone \in Phones
        /\ Placed(s, "request", act.phone, None)
        /\ act' = act /\ timers' = Stopped(timers) /\ buttons' = buttons \ {"resend", "verify"}
        /\ orderly' \in BOOLEAN
        /\ UNCHANGED <<form, step, server>>
    BY <1>9, ResendShape DEF ActType
  <2>2. timers' \subseteq {"poll", "tick", "strayPoll", "strayTick"} BY <1>0, <2>1, TimersType
  <2> QED BY <1>0, <1>f, <2>1, <2>2, PageType DEF Placed, form
<1>10. ASSUME NEW s \in Slots, HearRequest(s) PROVE TypeInv'
  <2>1. calls[s].op = "request" /\ UNCHANGED <<form, step, server, orderly>>
    BY <1>10, HearRequestShape
  <2>2. CASE /\ calls[s].answer = "ok" /\ act \in ActType /\ act' \in ActType
             /\ act'.phone = act.phone /\ act'.id = calls[s].got /\ act'.token = act.token
             /\ timers' = Started("poll", timers)
             /\ Placed(s, "status", act.phone, calls[s].got) /\ UNCHANGED buttons
    <3>1. act.phone \in Phones /\ act # None /\ act' # None
      BY <2>2, ActivationAssumption DEF ActType, PageInv, TypeOK
    <3>2. calls[s].got \in Codes BY <2>1, <2>2 DEF PageInv
    <3>3. timers' \subseteq {"poll", "tick", "strayPoll", "strayTick"} BY <1>0, <2>2, TimersType
    <3> QED BY <1>0, <1>f, <2>1, <2>2, <3>1, <3>2, <3>3, PageType DEF Placed, form
  <2>3. CASE buttons' = buttons \cup {"resend"} /\ Cleared(s) /\ UNCHANGED <<act, timers>>
    BY <1>0, <1>f, <2>1, <2>3, PageType DEF Cleared, form
  <2> QED BY <1>10, <2>2, <2>3, HearRequestShape
<1>11. ASSUME NEW s \in Slots, Poll(s) PROVE TypeInv'
  <2>1. /\ act \in ActType /\ act.phone \in Phones /\ act.id \in Codes
        /\ Placed(s, "status", act.phone, act.id)
        /\ orderly' \in BOOLEAN
        /\ UNCHANGED <<form, step, act, buttons, timers, server>>
    BY <1>11, PollShape DEF ActType
  <2> QED BY <1>0, <1>f, <2>1, PageType DEF Placed, form
<1>12. ASSUME NEW s \in Slots, HearStatus(s) PROVE TypeInv'
  <2>1. Cleared(s) /\ UNCHANGED <<form, step, server, orderly>> BY <1>12, HearStatusShape
  <2>2. CASE UNCHANGED <<act, buttons, timers>>
    BY <1>0, <1>f, <2>1, <2>2, PageType DEF Cleared, form
  <2>3. CASE /\ act \in ActType /\ act' \in ActType /\ act'.token = act.token
             /\ timers' = Started("tick", timers \ {"poll"})
             /\ buttons' = buttons \cup {"verify"}
    <3>1. act # None /\ act' # None BY <2>3, ActivationAssumption DEF ActType, PageInv, TypeOK
    <3>2. timers' \subseteq {"poll", "tick", "strayPoll", "strayTick"} BY <1>0, <2>3, TimersType
    <3> QED BY <1>0, <1>f, <2>1, <2>3, <3>1, <3>2, PageType DEF Cleared, form
  <2>4. CASE act' = act /\ timers' = timers \ {"poll"} /\ buttons' = buttons \cup {"resend"}
    BY <1>0, <1>f, <2>1, <2>4, PageType DEF Cleared, form
  <2> QED BY <1>12, <2>2, <2>3, <2>4, HearStatusShape
<1>13. ASSUME NEW s \in Slots, HearVerify(s) PROVE TypeInv'
  <2>0. calls[s].op = "verify" BY <1>13 DEF HearVerify, Heard
  <2>1. calls[s].phone \in Phones BY <2>0 DEF PageInv
  <2>2. Cleared(s) /\ UNCHANGED <<form, server, orderly>> BY <1>13, <2>1, HearVerifyShape
  <2>3. CASE /\ act \in ActType /\ act' \in ActType /\ step' = "password"
             /\ act'.token = calls[s].phone /\ timers' = Stopped(timers) /\ UNCHANGED buttons
    <3>1. act # None /\ act' # None /\ act'.token # None
      BY <2>1, <2>3, ActivationAssumption DEF ActType, PageInv, TypeOK
    <3>2. timers' \subseteq {"poll", "tick", "strayPoll", "strayTick"} BY <1>0, <2>3, TimersType
    <3>3. step # "login" BY <1>0, <3>1
    <3> QED BY <1>0, <1>f, <2>2, <2>3, <3>1, <3>2, <3>3, PageType DEF Cleared, form
  <2>4. CASE /\ buttons' \in {buttons \cup {"resend"}, buttons \cup {"verify"}}
             /\ UNCHANGED <<act, step, timers>>
    BY <1>0, <1>f, <2>2, <2>4, PageType DEF Cleared, form
  <2> QED BY <1>13, <2>1, <2>3, <2>4, HearVerifyShape
<1>14. ASSUME NEW s \in Slots, SubmitPassword(s) PROVE TypeInv'
  <2>1. PICK p \in Phones : Placed(s, "complete", p, None) BY <1>14, SubmitPasswordShape
  <2>2. /\ buttons' = buttons \ {"complete"} /\ UNCHANGED <<form, step, act, timers, server, orderly>>
        /\ step = "password"
    BY <1>14, SubmitPasswordShape
  <2> QED BY <1>0, <1>f, <2>1, <2>2, PageType DEF Placed, form
<1>15. ASSUME NEW s \in Slots, HearComplete(s) PROVE TypeInv'
  <2>1. /\ calls[s].op = "complete" /\ Cleared(s) /\ buttons' = buttons \cup {"complete"}
        /\ UNCHANGED <<field, needsPw, server, orderly>>
    BY <1>15, HearCompleteShape
  <2>2. calls[s].phone \in Phones BY <2>1 DEF PageInv
  <2>3. CASE /\ act' = None /\ step' = "login" /\ timers' = Abandoned(timers)
             /\ user' = calls[s].phone
    <3>1. timers' \subseteq {"poll", "tick", "strayPoll", "strayTick"} BY <1>0, <2>3, TimersType
    <3> QED BY <1>0, <1>f, <2>1, <2>2, <2>3, <3>1, PageType DEF Cleared
  <2>4. CASE UNCHANGED <<act, step, user, timers>>
    BY <1>0, <1>f, <2>1, <2>4, PageType DEF Cleared
  <2> QED BY <1>15, <2>3, <2>4, HearCompleteShape
<1>16. codes \in [Codes -> CodeType] /\ chosen \subseteq Phones BY TypeFacts
<1>17. UNCHANGED server => codes' \in [Codes -> CodeType] /\ CodesInv' /\ chosen' \subseteq Phones
  BY <1>16, OnwardSame, OnwardCodes DEF server
<1>18. ASSUME NEW s \in Slots, ServeLogin(s) PROVE TypeInv'
  BY <1>17, <1>18, ServeLoginShape, ReplyType
<1>19. ASSUME NEW s \in Slots, DecideCode(s) PROVE TypeInv'
  BY <1>17, <1>19, DecideCodeShape, ReplyType DEF NewestOf
<1>20. ASSUME NEW s \in Slots, MakeCode(s) PROVE TypeInv'
  BY <1>20, MakeCodeType
<1>21. ASSUME NEW s \in Slots, Status(s) PROVE TypeInv'
  BY <1>16, <1>21, StatusShape, OnwardCodes, ReplyType DEF Onward
<1>22. ASSUME NEW s \in Slots, VerifyCode(s) PROVE TypeInv'
  BY <1>16, <1>22, VerifyCodeShape, OnwardCodes, ReplyType DEF Onward
<1>23. ASSUME NEW s \in Slots, Complete(s) PROVE TypeInv'
  BY <1>16, <1>23, CompleteShape, OnwardSame, OnwardCodes, ReplyType
<1>24. ASSUME NEW s \in Slots, Lose(s) PROVE TypeInv'
  BY <1>17, <1>24, LoseShape, ReplyType
<1>25. ASSUME NEW i \in Codes, Carry(i) \/ Ages(i) \/ RunsOut(i) PROVE TypeInv'
  <2>1. Onward /\ UNCHANGED World BY <1>25, WorldShape
  <2>2. codes' \in [Codes -> CodeType] /\ CodesInv' BY <2>1, OnwardCodes DEF Onward
  <2>3. TypeOK' BY <1>0, <2>1, <2>2, TypeFacts, TypeFrom DEF World, form
  <2>4. PageInv' BY <2>1 DEF World, PageInv
  <2> QED BY <2>2, <2>3, <2>4 DEF TypeInv
<1> QED
  BY <1>1, <1>2, <1>3, <1>4, <1>5, <1>6, <1>7, <1>8, <1>9, <1>10, <1>11, <1>12, <1>13, <1>14,
     <1>15, <1>18, <1>19, <1>20, <1>21, <1>22, <1>23, <1>24, <1>25, NextSteps

LEMMA TypeInit == ASSUME Init PROVE TypeInv
<1>1. /\ act = None /\ step = "login" /\ calls = [s \in Slots |-> Idle]
      /\ codes = [i \in Codes |-> NoCode]
  BY DEF Init
<1>2. calls \in [Slots -> CallType] /\ \A s \in Slots : calls[s].op = "none" /\ calls[s].answer = "none"
  BY <1>1, IdleFields
<1>3. codes \in [Codes -> CodeType] BY <1>1, NoCodeFields
<1>4. chosen \subseteq Phones BY ActivationAssumption DEF Init
<1>5. TypeOK BY <1>1, <1>2, <1>3, <1>4 DEF Init, TypeOK, CallType, CodeType, ActType, Ops
<1>6. PageInv BY <1>1, <1>2 DEF PageInv
<1>7. CodesInv BY <1>1, NoCodeFields DEF CodesInv, YoungFits
<1> QED BY <1>5, <1>6, <1>7 DEF TypeInv

\* The form, the record of the page and its calls, and the rows keep their types: a call
\* that waits is about a member, and about a number that was made.
THEOREM TypeCorrect == Spec => []TypeOK
<1>1. Init => TypeInv BY TypeInit
<1>2. TypeInv /\ [Next]_vars => TypeInv' BY TypeStep
<1>3. TypeInv => TypeOK BY DEF TypeInv
<1> QED BY <1>1, <1>2, <1>3, PTL DEF Spec

-------------------------------------------------------------------------------
(* One text in a minute, and the countdown of the newest number.           *)

Acts(s) == calls[s].op \in Activating
Waiting == \E s \in Slots : calls[s].op = "verify"

\* While no answer meets another attempt, one request of the activation is under way at
\* a time, about the member and the number of the record; the timers are the record's,
\* and the button that sends the number in cannot be used while the page asks.
Single ==
  /\ \A s, t \in Slots : Acts(s) /\ Acts(t) => s = t
  /\ step = "login" => \A s \in Slots : ~Acts(s)
  /\ timers \subseteq {"poll", "tick"}
  /\ step # "verify" => timers = {}
  /\ "poll" \in timers => timers = {"poll"} /\ "verify" \notin buttons
  /\ \A s \in Slots :
       /\ calls[s].op \in {"request", "status", "verify"} =>
            step = "verify" /\ calls[s].phone = act.phone /\ "verify" \notin buttons
       /\ calls[s].op = "request" => timers = {}
       /\ calls[s].op = "status" => calls[s].id = act.id /\ "poll" \in timers
       /\ calls[s].op = "verify" => calls[s].id = act.id /\ "poll" \notin timers
       /\ calls[s].op = "complete" => step = "password" /\ "complete" \notin buttons

\* The number the page asks for, counts for or sends in is the newest of its member; so
\* is one that an answer on its way names; and while a row is about to be made, the
\* member has no young number that counts.
Current ==
  /\ step = "verify" /\ ("poll" \in timers \/ "verify" \in buttons \/ Waiting) =>
       NewestOf(act.id, act.phone)
  /\ step = "verify" /\ ("verify" \in buttons \/ Waiting) => act.clock = act.id
  /\ \A s \in Slots : calls[s].op = "request" =>
       /\ calls[s].answer = "ok" => NewestOf(calls[s].got, calls[s].phone)
       /\ calls[s].answer = "deciding" =>
            \A i \in Codes : codes[i].phone = calls[s].phone /\ codes[i].young => Spent(i)

\* Of two numbers of a member, the older does not count in its first minute.
Older ==
  \A i, j \in Codes :
    i < j /\ codes[i].phone = codes[j].phone /\ codes[i].young => Spent(i)

Orderly == Single /\ Current /\ Older
IInv == TypeInv /\ (orderly => Orderly)

LEMMA OlderOnward == ASSUME Onward, Older PROVE Older'
BY DEF Onward, Kept, Older

\* What the rows do leaves what the page knows of them as it is.
LEMMA QuietOrderly ==
  ASSUME TypeInv, Orderly, Onward, calls' = calls, act' = act, step' = step,
         timers' \subseteq timers, "poll" \in timers => "poll" \in timers',
         "verify" \in buttons' => "verify" \in buttons,
         "complete" \in buttons' => "complete" \in buttons
  PROVE  Orderly'
<1>1. Older' BY OlderOnward DEF Orderly
<1>2. Single' BY DEF Orderly, Single, Acts
<1>3. \A i \in Codes :
        /\ codes'[i].phone = codes[i].phone
        /\ codes'[i].young => codes[i].young
        /\ Spent(i) => Spent(i)'
  BY DEF Onward, Kept
<1>5. Waiting' => Waiting BY DEF Waiting
<1>6. step' = "verify" /\ ("poll" \in timers' \/ "verify" \in buttons' \/ Waiting') =>
        NewestOf(act.id, act.phone)'
  BY <1>3, <1>5 DEF Orderly, Current, NewestOf
<1>7. Current' BY <1>3, <1>5, <1>6 DEF Orderly, Current, NewestOf
<1> QED BY <1>1, <1>2, <1>7 DEF Orderly

\* So does a reply, when what it says of a number is true.
LEMMA ReplyOrderly ==
  ASSUME TypeInv, Orderly, NEW s \in Slots, Replied(s), Onward,
         calls[s].op = "request" /\ calls'[s].answer = "ok" =>
           NewestOf(calls'[s].got, calls[s].phone),
         calls[s].op = "request" /\ calls'[s].answer = "deciding" =>
           \A i \in Codes : codes[i].phone = calls[s].phone /\ codes[i].young => Spent(i)
  PROVE  Orderly'
<1>1. Older' BY OlderOnward DEF Orderly
<1>0. /\ UNCHANGED <<step, act, buttons, timers>>
      /\ \A t \in Slots : /\ calls'[t].op = calls[t].op /\ calls'[t].phone = calls[t].phone
                          /\ calls'[t].id = calls[t].id
  BY DEF Replied, Others
<1>2. Single' BY <1>0 DEF Orderly, Single, Acts
<1>3. \A i \in Codes :
        /\ codes'[i].phone = codes[i].phone
        /\ codes'[i].young => codes[i].young
        /\ Spent(i) => Spent(i)'
  BY DEF Onward, Kept
<1>5. Waiting' => Waiting BY <1>0 DEF Waiting
<1>6. step' = "verify" /\ ("poll" \in timers' \/ "verify" \in buttons' \/ Waiting') =>
        NewestOf(act.id, act.phone)'
  BY <1>0, <1>3, <1>5 DEF Orderly, Current, NewestOf
<1>7. ASSUME NEW t \in Slots, calls'[t].op = "request"
      PROVE  /\ calls'[t].answer = "ok" => NewestOf(calls[t].got, calls[t].phone)'
             /\ calls'[t].answer = "deciding" =>
                  \A i \in Codes : codes'[i].phone = calls'[t].phone /\ codes'[i].young => Spent(i)'
  <2>1. CASE t = s BY <1>0, <1>3, <1>7, <2>1 DEF NewestOf
  <2>2. CASE t # s
    <3>1. calls'[t] = calls[t] BY <2>2 DEF Replied, Others
    <3> QED BY <1>3, <1>7, <3>1 DEF Orderly, Current, NewestOf
  <2> QED BY <2>1, <2>2
<1>8. Current' BY <1>0, <1>5, <1>6, <1>7 DEF Orderly, Current
<1> QED BY <1>1, <1>2, <1>8 DEF Orderly

\* After a step of the page one request of the activation may be under way, the one in s.
LEMMA OneOrderly ==
  ASSUME Older, UNCHANGED server, NEW s \in Slots,
         \A t \in Slots \ {s} : calls'[t].op \notin Activating,
         timers' \subseteq {"poll", "tick"}, step' # "verify" => timers' = {},
         "poll" \in timers' => timers' = {"poll"} /\ "verify" \notin buttons',
         step' = "login" => calls'[s].op \notin Activating,
         calls'[s].answer = "none",
         calls'[s].op \in {"request", "status", "verify"} =>
           step' = "verify" /\ calls'[s].phone = act'.phone /\ "verify" \notin buttons',
         calls'[s].op = "request" => timers' = {},
         calls'[s].op = "status" => calls'[s].id = act'.id /\ "poll" \in timers',
         calls'[s].op = "verify" => calls'[s].id = act'.id /\ "poll" \notin timers',
         calls'[s].op = "complete" => step' = "password" /\ "complete" \notin buttons',
         step' = "verify" /\ ("poll" \in timers' \/ "verify" \in buttons' \/ calls'[s].op = "verify") =>
           NewestOf(act'.id, act'.phone),
         step' = "verify" /\ ("verify" \in buttons' \/ calls'[s].op = "verify") => act'.clock = act'.id
  PROVE  Orderly'
<1>1. codes' = codes BY DEF server
<1>2. Older' BY <1>1 DEF Older, Spent
<1>3. Single' BY DEF Single, Acts, Activating
<1>4. Waiting' => calls'[s].op = "verify" BY DEF Waiting, Activating
<1>5. \A t \in Slots : calls'[t].op = "request" => t = s BY DEF Activating
<1>6. Current' BY <1>1, <1>4, <1>5 DEF Current, NewestOf
<1> QED BY <1>2, <1>3, <1>6 DEF Orderly

\* The steps of the page, while its answers are in order.
LEMMA LoginOrderly ==
  ASSUME TypeInv, Orderly, NEW s \in Slots, HearLogin(s) PROVE Orderly'
<1> TypeOK /\ PageInv BY DEF TypeInv
<1>0. calls[s].op \in {"check", "login"} BY DEF HearLogin, Heard
<1>1. calls[s].phone \in Phones /\ step = "login" BY <1>0 DEF PageInv
<1>2. timers = {} /\ \A t \in Slots : calls[t].op \notin Activating
  BY <1>1 DEF Orderly, Single, Acts
<1>3. UNCHANGED server BY <1>1, HearLoginShape
<1>4. CASE /\ Placed(s, "request", calls[s].phone, None)
           /\ act' = Blank(calls[s].phone) /\ step' = "verify"
           /\ timers' = Stopped(timers)
           /\ buttons' = (buttons \cup {"login"}) \ {"resend", "verify"}
  <2>1. act'.phone = calls[s].phone BY <1>1, <1>4, BlankType
  <2>2. timers' = {} BY <1>2, <1>4 DEF Stopped
  <2> QED BY <1>2, <1>3, <1>4, <2>1, <2>2, OneOrderly DEF Placed, Others, Orderly
<1>5. CASE Cleared(s) /\ buttons' = buttons \cup {"login"} /\ UNCHANGED <<step, act, timers>>
  BY <1>1, <1>2, <1>3, <1>5, OneOrderly DEF Cleared, Others, Orderly, Activating
<1> QED BY <1>1, <1>4, <1>5, HearLoginShape

LEMMA ResendOrderly ==
  ASSUME TypeInv, Orderly, NEW s \in Slots, Resend(s), orderly' PROVE Orderly'
<1>1. /\ step = "verify" /\ act \in ActType /\ Placed(s, "request", act.phone, None)
      /\ act' = act /\ timers' = Stopped(timers) /\ buttons' = buttons \ {"resend", "verify"}
      /\ ~Under(Activating) /\ UNCHANGED <<form, step, server>>
  BY ResendShape DEF TypeInv
<1>2. \A t \in Slots : calls[t].op \notin Activating BY <1>1 DEF Under
<1>3. timers' = {}
  BY <1>1, ActivationAssumption DEF Stopped, Orderly, Single
<1> QED BY <1>1, <1>2, <1>3, OneOrderly DEF Placed, Others, Orderly

LEMMA HearRequestOrderly ==
  ASSUME TypeInv, Orderly, NEW s \in Slots, HearRequest(s) PROVE Orderly'
<1>0. calls[s].op = "request" /\ UNCHANGED <<form, step, server, orderly>>
  BY HearRequestShape DEF TypeInv
<1>1. /\ \A t \in Slots \ {s} : calls[t].op \notin Activating
      /\ step = "verify" /\ calls[s].phone = act.phone /\ "verify" \notin buttons /\ timers = {}
      /\ calls[s].answer = "ok" => NewestOf(calls[s].got, act.phone)
  BY <1>0 DEF Orderly, Single, Current, Acts, Activating
<1>2. CASE /\ calls[s].answer = "ok"
           /\ act'.phone = act.phone /\ act'.id = calls[s].got
           /\ timers' = Started("poll", timers)
           /\ Placed(s, "status", act.phone, calls[s].got) /\ UNCHANGED buttons
  <2>1. timers' = {"poll"} BY <1>1, <1>2 DEF Started
  <2> QED BY <1>0, <1>1, <1>2, <2>1, OneOrderly DEF Placed, Others, Orderly
<1>3. CASE buttons' = buttons \cup {"resend"} /\ Cleared(s) /\ UNCHANGED <<act, timers>>
  BY <1>0, <1>1, <1>3, OneOrderly DEF Cleared, Others, Orderly, Activating
<1> QED BY <1>2, <1>3, HearRequestShape DEF TypeInv

\* The page asks while it waits for the text, and no other request is under way then.
LEMMA PollOrderly ==
  ASSUME TypeInv, Orderly, NEW s \in Slots, Poll(s), orderly' PROVE Orderly'
<1>1. /\ timers \cap {"poll", "strayPoll"} # {} /\ act \in ActType
      /\ Placed(s, "status", act.phone, act.id) /\ ~Under({"status"})
      /\ UNCHANGED <<form, step, act, buttons, timers, server>>
  BY PollShape DEF TypeInv
<1>2. "poll" \in timers /\ step = "verify" BY <1>1 DEF Orderly, Single
<1>3. timers = {"poll"} /\ "verify" \notin buttons /\ NewestOf(act.id, act.phone)
  BY <1>2 DEF Orderly, Single, Current
<1>4. \A t \in Slots : calls[t].op \notin Activating
  BY <1>1, <1>2 DEF Under, Orderly, Single, Activating
<1> QED BY <1>1, <1>2, <1>3, <1>4, OneOrderly DEF Placed, Others, Orderly

\* The minute begins with the number that was asked for, the newest.
LEMMA HearStatusOrderly ==
  ASSUME TypeInv, Orderly, NEW s \in Slots, HearStatus(s) PROVE Orderly'
<1>0. calls[s].op = "status" /\ Cleared(s) /\ UNCHANGED <<form, step, server, orderly>>
  BY HearStatusShape DEF TypeInv
<1>1. /\ \A t \in Slots \ {s} : calls[t].op \notin Activating
      /\ step = "verify" /\ calls[s].id = act.id /\ "poll" \in timers
  BY <1>0 DEF Orderly, Single, Acts, Activating
<1>2. timers = {"poll"} /\ "verify" \notin buttons /\ NewestOf(act.id, act.phone)
  BY <1>1 DEF Orderly, Single, Current
<1>3. \A t \in Slots : calls'[t].op \notin Activating BY <1>0, <1>1 DEF Cleared, Others, Activating
<1>4. CASE UNCHANGED <<act, buttons, timers>>
  BY <1>0, <1>1, <1>2, <1>3, <1>4, OneOrderly DEF Cleared, Orderly, Activating
<1>5. CASE /\ act'.phone = act.phone /\ act'.id = act.id /\ act'.clock = calls[s].id
           /\ timers' = Started("tick", timers \ {"poll"}) /\ buttons' = buttons \cup {"verify"}
  <2>1. timers' = {"tick"} BY <1>2, <1>5 DEF Started
  <2> QED BY <1>0, <1>1, <1>2, <1>3, <1>5, <2>1, OneOrderly DEF Cleared, Orderly, Activating
<1>6. CASE act' = act /\ timers' = timers \ {"poll"} /\ buttons' = buttons \cup {"resend"}
  BY <1>0, <1>1, <1>2, <1>3, <1>6, OneOrderly DEF Cleared, Orderly, Activating
<1> QED BY <1>4, <1>5, <1>6, HearStatusShape DEF TypeInv

LEMMA CancelOrderly ==
  ASSUME TypeInv, Orderly, Cancel, orderly' PROVE Orderly'
<1>1. /\ step = "verify" /\ timers' = Stopped(timers) /\ act' = None /\ step' = "login"
      /\ SpendCrossing({}, Under(Activating)) /\ UNCHANGED <<form, buttons, calls, server>>
  BY DEF Cancel
<1>2. ~Under(Activating)
  <2> Under(Activating) \in BOOLEAN BY DEF Under
  <2> QED BY <1>1, SpendOrderly DEF TypeInv
<1>3. \A t \in Slots : calls'[t].op \notin Activating BY <1>1, <1>2 DEF Under
<1>4. timers' = {} BY <1>1 DEF Stopped, Orderly, Single, TypeInv, PageInv
<1>5. Older' BY <1>1 DEF Orderly, Older, Spent, server
<1>6. Single' BY <1>1, <1>3, <1>4 DEF Single, Acts, Activating
<1>7. Current' BY <1>1, <1>3 DEF Current, Activating
<1> QED BY <1>5, <1>6, <1>7 DEF Orderly

\* The number is sent in when its minute has begun, so that the page does not ask.
LEMMA SubmitCodeOrderly ==
  ASSUME TypeInv, Orderly, NEW s \in Slots, NEW good \in BOOLEAN, SubmitCode(s, good) PROVE Orderly'
<1>1. /\ step = "verify" /\ "verify" \in buttons /\ Placed(s, "verify", act.phone, act.id)
      /\ buttons' = buttons \ {"verify"} /\ UNCHANGED <<form, step, act, timers, server, orderly>>
  BY SubmitCodeShape DEF TypeInv
<1>2. /\ NewestOf(act.id, act.phone) /\ act.clock = act.id
      /\ "poll" \notin timers /\ timers \subseteq {"poll", "tick"}
      /\ \A t \in Slots : calls[t].op \notin Activating
  BY <1>1 DEF Orderly, Single, Current, Activating
<1> QED BY <1>1, <1>2, OneOrderly DEF Placed, Others, Orderly

LEMMA HearVerifyOrderly ==
  ASSUME TypeInv, Orderly, NEW s \in Slots, HearVerify(s) PROVE Orderly'
<1>0. calls[s].op = "verify" BY DEF HearVerify, Heard
<1>p. calls[s].phone \in Phones BY <1>0 DEF TypeInv, PageInv
<1>1. Cleared(s) /\ UNCHANGED <<form, server, orderly>> BY <1>p, HearVerifyShape DEF TypeInv
<1>2. /\ \A t \in Slots \ {s} : calls[t].op \notin Activating
      /\ step = "verify" /\ "poll" \notin timers /\ timers \subseteq {"poll", "tick"}
  BY <1>0 DEF Orderly, Single, Acts, Activating
<1>3. NewestOf(act.id, act.phone) /\ act.clock = act.id
  BY <1>0, <1>2 DEF Orderly, Current, Waiting
<1>4. \A t \in Slots : calls'[t].op \notin Activating BY <1>1, <1>2 DEF Cleared, Others, Activating
<1>5. CASE act \in ActType /\ step' = "password" /\ timers' = Stopped(timers) /\ UNCHANGED buttons
  <2>1. timers' = {} BY <1>2, <1>5, ActivationAssumption DEF Stopped
  <2> QED BY <1>1, <1>4, <1>5, <2>1, OneOrderly DEF Cleared, Orderly, Activating
<1>6. CASE /\ buttons' \in {buttons \cup {"resend"}, buttons \cup {"verify"}}
           /\ UNCHANGED <<act, step, timers>>
  BY <1>1, <1>2, <1>3, <1>4, <1>6, OneOrderly DEF Cleared, Orderly, Activating
<1> QED BY <1>p, <1>5, <1>6, HearVerifyShape DEF TypeInv

LEMMA PasswordOrderly ==
  ASSUME TypeInv, Orderly, NEW s \in Slots, SubmitPassword(s) \/ HearComplete(s) PROVE Orderly'
<1>1. CASE SubmitPassword(s)
  <2>1. PICK p \in Phones : Placed(s, "complete", p, None) BY <1>1, SubmitPasswordShape DEF TypeInv
  <2>2. /\ step = "password" /\ "complete" \in buttons /\ buttons' = buttons \ {"complete"}
        /\ UNCHANGED <<form, step, act, timers, server, orderly>>
    BY <1>1 DEF SubmitPassword
  <2>3. timers = {} /\ \A t \in Slots : calls[t].op \notin Activating
    BY <2>2 DEF Orderly, Single, Activating
  <2> QED BY <2>1, <2>2, <2>3, OneOrderly DEF Placed, Others, Orderly
<1>2. CASE HearComplete(s)
  <2>1. /\ calls[s].op = "complete" /\ Cleared(s) /\ buttons' = buttons \cup {"complete"}
        /\ \/ step' = "login" /\ timers' = Abandoned(timers)
           \/ UNCHANGED <<step, timers>>
        /\ UNCHANGED server
    BY <1>2, HearCompleteShape DEF TypeInv
  <2>2. timers = {} /\ step = "password" /\ \A t \in Slots \ {s} : calls[t].op \notin Activating
    BY <2>1 DEF Orderly, Single, Acts, Activating
  <2>3. timers' = {} BY <2>1, <2>2 DEF Abandoned
  <2> QED BY <2>1, <2>2, <2>3, OneOrderly DEF Cleared, Others, Orderly, Activating
<1> QED BY <1>1, <1>2

\* A row is about to be made: the newest number of the member, if there is one, is older
\* than a minute or does not count, and the ones before it do not either.
LEMMA NotRecent ==
  ASSUME TypeInv, Older, NEW p \in Phones, ~Recent(p)
  PROVE  \A i \in Codes : codes[i].phone = p /\ codes[i].young => Spent(i)
<1> SUFFICES ASSUME NEW i \in Codes, codes[i].phone = p, codes[i].young PROVE Spent(i)
  OBVIOUS
<1>1. HasNewest(p) BY DEF HasNewest, Made
<1>2. PICK n \in Codes : n = Newest(p) /\ NewestOf(n, p) BY <1>1, NewestIs DEF TypeInv, NewestOf
<1>3. CASE i < n BY <1>2, <1>3 DEF Older, NewestOf
<1>4. CASE i = n
  <2>1. SmsState(n) \notin {"sending", "sent"} BY <1>1, <1>2, <1>4 DEF Recent
  <2>2. ~codes[n].late /\ codes[n].sms \in {"queued", "claimed", "fresh", "failed"}
    BY <1>4 DEF TypeInv, CodesInv, YoungFits
  <2>3. codes[n].sms = "failed" \/ codes[n].verified
    <3> SUFFICES ASSUME codes[n].sms # "failed", ~codes[n].verified PROVE FALSE OBVIOUS
    <3>1. CASE codes[n].sms = "fresh" BY <2>1, <3>1 DEF SmsState
    <3>2. CASE codes[n].sms \in {"queued", "claimed"} BY <2>1, <2>2, <3>2 DEF SmsState
    <3> QED BY <2>2, <3>1, <3>2
  <2> QED BY <1>4, <2>3 DEF Spent
<1>5. i <= n BY <1>2 DEF NewestOf
<1> QED BY <1>3, <1>4, <1>5, ActivationAssumption

LEMMA DecideCodeOrderly ==
  ASSUME TypeInv, Orderly, NEW s \in Slots, DecideCode(s) PROVE Orderly'
<1>1. /\ Replied(s) /\ calls[s].op = "request" /\ UNCHANGED server
      /\ \/ calls'[s].answer = "no"
         \/ calls'[s].answer = "ok" /\ NewestOf(calls'[s].got, calls[s].phone)
         \/ calls'[s].answer = "deciding" /\ ~ Recent(calls[s].phone)
  BY DecideCodeShape
<1>2. Onward BY <1>1, OnwardSame DEF TypeInv, server
<1>3. calls[s].phone \in Phones BY <1>1 DEF TypeInv, PageInv
<1> QED BY <1>1, <1>2, <1>3, NotRecent, ReplyOrderly DEF Orderly

\* The new row is the newest of its member; nothing else is under way that names one.
LEMMA MakeCodeOrderly ==
  ASSUME TypeInv, Orderly, NEW s \in Slots, MakeCode(s) PROVE Orderly'
<1>1. PICK m \in Codes : m = NextCode BY MakeCodeShape
<1>2. /\ Replied(s) /\ calls[s].op = "request" /\ calls[s].answer = "deciding"
      /\ calls'[s].answer = "ok" /\ calls'[s].got = m /\ codes[m].phone = None
      /\ \A i \in Codes : codes[i].phone # None => i < m
      /\ codes'[m].phone = calls[s].phone
      /\ \A i \in Codes \ {m} : codes'[i] = codes[i]
  BY <1>1, MakeCodeShape
<1>n. Codes \subseteq Nat BY ActivationAssumption
<1>3. calls[s].phone \in Phones /\ calls[s].phone # None
  BY <1>2, ActivationAssumption DEF TypeInv, PageInv
<1>4. /\ UNCHANGED <<step, act, buttons, timers>>
      /\ \A t \in Slots : /\ calls'[t].op = calls[t].op /\ calls'[t].phone = calls[t].phone
                          /\ calls'[t].id = calls[t].id
  BY <1>2 DEF Replied, Others
<1>5. Single' BY <1>4 DEF Orderly, Single, Acts
<1>6. /\ timers = {} /\ "verify" \notin buttons
      /\ \A t \in Slots \ {s} : calls[t].op \notin Activating
  BY <1>2 DEF Orderly, Single, Acts, Activating
<1>7. ~Waiting' BY <1>2, <1>4, <1>6 DEF Waiting, Activating
<1>8. NewestOf(m, calls[s].phone)' BY <1>2, <1>3, <1>4, <1>n DEF NewestOf
<1>9. NewestOf(calls[s].got, calls[s].phone)' BY <1>2, <1>8 DEF NewestOf
<1>10. \A t \in Slots : calls'[t].op = "request" => t = s BY <1>4, <1>6 DEF Activating
<1>11. Current' BY <1>2, <1>4, <1>6, <1>7, <1>9, <1>10 DEF Current
<1>12. Older'
  <2> SUFFICES ASSUME NEW i \in Codes, NEW j \in Codes, i < j, codes'[i].phone = codes'[j].phone,
                      codes'[i].young
               PROVE  Spent(i)'
    BY DEF Older
  <2>1. codes[i].young => codes[i].phone # None BY NoCodeFields DEF TypeInv, CodesInv
  <2>2. CASE i = m BY <1>2, <1>3, <1>n, <2>2
  <2>3. CASE i # m /\ j # m
    <3>1. codes'[i] = codes[i] /\ codes'[j] = codes[j] BY <1>2, <2>3
    <3> QED BY <3>1 DEF Orderly, Older, Spent
  <2>4. CASE i # m /\ j = m
    <3>1. codes'[i] = codes[i] BY <1>2, <2>4
    <3>2. codes[i].phone = calls[s].phone /\ codes[i].young BY <1>2, <2>4, <3>1
    <3>3. Spent(i) BY <1>2, <3>2 DEF Orderly, Current
    <3> QED BY <3>1, <3>3 DEF Spent
  <2> QED BY <2>2, <2>3, <2>4
<1> QED BY <1>5, <1>11, <1>12 DEF Orderly

LEMMA OrderlyStep ==
  ASSUME TypeInv, Orderly, [Next]_vars, orderly' PROVE Orderly'
<1>0. codes' = codes => Onward BY OnwardSame DEF TypeInv
<1>1. CASE UNCHANGED vars BY <1>0, <1>1, QuietOrderly DEF vars, server
<1>2. ASSUME NEW p \in Phones, Edit(p) PROVE Orderly'
  BY <1>0, <1>2, QuietOrderly DEF Edit, server
<1>3. CASE Logout BY <1>0, <1>3, QuietOrderly DEF Logout, server
<1>4. CASE Tick BY <1>0, <1>4, QuietOrderly DEF Tick, server
<1>5. CASE Cancel BY <1>5, CancelOrderly
<1>6. ASSUME NEW s \in Slots, NEW good \in BOOLEAN, Login(s, good) PROVE Orderly'
  <2>1. PICK op \in {"check", "login"}, p \in Phones : Placed(s, op, p, None)
    BY <1>6, LoginShape DEF TypeInv
  <2>2. /\ step = "login" /\ buttons' = buttons \ {"login"}
        /\ UNCHANGED <<form, step, act, timers, server, orderly>>
    BY <1>6, LoginShape DEF TypeInv
  <2>3. timers = {} /\ \A t \in Slots : calls[t].op \notin Activating
    BY <2>2 DEF Orderly, Single, Acts
  <2> QED BY <2>1, <2>2, <2>3, OneOrderly DEF Placed, Others, Orderly, Activating
<1>7. ASSUME NEW s \in Slots, NEW good \in BOOLEAN, SubmitCode(s, good) PROVE Orderly'
  BY <1>7, SubmitCodeOrderly
<1>8. ASSUME NEW s \in Slots, HearLogin(s) PROVE Orderly' BY <1>8, LoginOrderly
<1>9. ASSUME NEW s \in Slots, Resend(s) PROVE Orderly' BY <1>9, ResendOrderly
<1>10. ASSUME NEW s \in Slots, HearRequest(s) PROVE Orderly' BY <1>10, HearRequestOrderly
<1>11. ASSUME NEW s \in Slots, Poll(s) PROVE Orderly' BY <1>11, PollOrderly
<1>12. ASSUME NEW s \in Slots, HearStatus(s) PROVE Orderly' BY <1>12, HearStatusOrderly
<1>13. ASSUME NEW s \in Slots, HearVerify(s) PROVE Orderly' BY <1>13, HearVerifyOrderly
<1>14. ASSUME NEW s \in Slots, SubmitPassword(s) \/ HearComplete(s) PROVE Orderly'
  BY <1>14, PasswordOrderly
<1>15. ASSUME NEW s \in Slots, ServeLogin(s) PROVE Orderly'
  BY <1>0, <1>15, ServeLoginShape, ReplyOrderly DEF server
<1>16. ASSUME NEW s \in Slots, DecideCode(s) PROVE Orderly' BY <1>16, DecideCodeOrderly
<1>17. ASSUME NEW s \in Slots, MakeCode(s) PROVE Orderly' BY <1>17, MakeCodeOrderly
<1>18. ASSUME NEW s \in Slots, Status(s) PROVE Orderly' BY <1>18, StatusShape, ReplyOrderly
<1>19. ASSUME NEW s \in Slots, VerifyCode(s) PROVE Orderly'
  BY <1>19, VerifyCodeShape, ReplyOrderly
<1>20. ASSUME NEW s \in Slots, Complete(s) PROVE Orderly'
  BY <1>0, <1>20, CompleteShape, ReplyOrderly
<1>21. ASSUME NEW s \in Slots, Lose(s) PROVE Orderly'
  BY <1>0, <1>21, LoseShape, ReplyOrderly DEF server
<1>22. ASSUME NEW i \in Codes, Carry(i) \/ Ages(i) \/ RunsOut(i) PROVE Orderly'
  BY <1>22, WorldShape, QuietOrderly DEF World
<1> QED
  BY <1>1, <1>2, <1>3, <1>4, <1>5, <1>6, <1>7, <1>8, <1>9, <1>10, <1>11, <1>12, <1>13, <1>14,
     <1>15, <1>16, <1>17, <1>18, <1>19, <1>20, <1>21, <1>22, NextSteps

\* A page on which answers have met another attempt does not come to order again.
LEMMA NeverOrderly ==
  ASSUME TypeInv, [Next]_vars, orderly' PROVE orderly
<1>1. ASSUME NEW s \in Slots, Replied(s) PROVE orderly BY <1>1 DEF Replied
<1>2. CASE \/ UNCHANGED vars \/ Logout \/ Tick \/ \E p \in Phones : Edit(p)
           \/ \E s \in Slots, good \in BOOLEAN : Login(s, good) \/ SubmitCode(s, good)
           \/ \E s \in Slots : HearRequest(s) \/ HearStatus(s) \/ HearVerify(s)
                                 \/ SubmitPassword(s) \/ HearComplete(s)
  BY <1>2 DEF vars, Logout, Tick, Edit, Login, SubmitCode, HearRequest, HearStatus, HearVerify,
              SubmitPassword, HearComplete
<1>3. ASSUME NEW s \in Slots, HearLogin(s) PROVE orderly
  BY <1>3 DEF HearLogin, StartActivation
<1>4. ASSUME NEW s \in Slots, Resend(s) \/ Poll(s) PROVE orderly
  BY <1>4, ResendShape, PollShape DEF TypeInv
<1>5. CASE Cancel
  <2> Under(Activating) \in BOOLEAN BY DEF Under
  <2> QED BY <1>5, SpendOrderly DEF Cancel, TypeInv
<1>6. ASSUME NEW s \in Slots, \/ ServeLogin(s) \/ DecideCode(s) \/ MakeCode(s) \/ Status(s)
                             \/ VerifyCode(s) \/ Complete(s) \/ Lose(s)
      PROVE orderly
  BY <1>1, <1>6, ServeLoginShape, DecideCodeShape, MakeCodeShape, StatusShape, VerifyCodeShape,
     CompleteShape, LoseShape
<1>7. ASSUME NEW i \in Codes, Carry(i) \/ Ages(i) \/ RunsOut(i) PROVE orderly
  BY <1>7, WorldShape DEF World
<1> QED BY <1>2, <1>3, <1>4, <1>5, <1>6, <1>7, NextSteps

LEMMA OrderlyInit == ASSUME Init, TypeInv PROVE Orderly
<1>1. /\ step = "login" /\ timers = {} /\ calls = [s \in Slots |-> Idle]
      /\ codes = [i \in Codes |-> NoCode]
  BY DEF Init
<1>2. \A s \in Slots : calls[s].op = "none" BY <1>1, IdleFields
<1>3. Single BY <1>1, <1>2 DEF Single, Acts, Activating
<1>4. Current BY <1>1, <1>2 DEF Current
<1>5. Older BY <1>1, NoCodeFields DEF Older
<1> QED BY <1>3, <1>4, <1>5 DEF Orderly

LEMMA Inductive == Spec => []IInv
<1>1. Init => IInv BY TypeInit, OrderlyInit DEF IInv
<1>2. IInv /\ [Next]_vars => IInv' BY TypeStep, NeverOrderly, OrderlyStep DEF IInv
<1> QED BY <1>1, <1>2, PTL DEF Spec

\* While the answers are in order a member gets one text in a minute
\* (account_activation.py:14): a number is followed by another in its first minute only
\* when its text has failed or it has been used.
THEOREM OneText == Spec => []OneTextAMinute
<1>1. IInv => OneTextAMinute BY DEF IInv, Orderly, Older, OneTextAMinute, Spent
<1> QED BY <1>1, Inductive, PTL

\* While the page counts down, it asks for the number the server expects of the member
\* whose phone number it shows: the newest, for which the countdown was started.
THEOREM NewestCounted == Spec => []CountsTheNewest
<1>1. IInv => CountsTheNewest
  BY DEF IInv, Orderly, Current, NewestOf, CountsTheNewest
<1> QED BY <1>1, Inductive, PTL

-------------------------------------------------------------------------------
(* The page behind the login (MemberHome), for every set of members,       *)
(* deposits and sockets, and whatever may still happen.                    *)

Deposit == Deposits \cup {0}
Anybody == Members \cup {None}
OfLink(c) == c.kind \in {"ask", "deny"}

\* The link's question is asked once at a time, so that there is a number for it.
OneOfLink ==
  /\ \A c, d \in requests : OfLink(c) /\ OfLink(d) => c = d
  /\ dialog = "ask" => \A c \in requests : ~OfLink(c)

HomeFits == H!TypeOK /\ OneOfLink

\* The line while no socket has been opened beside a closing one: one socket that is not
\* gone, and a live one is the client's and a member's.
LineInv ==
  ~late =>
    /\ \A s, t \in Sockets : socks[s].st # "gone" /\ socks[t].st # "gone" => s = t
    /\ \A s \in Sockets : H!Live(s) => ref = s /\ ui.token # None

\* The card: a deposit that is armed is drawn so, and one drawn so has been asked about
\* all along.
CardInv ==
  /\ ui.armed # 0 => ui.shown.armed /\ ui.shown.dep = ui.armed
  /\ ui.shown.armed => asked = ui.shown.dep

\* The least of a set of numbers.
LEMMA LeastIn ==
  ASSUME NEW S, S \subseteq Nat, S # {} PROVE H!Least(S) \in S /\ \A e \in S : H!Least(S) <= e
<1>1. PICK n \in S : \A k \in S : ~ (<<k, n>> \in OpToRel(<, Nat))
  BY WFMin, NatLessThanWellFounded
<1>2. \A k \in S : ~ (k \in Nat /\ n \in Nat /\ k < n) BY <1>1, Zenon DEF OpToRel
<1>3. \A k \in S : n <= k BY <1>2
<1> QED BY <1>3 DEF H!Least

LEMMA UiFields ==
  ASSUME NEW u \in H!UiType
  PROVE  /\ u.token \in Anybody /\ u.user \in [of : Anybody, paid : SUBSET Deposits]
         /\ u.deps \in SUBSET Deposits /\ u.armed \in Deposit
         /\ u.shown \in [dep : Deposit, armed : BOOLEAN, held : Nat]
         /\ u.shown.dep \in Deposit /\ u.shown.armed \in BOOLEAN /\ u.shown.held \in Nat
BY DEF H!UiType, Anybody, Deposit

\* Whatever is drawn is drawn with the same member and deposits.
LEMMA RenderFields ==
  ASSUME H!HomeConstants, NEW u \in H!UiType
  PROVE  /\ H!Render(u) \in H!UiType
         /\ H!Render(u).token = u.token /\ H!Render(u).user = u.user /\ H!Render(u).deps = u.deps
         /\ H!Render(u).armed # 0 => /\ H!Render(u).armed = u.armed
                                   /\ H!Render(u).shown.armed /\ H!Render(u).shown.dep = u.armed
         /\ H!Render(u).shown.armed => H!Render(u).shown.dep = u.armed /\ u.armed # 0
<1> DEFINE d == IF u.deps = {} THEN 0 ELSE H!Least(u.deps)
<1>1. d \in Deposit
  <2>1. u.deps \subseteq Deposits BY UiFields
  <2>2. CASE u.deps # {}
    <3>1. u.deps \subseteq Nat BY <2>1 DEF H!HomeConstants
    <3> QED BY <2>1, <2>2, <3>1, LeastIn DEF Deposit
  <2> QED BY <2>2 DEF Deposit
<1>2. CASE d = 0
  <2>1. H!Render(u) = [u EXCEPT !.armed = 0, !.shown = H!Blank] BY <1>2 DEF H!Render
  <2>2. H!Blank \in [dep : Deposit, armed : BOOLEAN, held : Nat] /\ ~H!Blank.armed
    BY DEF H!Blank, Deposit
  <2>3. 0 \in Deposit BY DEF Deposit
  <2>4. /\ H!Render(u) \in H!UiType /\ H!Render(u).armed = 0 /\ H!Render(u).shown = H!Blank
        /\ H!Render(u).token = u.token /\ H!Render(u).user = u.user /\ H!Render(u).deps = u.deps
    BY <2>1, <2>2, <2>3 DEF H!UiType, Deposit
  <2> QED BY <2>2, <2>4
<1>3. CASE d # 0
  <2>1. H!Render(u) = [u EXCEPT !.armed = IF u.armed = d THEN d ELSE 0,
                              !.shown = [dep |-> d, armed |-> u.armed = d, held |-> 0]]
    BY <1>3 DEF H!Render
  <2> DEFINE s == [dep |-> d, armed |-> u.armed = d, held |-> 0]
             a == IF u.armed = d THEN d ELSE 0
  <2>2. s \in [dep : Deposit, armed : BOOLEAN, held : Nat] /\ s.dep = d /\ (s.armed <=> u.armed = d)
    BY <1>1
  <2>3. a \in Deposit BY <1>1 DEF Deposit
  <2> HIDE DEF d, s, a
  <2>4. /\ H!Render(u) \in H!UiType /\ H!Render(u).armed = a /\ H!Render(u).shown = s
        /\ H!Render(u).token = u.token /\ H!Render(u).user = u.user /\ H!Render(u).deps = u.deps
    <3>1. H!Render(u) = [u EXCEPT !.armed = a, !.shown = s] BY <2>1 DEF a, s
    <3> QED BY <2>2, <2>3, <3>1 DEF H!UiType, Deposit
  <2>5. a # 0 => u.armed = d /\ a = d BY DEF a
  <2> QED BY <1>3, <2>2, <2>4, <2>5
<1> QED BY <1>2, <1>3

LEMMA LoggedOutFields ==
  ASSUME H!HomeConstants, NEW u \in H!UiType
  PROVE  /\ H!LoggedOut(u) \in H!UiType /\ H!LoggedOut(u).token = None
         /\ H!LoggedOut(u).armed = 0 /\ ~H!LoggedOut(u).shown.armed
<1> DEFINE v == [u EXCEPT !.token = None, !.user = H!NoUser, !.deps = {}]
<1>1. v \in H!UiType /\ v.token = None /\ v.deps = {} BY DEF H!UiType, H!NoUser
<1>2. H!LoggedOut(u) = H!Render(v) BY DEF H!LoggedOut
<1> HIDE DEF v
<1>3. H!Render(v) = [v EXCEPT !.armed = 0, !.shown = H!Blank] BY <1>1 DEF H!Render
<1>4. [v EXCEPT !.armed = 0, !.shown = H!Blank].armed = 0 /\ ~[v EXCEPT !.armed = 0, !.shown = H!Blank].shown.armed
  BY <1>1 DEF H!UiType, H!Blank
<1> QED BY <1>1, <1>2, <1>3, <1>4, RenderFields

LEMMA ReleasedFields ==
  ASSUME NEW u \in H!UiType, NEW n
  PROVE  /\ H!Released(u, n) \in H!UiType
         /\ H!Released(u, n).token = u.token /\ H!Released(u, n).armed = u.armed
         /\ H!Released(u, n).shown.armed = u.shown.armed /\ H!Released(u, n).shown.dep = u.shown.dep
BY DEF H!Released, H!UiType

\* What is asked has a number of its own.
LEMMA RequestFields ==
  ASSUME H!HomeConstants, plan \in H!PlanType, NEW what \in {"me", "deposits", "claim", "deny"},
         H!Free(what) # {},
         NEW of \in Anybody, NEW d \in Deposit, NEW t \in Nat
  PROVE  /\ H!Ask(what, of, d, t) \in H!CallType
         /\ H!Ask(what, of, d, t).kind = what /\ H!Ask(what, of, d, t).answer = "none"
         /\ H!Ask(what, of, d, t).dep = d
<1>1. plan.calls \in Nat BY DEF H!PlanType
<1>2. H!Free(what) \subseteq Nat BY <1>1 DEF H!Free
<1>3. H!Least(H!Free(what)) \in Nat BY <1>2, LeastIn
<1> HIDE DEF Anybody, Deposit
<1> QED BY <1>3 DEF H!Ask, H!CallType, Anybody, Deposit

LEMMA CallFields ==
  ASSUME NEW c \in H!CallType
  PROVE  /\ c.kind \in {"restore", "me", "deposits", "claim", "ask", "deny"} /\ c.n \in Nat
         /\ c.of \in Anybody /\ c.dep \in Deposit /\ c.then \in Nat /\ c.found \in SUBSET Deposits
         /\ \A a \in {"none", "ok", "no", "expired", "lost", "pending", "denied", "done"},
             f \in SUBSET Deposits :
              /\ [c EXCEPT !.answer = a, !.found = f] \in H!CallType
              /\ [c EXCEPT !.answer = a, !.found = f].kind = c.kind
              /\ [c EXCEPT !.answer = a, !.found = f].answer = a
BY DEF H!CallType, Anybody, Deposit

LEMMA SocketFields ==
  ASSUME H!HomeConstants, socks \in [Sockets -> H!SockType], ref \in Sockets \cup {0}
  PROVE  /\ H!Gone \in H!SockType /\ H!Gone.st = "gone" /\ 0 \notin Sockets
         /\ H!Spare # {} => H!Least(H!Spare) \in Sockets /\ socks[H!Least(H!Spare)].st = "gone"
         /\ \A m \in Anybody : [H!Gone EXCEPT !.st = "opening", !.of = m] \in H!SockType
                               /\ [H!Gone EXCEPT !.st = "opening", !.of = m].st = "opening"
         /\ \A s \in Sockets, st \in {"gone", "opening", "open", "closing"} :
              /\ [socks[s] EXCEPT !.st = st] \in H!SockType /\ [socks[s] EXCEPT !.st = st].st = st
         /\ \A s \in Sockets, b \in BOOLEAN :
              /\ [socks[s] EXCEPT !.note = b] \in H!SockType
              /\ [socks[s] EXCEPT !.note = b].st = socks[s].st
<1>1. H!Spare # {} => H!Least(H!Spare) \in H!Spare
  <2>1. H!Spare \subseteq Nat BY DEF H!Spare, H!HomeConstants
  <2> QED BY <2>1, LeastIn
<1>2. H!Spare \subseteq Sockets /\ \A s \in H!Spare : socks[s].st = "gone" BY DEF H!Spare
<1>3. H!Gone \in H!SockType /\ H!Gone.st = "gone" /\ 0 \notin Sockets
  BY DEF H!Gone, H!SockType, H!HomeConstants
<1>4. \A m \in Anybody : [H!Gone EXCEPT !.st = "opening", !.of = m] \in H!SockType
                         /\ [H!Gone EXCEPT !.st = "opening", !.of = m].st = "opening"
  BY DEF H!Gone, H!SockType, Anybody
<1>5. \A x \in H!SockType, st \in {"gone", "opening", "open", "closing"} :
        [x EXCEPT !.st = st] \in H!SockType /\ [x EXCEPT !.st = st].st = st
  BY DEF H!SockType
<1>6. \A x \in H!SockType, b \in BOOLEAN :
        [x EXCEPT !.note = b] \in H!SockType /\ [x EXCEPT !.note = b].st = x.st
  BY DEF H!SockType
<1> QED BY <1>1, <1>2, <1>3, <1>4, <1>5, <1>6

\* What a step does to the line: nothing, or the client gives it up, connects, or hears
\* that a socket has closed, or the socket itself changes.
LEMMA ConnectType ==
  ASSUME H!HomeConstants, H!TypeOK, NEW m \in Anybody, H!Connect(m)
  PROVE  socks' \in [Sockets -> H!SockType] /\ ref' \in Sockets \cup {0} /\ late' \in BOOLEAN
BY SocketFields DEF H!Connect, H!TypeOK

LEMMA DisconnectType ==
  ASSUME H!HomeConstants, H!TypeOK, H!Disconnect
  PROVE  socks' \in [Sockets -> H!SockType] /\ ref' \in Sockets \cup {0} /\ late' \in BOOLEAN
         /\ timer' \in BOOLEAN
<1>1. ref # 0 => [socks[ref] EXCEPT !.st = "closing"] \in H!SockType BY SocketFields DEF H!TypeOK
<1> QED BY <1>1 DEF H!Disconnect, H!TypeOK

LEMMA LineType ==
  ASSUME H!HomeConstants, H!TypeOK, NEW c, H!Line(c)
  PROVE  socks' \in [Sockets -> H!SockType] /\ ref' \in Sockets \cup {0} /\ late' \in BOOLEAN
         /\ timer' \in BOOLEAN
BY DisconnectType DEF H!Line, H!TypeOK

LEMMA DrawType ==
  ASSUME H!TypeOK, NEW u \in H!UiType, H!Draw(u) PROVE ui' \in H!UiType /\ asked' \in Deposit
BY DEF H!Draw, H!StillAsked, H!TypeOK, Deposit

LEMMA NotifyType ==
  ASSUME H!HomeConstants, H!TypeOK, NEW m, H!Notify(m)
  PROVE  socks' \in [Sockets -> H!SockType] /\ \A s \in Sockets : socks'[s].st = socks[s].st
<1>1. PICK lucky \in SUBSET Sockets :
        socks' = [s \in Sockets |-> IF s \in lucky THEN [socks[s] EXCEPT !.note = TRUE] ELSE socks[s]]
  BY DEF H!Notify
<1> QED BY <1>1, SocketFields DEF H!TypeOK

\* What is asked anew, and heard.
LEMMA ReloadType ==
  ASSUME H!HomeConstants, plan \in H!PlanType, NEW m \in Anybody, H!Room({"me", "deposits"})
  PROVE  /\ H!Reload(m) \subseteq H!CallType
         /\ \A c \in H!Reload(m) : c.kind \in {"me", "deposits"} /\ c.answer = "none"
BY RequestFields DEF H!Reload, H!Room, Deposit

LEMMA AnsweredType ==
  ASSUME H!TypeOK, NEW c \in requests, NEW f \in SUBSET Deposits,
         NEW a \in {"ok", "no", "expired", "lost", "pending", "denied", "done"}, H!Answered(c, a, f)
  PROVE  /\ requests' \subseteq H!CallType
         /\ \E n \in H!CallType : /\ n.kind = c.kind /\ n.answer = a
                                /\ requests' = (requests \ {c}) \cup {n}
<1> DEFINE n == [c EXCEPT !.answer = a, !.found = f]
<1>1. n \in H!CallType /\ n.kind = c.kind /\ n.answer = a BY DEF H!TypeOK, H!CallType
<1>2. requests' = (requests \ {c}) \cup {n} BY DEF H!Answered
<1> HIDE DEF n
<1> QED BY <1>1, <1>2 DEF H!TypeOK

\* What the server does to a request: it answers, and may decide a deposit.
LEMMA ServeDoes ==
  ASSUME NEW c \in requests, H!TypeOK, H!Serve(c)
  PROVE  /\ \E a \in {"ok", "no", "expired", "pending", "denied", "done"}, f \in SUBSET Deposits : H!Answered(c, a, f)
         /\ \/ H!Same
            \/ \E st \in {"CREDITED", "DENIED"} : H!Set(c.dep, st)
         /\ UNCHANGED <<ui, dialog, ref, timer, plan, asked, late>>
<1>1. CASE c.kind \in {"ask", "deny"} /\ status[c.dep] = "PENDING" BY <1>1 DEF H!Serve
<1>2. CASE c.kind \in {"ask", "deny"} /\ status[c.dep] # "PENDING" BY <1>2 DEF H!Serve
<1>3. CASE c.kind \notin {"ask", "deny"} /\ c.of = None BY <1>3 DEF H!Serve
<1>4. CASE c.kind \in {"me", "restore"} /\ c.of # None BY <1>4 DEF H!Serve, H!Paid
<1>5. CASE c.kind = "deposits" /\ c.of # None BY <1>5 DEF H!Serve, H!Waiting
<1>6. CASE c.kind = "claim" /\ c.of # None /\ H!Claimable(c) BY <1>6 DEF H!Serve
<1>7. CASE c.kind = "claim" /\ c.of # None /\ ~H!Claimable(c) BY <1>7 DEF H!Serve
<1> QED BY <1>1, <1>2, <1>3, <1>4, <1>5, <1>6, <1>7, CallFields DEF H!TypeOK

LEMMA HomeInit == H!HomeConstants /\ H!Init => HomeFits
<1> SUFFICES ASSUME H!HomeConstants, H!Init PROVE HomeFits OBVIOUS
<1>1. plan \in H!PlanType /\ plan.who \in Anybody
  BY DEF H!Init, H!HomeConstants, H!PlanType, Anybody
<1>2. ui \in H!UiType BY <1>1 DEF H!Init, H!UiType, H!NoUser, H!Blank, Anybody
<1> DEFINE a == [H!NoCall EXCEPT !.kind = "ask", !.dep = Linked]
           b == [H!NoCall EXCEPT !.of = plan.who]
<1>3. a \in H!CallType /\ b \in H!CallType /\ ~OfLink(b)
  BY <1>1 DEF H!NoCall, H!CallType, H!HomeConstants, Anybody, OfLink
<1>4. \A c \in requests : c = a \/ c = b BY DEF H!Init
<1>5. requests \subseteq H!CallType /\ OneOfLink BY <1>3, <1>4 DEF OneOfLink, H!Init
<1>6. H!Gone \in H!SockType BY DEF H!Gone, H!SockType
<1> QED BY <1>1, <1>2, <1>5, <1>6 DEF H!Init, HomeFits, H!TypeOK

LEMMA HomeStep ==
  ASSUME H!HomeConstants, HomeFits, [H!HomeNext]_(H!homeVars) PROVE HomeFits'
<1> USE DEF HomeFits
<1>t. /\ ui \in H!UiType /\ ui.token \in Anybody /\ requests \subseteq H!CallType /\ plan \in H!PlanType
      /\ socks \in [Sockets -> H!SockType] /\ ref \in Sockets \cup {0} /\ timer \in BOOLEAN
      /\ late \in BOOLEAN
  BY UiFields DEF H!TypeOK
\* Nothing is asked about the link.
<1>o. ASSUME NEW C, \A c \in C : ~OfLink(c), requests' \subseteq requests \cup C,
             dialog' = dialog \/ dialog' = "none"
      PROVE  OneOfLink'
  BY <1>o DEF OneOfLink
<1>n. ASSUME NEW n, ~OfLink(n), requests' \subseteq requests \cup {n}, dialog' = dialog
      PROVE  OneOfLink'
  BY <1>n DEF OneOfLink
<1>1. ASSUME H!Resume \/ H!OpenNotification PROVE HomeFits'
  <2>1. /\ H!Reload(ui.token) \subseteq H!CallType
        /\ \A c \in H!Reload(ui.token) : c.kind \in {"me", "deposits"} /\ c.answer = "none"
    BY <1>1, <1>t, ReloadType DEF H!Resume, H!OpenNotification
  <2>2. socks' \in [Sockets -> H!SockType] /\ ref' \in Sockets \cup {0} /\ late' \in BOOLEAN
    BY <1>1, <1>t, ConnectType DEF H!Resume, H!OpenNotification
  <2>3. requests' = requests \cup H!Reload(ui.token) /\ UNCHANGED <<ui, dialog, timer, status, plan, asked>>
    BY <1>1 DEF H!Resume, H!OpenNotification
  <2>4. OneOfLink' BY <1>o, <2>1, <2>3 DEF OfLink
  <2> QED BY <2>1, <2>2, <2>3, <2>4 DEF H!TypeOK
<1>2. ASSUME H!Reconnect PROVE HomeFits'
  <2>1. socks' \in [Sockets -> H!SockType] /\ ref' \in Sockets \cup {0} /\ late' \in BOOLEAN
    BY <1>2, <1>t, ConnectType DEF H!Reconnect
  <2> QED BY <1>2, <2>1 DEF H!Reconnect, H!TypeOK, OneOfLink
<1>3. ASSUME NEW s \in Sockets, H!Refresh(s) PROVE HomeFits'
  <2>1. /\ H!Reload(ui.token) \subseteq H!CallType
        /\ \A c \in H!Reload(ui.token) : c.kind \in {"me", "deposits"} /\ c.answer = "none"
    BY <1>3, <1>t, ReloadType DEF H!Refresh
  <2>2. [socks[s] EXCEPT !.note = FALSE] \in H!SockType BY <1>t, SocketFields
  <2>3. socks' \in [Sockets -> H!SockType] BY <1>3, <1>t, <2>2 DEF H!Refresh
  <2>4. OneOfLink' BY <1>3, <1>o, <2>1 DEF H!Refresh, OfLink
  <2> QED BY <1>3, <2>1, <2>3, <2>4 DEF H!Refresh, H!TypeOK
<1>4. ASSUME NEW s \in Sockets, H!Opened(s) \/ H!Closed(s) \/ H!Drop(s) PROVE HomeFits'
  <2>1. socks' \in [Sockets -> H!SockType]
    <3>1. \A x \in H!SockType : socks' = [socks EXCEPT ![s] = x] => socks' \in [Sockets -> H!SockType]
      BY <1>t
    <3> QED BY <1>4, <1>t, <3>1, SocketFields DEF H!Opened, H!Closed, H!Drop
  <2>2. plan' \in H!PlanType BY <1>4, <1>t DEF H!Opened, H!Closed, H!Drop, H!PlanType
  <2> QED BY <1>4, <2>1, <2>2 DEF H!Opened, H!Closed, H!Drop, H!TypeOK, OneOfLink
<1>5. ASSUME NEW m \in Members, H!Login(m) PROVE HomeFits'
  <2> DEFINE u == [ui EXCEPT !.token = m, !.user = [of |-> m, paid |-> H!Paid(m)]]
             n == H!Ask("deposits", m, 0, 0)
  <2>1. u \in H!UiType /\ u.token = m BY <1>t DEF H!UiType, H!Paid
  <2>2. n \in H!CallType /\ n.kind = "deposits"
    BY <1>5, <1>t, RequestFields DEF H!Login, H!Room, Anybody, Deposit
  <2>3. H!Draw(H!Render(u)) /\ H!Connect(m) /\ requests' = requests \cup {n} BY <1>5, <2>1
    DEF H!Login, H!Welcome
  <2>4. ui' \in H!UiType /\ asked' \in Deposit BY <2>1, <2>3, RenderFields, DrawType
  <2>5. socks' \in [Sockets -> H!SockType] /\ ref' \in Sockets \cup {0} /\ late' \in BOOLEAN
    BY <2>3, ConnectType DEF Anybody
  <2>6. plan' \in H!PlanType BY <1>5, <1>t DEF H!Login, H!PlanType
  <2> HIDE DEF u, n
  <2>7. UNCHANGED <<dialog, timer, status>> BY <1>5 DEF H!Login
  <2>8. ~OfLink(n) BY <2>2 DEF OfLink
  <2>9. OneOfLink' BY <1>n, <2>3, <2>7, <2>8
  <2> QED BY <2>2, <2>3, <2>4, <2>5, <2>6, <2>7, <2>9 DEF H!TypeOK, Deposit
<1>l. ASSUME H!Leave
      PROVE  /\ ui' \in H!UiType /\ asked' \in Deposit /\ timer' \in BOOLEAN
             /\ socks' \in [Sockets -> H!SockType] /\ ref' \in Sockets \cup {0} /\ late' \in BOOLEAN
  BY <1>l, <1>t, LoggedOutFields, DrawType, DisconnectType DEF H!Leave
<1>6. ASSUME H!Logout PROVE HomeFits'
  BY <1>6, <1>l DEF H!Logout, H!TypeOK, OneOfLink, Deposit
<1>7. ASSUME H!Arm \/ H!TapBeside PROVE HomeFits'
  <2>1. \A a \in Deposit : [ui EXCEPT !.armed = a] \in H!UiType BY <1>t DEF H!UiType, Deposit
  <2>2. ui' \in H!UiType
    <3>1. ui.shown.dep \in Deposit /\ 0 \in Deposit BY <1>t, UiFields DEF Deposit
    <3>2. \A a \in Deposit : H!Render([ui EXCEPT !.armed = a]) \in H!UiType BY <2>1, RenderFields
    <3>3. CASE H!Arm
      <4>1. PICK a \in Deposit : ui' = H!Render([ui EXCEPT !.armed = a])
        <5> DEFINE a == IF ui.shown.armed \/ ui.armed = ui.shown.dep THEN 0 ELSE ui.shown.dep
        <5>1. a \in Deposit BY <3>1
        <5>2. ui' = H!Render([ui EXCEPT !.armed = a]) BY <3>3 DEF H!Arm
        <5> QED BY <5>1, <5>2
      <4> QED BY <3>2, <4>1
    <3>4. CASE H!TapBeside BY <3>1, <3>2, <3>4 DEF H!TapBeside, H!Draw
    <3> QED BY <1>7, <3>3, <3>4
  <2>3. asked' \in Deposit
    BY <1>7, <1>t, UiFields DEF H!Arm, H!TapBeside, H!Draw, H!StillAsked, H!TypeOK, Deposit
  <2> QED BY <1>7, <2>2, <2>3 DEF H!Arm, H!TapBeside, H!TypeOK, OneOfLink, Deposit
<1>8. ASSUME H!Confirm PROVE HomeFits'
  <2> DEFINE n == H!Ask("claim", ui.token, ui.shown.dep, 0)
  <2>1. n \in H!CallType /\ n.kind = "claim"
    BY <1>8, <1>t, RequestFields, UiFields DEF H!Confirm, H!Room
  <2>2. requests' = requests \cup {n} /\ ui' = [ui EXCEPT !.shown.held = n.n] BY <1>8 DEF H!Confirm
  <2> HIDE DEF n
  <2>3. n.n \in Nat BY <2>1, CallFields
  <2>4. ui' \in H!UiType BY <1>t, <2>2, <2>3 DEF H!UiType
  <2>5. UNCHANGED <<dialog, socks, ref, timer, status, plan, asked, late>> BY <1>8 DEF H!Confirm
  <2>6. ~OfLink(n) BY <2>1 DEF OfLink
  <2>7. OneOfLink' BY <1>n, <2>2, <2>5, <2>6
  <2> QED BY <2>1, <2>2, <2>4, <2>5, <2>7 DEF H!TypeOK
<1>9. ASSUME H!Deny PROVE HomeFits'
  <2> DEFINE n == H!Ask("deny", None, Linked, 0)
  <2>1. \A c \in requests : ~OfLink(c) BY <1>9 DEF H!Deny, OneOfLink
  <2>2. 1 \in H!Free("deny") BY <1>t, <2>1 DEF H!Free, OfLink, H!PlanType
  <2>3. n \in H!CallType BY <1>t, <2>2, RequestFields DEF Anybody, Deposit, H!HomeConstants
  <2>4. requests' = requests \cup {n} /\ dialog' = "held" BY <1>9 DEF H!Deny
  <2> HIDE DEF n
  <2>5. OneOfLink' BY <2>1, <2>4 DEF OneOfLink
  <2> QED BY <1>9, <2>3, <2>4, <2>5 DEF H!Deny, H!TypeOK
<1>10. ASSUME H!CloseDeny PROVE HomeFits'
  BY <1>10 DEF H!CloseDeny, H!TypeOK, OneOfLink
\* The deposits are asked for again, or not.
<1>d. ASSUME H!Room({"deposits"}), NEW m \in Anybody
      PROVE  H!Ask("deposits", m, 0, 0) \in H!CallType /\ ~OfLink(H!Ask("deposits", m, 0, 0))
  BY <1>d, <1>t, RequestFields DEF H!Room, Deposit, OfLink
<1>11. ASSUME NEW c \in requests, H!HearRestore(c), H!Room({"deposits"}) PROVE HomeFits'
  <2>1. CASE c.answer = "ok"
    <3> DEFINE u == [ui EXCEPT !.user = [of |-> c.of, paid |-> c.found]]
               n == H!Ask("deposits", ui.token, 0, 0)
    <3>1. u \in H!UiType /\ u.token = ui.token
      BY <1>t, CallFields DEF H!UiType, Anybody
    <3>2. n \in H!CallType /\ ~OfLink(n) BY <1>d, <1>t, <1>11
    <3>3. H!Draw(H!Render(u)) /\ H!Connect(ui.token) /\ requests' = (requests \ {c}) \cup {n}
          /\ UNCHANGED <<dialog, timer, status, plan>>
      BY <1>11, <2>1, <3>1 DEF H!HearRestore, H!Welcome
    <3> HIDE DEF u, n
    <3>4. ui' \in H!UiType /\ asked' \in Deposit BY <3>1, <3>3, RenderFields, DrawType
    <3>5. socks' \in [Sockets -> H!SockType] /\ ref' \in Sockets \cup {0} /\ late' \in BOOLEAN
      BY <1>t, <3>3, ConnectType
    <3>6. OneOfLink' BY <1>n, <3>2, <3>3
    <3> QED BY <3>2, <3>3, <3>4, <3>5, <3>6 DEF H!TypeOK, Deposit
  <2>2. CASE c.answer = "lost"
    <3>1. requests' = requests \ {c} /\ UNCHANGED <<ui, asked, socks, ref, timer, late, dialog, status, plan>>
      BY <1>11, <2>2 DEF H!HearRestore
    <3> QED BY <3>1 DEF H!TypeOK, OneOfLink
  <2>3. CASE c.answer \notin {"ok", "lost"}
    <3>1. H!Leave /\ requests' = requests \ {c} /\ UNCHANGED <<dialog, status, plan>>
      BY <1>11, <2>3 DEF H!HearRestore
    <3> QED BY <1>l, <3>1 DEF H!TypeOK, OneOfLink, Deposit
  <2> QED BY <2>1, <2>2, <2>3
<1>b. \A c : H!Base(c) \in H!UiType BY <1>t, LoggedOutFields DEF H!Base
<1>12. ASSUME NEW c \in requests, H!HearMe(c), H!Room({"deposits"}) PROVE HomeFits'
  <2>1. ui' \in H!UiType /\ asked' \in Deposit
    <3>1. CASE c.answer = "ok"
      <4>1. [ui EXCEPT !.user = [of |-> c.of, paid |-> c.found]] \in H!UiType
        BY <1>t, CallFields DEF H!UiType, Anybody
      <4> QED BY <1>12, <3>1, <4>1, RenderFields, DrawType DEF H!HearMe
    <3>2. CASE c.answer = "lost" BY <1>12, <1>t, <3>2, ReleasedFields, DrawType DEF H!HearMe
    <3>3. CASE c.answer \notin {"ok", "lost"} BY <1>12, <1>b, <3>3, DrawType DEF H!HearMe
    <3> QED BY <3>1, <3>2, <3>3
  <2>2. ui'.token \in Anybody BY <2>1, UiFields
  <2>3. H!Ask("deposits", ui'.token, 0, 0) \in H!CallType /\ ~OfLink(H!Ask("deposits", ui'.token, 0, 0))
    BY <1>12, <1>d, <2>2
  <2>4. H!Line(c) /\ UNCHANGED <<dialog, status, plan>> BY <1>12 DEF H!HearMe
  <2>5. requests' \in {requests \ {c}, (requests \ {c}) \cup {H!Ask("deposits", ui'.token, 0, 0)}}
    BY <1>12 DEF H!HearMe
  <2>6. OneOfLink' BY <1>n, <2>3, <2>4, <2>5
  <2>7. requests' \subseteq H!CallType BY <1>t, <2>3, <2>5
  <2> QED BY <2>1, <2>4, <2>6, <2>7, LineType DEF H!TypeOK, Deposit
<1>13. ASSUME NEW c \in requests, H!HearDeposits(c) PROVE HomeFits'
  <2>1. ui' \in H!UiType /\ asked' \in Deposit
    <3>1. \A f \in SUBSET Deposits : [H!Base(c) EXCEPT !.deps = f] \in H!UiType BY <1>b DEF H!UiType
    <3>2. H!Render([H!Base(c) EXCEPT !.deps = IF c.answer = "ok" THEN c.found ELSE {}]) \in H!UiType
      BY <1>t, <3>1, CallFields, RenderFields
    <3> QED BY <1>13, <1>t, <3>2, DrawType DEF H!HearDeposits
  <2>2. H!Line(c) /\ requests' = requests \ {c} /\ UNCHANGED <<dialog, status, plan>> BY <1>13
    DEF H!HearDeposits
  <2> QED BY <2>1, <2>2, LineType DEF H!TypeOK, OneOfLink, Deposit
<1>14. ASSUME NEW c \in requests, H!HearClaim(c), H!Room({"me"}) PROVE HomeFits'
  <2> DEFINE n == H!Ask("me", ui.token, 0, c.n)
  <2>1. n \in H!CallType /\ ~OfLink(n)
    BY <1>14, <1>t, RequestFields, CallFields DEF H!Room, Deposit, OfLink
  <2>2. requests' \in {requests \ {c}, (requests \ {c}) \cup {n}} BY <1>14 DEF H!HearClaim
  <2> HIDE DEF n
  <2>3. ui' \in H!UiType /\ asked' \in Deposit
    <3>1. [ui EXCEPT !.armed = 0, !.deps = @ \ {c.dep}] \in H!UiType BY <1>t DEF H!UiType
    <3> QED BY <1>14, <1>b, <3>1, ReleasedFields, DrawType DEF H!HearClaim
  <2>4. H!Line(c) /\ UNCHANGED <<dialog, status, plan>> BY <1>14 DEF H!HearClaim
  <2>5. OneOfLink' BY <1>n, <2>1, <2>2, <2>4
  <2>6. requests' \subseteq H!CallType BY <1>t, <2>1, <2>2
  <2> QED BY <2>3, <2>4, <2>5, <2>6, LineType DEF H!TypeOK, Deposit
<1>15. ASSUME NEW c \in requests, H!HearDeny(c), H!Room({"deposits"}) PROVE HomeFits'
  <2>1. H!Ask("deposits", ui.token, 0, 0) \in H!CallType /\ ~OfLink(H!Ask("deposits", ui.token, 0, 0))
    BY <1>15, <1>d, <1>t
  <2>2. requests' \in {requests \ {c}, (requests \ {c}) \cup {H!Ask("deposits", ui.token, 0, 0)}}
    BY <1>15 DEF H!HearDeny
  <2>3. OfLink(c) /\ \A d \in requests \ {c} : ~OfLink(d) BY <1>15 DEF H!HearDeny, OneOfLink, OfLink
  <2>4. \A d \in requests' : ~OfLink(d) BY <2>1, <2>2, <2>3
  <2>5. dialog' \in {"none", "ask", "thanks", "done", "error"} BY <1>15 DEF H!HearDeny
  <2>6. requests' \subseteq H!CallType BY <1>t, <2>1, <2>2
  <2>7. OneOfLink' BY <2>4 DEF OneOfLink
  <2> QED BY <1>15, <2>5, <2>6, <2>7 DEF H!HearDeny, H!TypeOK
<1>16. ASSUME NEW c \in requests, H!Hear(c) PROVE HomeFits'
  <2>1. CASE H!HearRestore(c) BY <1>11, <1>16, <2>1 DEF H!Hear, H!Follows, H!HearRestore
  <2>2. CASE H!HearMe(c) BY <1>12, <1>16, <2>2 DEF H!Hear, H!Follows, H!HearMe
  <2>3. CASE H!HearDeposits(c) BY <1>13, <2>3
  <2>4. CASE H!HearClaim(c) BY <1>14, <1>16, <2>4 DEF H!Hear, H!Follows, H!HearClaim
  <2>5. CASE H!HearDeny(c) BY <1>15, <1>16, <2>5 DEF H!Hear, H!Follows, H!HearDeny
  <2> QED BY <1>16, <2>1, <2>2, <2>3, <2>4, <2>5 DEF H!Hear
<1>a. ASSUME NEW c \in requests, NEW f \in SUBSET Deposits,
             NEW a \in {"ok", "no", "expired", "lost", "pending", "denied", "done"},
                 H!Answered(c, a, f), dialog' = dialog
      PROVE  requests' \subseteq H!CallType /\ OneOfLink'
  <2>1. PICK n \in H!CallType : n.kind = c.kind /\ requests' = (requests \ {c}) \cup {n}
    BY <1>a, AnsweredType
  <2> QED BY <1>a, <2>1, AnsweredType DEF OneOfLink, OfLink
<1>s. ASSUME NEW d, NEW st \in {"PENDING", "CREDITED", "DENIED"}, H!Set(d, st)
      PROVE  /\ socks' \in [Sockets -> H!SockType]
             /\ status' \in [Deposits -> {"none", "PENDING", "CREDITED", "DENIED"}]
  BY <1>s, NotifyType DEF H!Set, H!TypeOK
<1>17. ASSUME NEW c \in requests, H!Serve(c) PROVE HomeFits'
  <2>1. /\ \E a \in {"ok", "no", "expired", "pending", "denied", "done"}, f \in SUBSET Deposits : H!Answered(c, a, f)
        /\ \/ H!Same
           \/ \E st \in {"CREDITED", "DENIED"} : H!Set(c.dep, st)
        /\ UNCHANGED <<ui, dialog, ref, timer, plan, asked, late>>
    BY <1>17, ServeDoes
  <2>2. requests' \subseteq H!CallType /\ OneOfLink' BY <1>a, <2>1
  <2>3. /\ socks' \in [Sockets -> H!SockType]
        /\ status' \in [Deposits -> {"none", "PENDING", "CREDITED", "DENIED"}]
    BY <1>s, <2>1 DEF H!Same, H!TypeOK
  <2> QED BY <2>1, <2>2, <2>3 DEF H!TypeOK
<1>18. ASSUME NEW c \in requests, H!Fail(c) PROVE HomeFits'
  <2>1. \E a \in {"lost", "no", "expired"} : H!Answered(c, a, {}) BY <1>18 DEF H!Fail
  <2>2. requests' \subseteq H!CallType /\ OneOfLink' BY <1>18, <1>a, <2>1 DEF H!Fail
  <2>3. plan' \in H!PlanType BY <1>18, <1>t DEF H!Fail, H!PlanType
  <2> QED BY <1>18, <2>2, <2>3 DEF H!Fail, H!TypeOK
<1>19. ASSUME NEW d \in Deposits, H!Decide(d) PROVE HomeFits'
  <2>1. \E st \in {"PENDING", "CREDITED", "DENIED"} : H!Set(d, st) BY <1>19 DEF H!Decide
  <2>2. /\ socks' \in [Sockets -> H!SockType]
        /\ status' \in [Deposits -> {"none", "PENDING", "CREDITED", "DENIED"}]
    BY <1>s, <2>1
  <2>3. plan' \in H!PlanType BY <1>19, <1>t DEF H!Decide, H!PlanType
  <2> QED BY <1>19, <2>2, <2>3 DEF H!Decide, H!TypeOK, OneOfLink
<1>20. CASE UNCHANGED H!homeVars BY <1>20 DEF H!homeVars, H!TypeOK, OneOfLink
<1> QED
  BY <1>1, <1>2, <1>3, <1>4, <1>5, <1>6, <1>7, <1>8, <1>9, <1>10, <1>16, <1>17, <1>18, <1>19, <1>20
     DEF H!HomeNext, H!Sees, H!Taps

\* How the line may change, each with what the page knows of its member.
LEMMA LineStep ==
  ASSUME H!HomeConstants, HomeFits, LineInv, [H!HomeNext]_(H!homeVars) PROVE LineInv'
<1>t. /\ ui \in H!UiType /\ socks \in [Sockets -> H!SockType] /\ ref \in Sockets \cup {0}
      /\ \A s \in Sockets : socks[s].st \in {"gone", "opening", "open", "closing"}
      /\ requests \subseteq H!CallType
  BY DEF HomeFits, H!TypeOK, H!SockType
<1>k. ASSUME ui.token # None => ui'.token # None, ref' = ref, late' = late,
             \A s \in Sockets : socks'[s].st = socks[s].st
      PROVE  LineInv'
  BY <1>k DEF LineInv, H!Live
<1>c. ASSUME H!Connect(ui'.token), ui.token # None => ui'.token # None PROVE LineInv'
  <2>1. CASE UNCHANGED <<socks, ref, late>> BY <1>c, <1>k, <2>1
  <2>2. CASE ~ UNCHANGED <<socks, ref, late>>
    <3>1. /\ ui'.token # None /\ ~H!Connected /\ H!Spare # {} /\ ref' = H!Least(H!Spare)
          /\ socks' = [socks EXCEPT ![H!Least(H!Spare)] = [H!Gone EXCEPT !.st = "opening", !.of = ui'.token]]
          /\ late' = (late \/ H!Closing # {})
      BY <1>c, <2>2 DEF H!Connect
    <3>2. CASE late' BY <3>2 DEF LineInv
    <3>3. CASE ~late'
      <4>1. ~late /\ H!Closing = {} BY <3>1, <3>3
      <4>2. \A s \in Sockets : ~H!Live(s) BY <3>1, <4>1 DEF LineInv, H!Connected, H!HomeConstants
      <4>3. \A s \in Sockets : socks[s].st = "gone" BY <1>t, <4>1, <4>2 DEF H!Closing, H!Live
      <4>4. H!Least(H!Spare) \in Sockets BY <1>t, <3>1, SocketFields
      <4>5. \A s \in Sockets : socks'[s].st # "gone" => s = ref' BY <1>t, <3>1, <4>3, <4>4
      <4> QED BY <3>1, <4>5 DEF LineInv, H!Live
    <3> QED BY <3>2, <3>3
  <2> QED BY <2>1, <2>2
<1>d. ASSUME H!Disconnect PROVE LineInv'
  <2>1. CASE ref # 0 /\ H!Live(ref)
    <3>1. late' = late /\ socks' = [socks EXCEPT ![ref].st = "closing"] BY <1>d, <2>1
      DEF H!Disconnect
    <3>2. \A s \in Sockets : /\ s # ref => socks'[s] = socks[s]
                             /\ s = ref => socks'[s].st = "closing" /\ socks[s].st # "gone"
      BY <1>t, <2>1, <3>1 DEF H!SockType, H!Live
    <3> QED BY <3>1, <3>2 DEF LineInv, H!Live
  <2>2. CASE ~(ref # 0 /\ H!Live(ref))
    <3>1. late' = late /\ socks' = socks BY <1>d, <2>2 DEF H!Disconnect
    <3>2. \A s \in Sockets : ~late => ~H!Live(s) BY <2>2 DEF LineInv, H!HomeConstants
    <3> QED BY <3>1, <3>2 DEF LineInv, H!Live
  <2> QED BY <2>1, <2>2
<1>1. ASSUME H!Resume \/ H!Reconnect PROVE LineInv' BY <1>1, <1>c DEF H!Resume, H!Reconnect
<1>2. ASSUME NEW s \in Sockets, H!Refresh(s) PROVE LineInv'
  <2>1. \A t \in Sockets : socks'[t].st = socks[t].st BY <1>2, <1>t DEF H!Refresh, H!SockType
  <2> QED BY <1>2, <1>k, <2>1 DEF H!Refresh
<1>3. ASSUME NEW s \in Sockets, H!Opened(s) PROVE LineInv'
  <2>1. /\ \A t \in Sockets : t # s => socks'[t] = socks[t]
        /\ socks'[s].st = "open" /\ socks[s].st = "opening"
    BY <1>3, <1>t DEF H!Opened, H!SockType
  <2> QED BY <1>3, <2>1 DEF H!Opened, LineInv, H!Live
<1>4. ASSUME NEW s \in Sockets, H!Closed(s) PROVE LineInv'
  <2>1. /\ \A t \in Sockets : t # s => socks'[t] = socks[t]
        /\ socks'[s].st = "gone" /\ socks[s].st # "gone" /\ late' = late
    BY <1>4, <1>t DEF H!Closed, H!Gone, H!Live
  <2> QED BY <2>1 DEF LineInv, H!Live
<1>5. ASSUME NEW s \in Sockets, H!Drop(s) PROVE LineInv'
  <2>1. /\ \A t \in Sockets : t # s => socks'[t] = socks[t]
        /\ socks'[s].st = "closing" /\ socks[s].st # "gone" /\ late' = late
    BY <1>5, <1>t DEF H!Drop, H!SockType, H!Live
  <2> QED BY <2>1 DEF LineInv, H!Live
<1>6. ASSUME NEW m \in Members, H!Login(m) PROVE LineInv'
  <2> DEFINE u == [ui EXCEPT !.token = m, !.user = [of |-> m, paid |-> H!Paid(m)]]
  <2>1. u \in H!UiType /\ u.token = m BY <1>t DEF H!UiType, H!Paid
  <2>2. ui' = H!Render(u) /\ H!Connect(m) BY <1>6, <2>1 DEF H!Login, H!Welcome, H!Draw
  <2> HIDE DEF u
  <2>3. ui'.token = m BY <2>1, <2>2, RenderFields
  <2> QED BY <1>c, <2>2, <2>3 DEF H!HomeConstants
<1>7. ASSUME H!Leave PROVE LineInv' BY <1>7, <1>d DEF H!Leave
<1>8. ASSUME H!Arm \/ H!TapBeside \/ H!Confirm PROVE LineInv'
  <2>1. \A a \in Deposit : [ui EXCEPT !.armed = a] \in H!UiType /\ [ui EXCEPT !.armed = a].token = ui.token
    BY <1>t DEF H!UiType, Deposit
  <2>2. \A a \in Deposit : H!Render([ui EXCEPT !.armed = a]).token = ui.token BY <2>1, RenderFields
  <2>3. 0 \in Deposit /\ ui.shown.dep \in Deposit BY <1>t, UiFields DEF Deposit
  <2>4. ui'.token = ui.token BY <1>8, <1>t, <2>2, <2>3
    DEF H!Arm, H!TapBeside, H!Confirm, H!Draw, H!UiType
  <2> QED BY <1>8, <1>k, <2>4 DEF H!Arm, H!TapBeside, H!Confirm
<1>9. ASSUME H!Deny \/ H!CloseDeny \/ H!OpenNotification PROVE LineInv'
  BY <1>9, <1>k DEF H!Deny, H!CloseDeny, H!OpenNotification
<1>10. ASSUME NEW c \in requests, H!HearRestore(c) PROVE LineInv'
  <2>1. CASE c.answer = "ok"
    <3> DEFINE u == [ui EXCEPT !.user = [of |-> c.of, paid |-> c.found]]
    <3>1. u \in H!UiType /\ u.token = ui.token BY <1>t, CallFields DEF H!UiType, Anybody
    <3>2. ui' = H!Render(u) /\ H!Connect(ui.token) BY <1>10, <2>1, <3>1
      DEF H!HearRestore, H!Welcome, H!Draw
    <3> HIDE DEF u
    <3>3. ui'.token = ui.token BY <3>1, <3>2, RenderFields
    <3> QED BY <1>c, <3>2, <3>3
  <2>2. CASE c.answer = "lost" BY <1>10, <1>k, <2>2 DEF H!HearRestore
  <2>3. CASE c.answer \notin {"ok", "lost"} BY <1>7, <1>10, <2>3 DEF H!HearRestore
  <2> QED BY <2>1, <2>2, <2>3
\* An answer that a token has expired takes the line down, any other leaves both alone.
<1>l. ASSUME NEW c \in requests, H!Line(c), c.answer # "expired" => ui'.token = ui.token
      PROVE  LineInv'
  <2>1. CASE c.answer = "expired" BY <1>d, <1>l, <2>1 DEF H!Line
  <2>2. CASE c.answer # "expired" BY <1>k, <1>l, <2>2 DEF H!Line
  <2> QED BY <2>1, <2>2
<1>11. ASSUME NEW c \in requests, H!HearMe(c) PROVE LineInv'
  <2>1. ASSUME c.answer = "ok" PROVE ui'.token = ui.token
    <3> DEFINE u == [ui EXCEPT !.user = [of |-> c.of, paid |-> c.found]]
    <3>1. u \in H!UiType /\ u.token = ui.token BY <1>t, CallFields DEF H!UiType, Anybody
    <3>2. ui' = H!Render(u) BY <1>11, <2>1 DEF H!HearMe, H!Draw
    <3> HIDE DEF u
    <3> QED BY <3>1, <3>2, RenderFields
  <2>2. c.answer = "lost" => ui' = H!Released(ui, c.then) BY <1>11 DEF H!HearMe, H!Draw
  <2>3. c.answer \notin {"ok", "lost", "expired"} => ui' = ui BY <1>11 DEF H!HearMe, H!Draw, H!Base
  <2>4. c.answer # "expired" => ui'.token = ui.token BY <1>t, <2>1, <2>2, <2>3, ReleasedFields
  <2> QED BY <1>l, <1>11, <2>4 DEF H!HearMe
<1>12. ASSUME NEW c \in requests, H!HearDeposits(c) PROVE LineInv'
  <2>1. ASSUME c.answer \notin {"expired", "lost"} PROVE ui'.token = ui.token
    <3> DEFINE f == IF c.answer = "ok" THEN c.found ELSE {}
               u == [ui EXCEPT !.deps = f]
    <3>1. f \in SUBSET Deposits BY <1>t, CallFields
    <3>2. u \in H!UiType /\ u.token = ui.token BY <1>t, <3>1 DEF H!UiType
    <3>3. ui' = H!Render(u) BY <1>12, <2>1 DEF H!HearDeposits, H!Draw, H!Base
    <3> HIDE DEF u
    <3> QED BY <3>2, <3>3, RenderFields
  <2>2. c.answer = "lost" => ui' = ui BY <1>12 DEF H!HearDeposits, H!Draw
  <2> QED BY <1>l, <1>12, <2>1, <2>2 DEF H!HearDeposits
<1>13. ASSUME NEW c \in requests, H!HearClaim(c) PROVE LineInv'
  <2>1. c.answer = "ok" => ui'.token = ui.token BY <1>13, <1>t DEF H!HearClaim, H!Draw, H!UiType
  <2>2. c.answer \notin {"ok", "expired"} => ui' = H!Released(ui, c.n)
    BY <1>13 DEF H!HearClaim, H!Draw, H!Base
  <2>3. c.answer # "expired" => ui'.token = ui.token BY <1>t, <2>1, <2>2, ReleasedFields
  <2> QED BY <1>l, <1>13, <2>3 DEF H!HearClaim
<1>14. ASSUME NEW c \in requests, H!HearDeny(c) PROVE LineInv' BY <1>14, <1>k DEF H!HearDeny
<1>15. ASSUME NEW c \in requests, H!Hear(c) PROVE LineInv'
  BY <1>10, <1>11, <1>12, <1>13, <1>14, <1>15 DEF H!Hear
<1>16. ASSUME NEW c \in requests, H!Serve(c) PROVE LineInv'
  <2>1. \A s \in Sockets : socks'[s].st = socks[s].st BY <1>16, ServeDoes, NotifyType
    DEF H!Set, H!Same, HomeFits
  <2>2. UNCHANGED <<ui, ref, late>> BY <1>16, ServeDoes DEF HomeFits
  <2> QED BY <1>k, <2>1, <2>2
<1>17. ASSUME NEW c \in requests, H!Fail(c) PROVE LineInv' BY <1>17, <1>k DEF H!Fail
<1>18. ASSUME NEW d \in Deposits, H!Decide(d) PROVE LineInv'
  <2>1. \A s \in Sockets : socks'[s].st = socks[s].st BY <1>18, NotifyType
    DEF H!Decide, H!Set, HomeFits
  <2> QED BY <1>k, <1>18, <2>1 DEF H!Decide
<1>19. CASE UNCHANGED H!homeVars BY <1>k, <1>19 DEF H!homeVars
<1> QED
  BY <1>1, <1>2, <1>3, <1>4, <1>5, <1>6, <1>7, <1>8, <1>9, <1>15, <1>16, <1>17, <1>18, <1>19
     DEF H!HomeNext, H!Sees, H!Taps, H!Logout

\* The card is drawn from a page that is armed for what has been asked, or for nothing.
LEMMA DrawKeeps ==
  ASSUME NEW u, H!Draw(u), u.armed # 0 => u.shown.armed /\ u.shown.dep = u.armed,
         u.shown.armed => u.shown.dep = asked
  PROVE  CardInv'
BY DEF H!Draw, H!StillAsked, CardInv

LEMMA RenderKeepsCard ==
  ASSUME H!HomeConstants, CardInv, NEW u \in H!UiType, u.armed \in {0, ui.armed},
         H!Draw(H!Render(u))
  PROVE  CardInv'
<1>1. H!Render(u).armed # 0 => H!Render(u).shown.armed /\ H!Render(u).shown.dep = H!Render(u).armed BY RenderFields
<1>2. H!Render(u).shown.armed => H!Render(u).shown.dep = ui.armed /\ ui.armed # 0 BY RenderFields
<1>3. H!Render(u).shown.armed => H!Render(u).shown.dep = asked BY <1>2 DEF CardInv
<1> QED BY <1>1, <1>3, DrawKeeps

LEMMA CardStep ==
  ASSUME H!HomeConstants, HomeFits, CardInv, [H!HomeNext]_(H!homeVars) PROVE CardInv'
<1>t. ui \in H!UiType /\ requests \subseteq H!CallType BY DEF HomeFits, H!TypeOK
<1>k. ASSUME UNCHANGED <<ui, asked>> PROVE CardInv' BY <1>k DEF CardInv
<1>l. ASSUME H!Draw(H!LoggedOut(ui)) PROVE CardInv' BY <1>l, <1>t, LoggedOutFields, DrawKeeps
<1>r. ASSUME NEW n, H!Draw(H!Released(ui, n)) PROVE CardInv'
  BY <1>r, <1>t, ReleasedFields, DrawKeeps DEF CardInv
<1>u. ASSUME H!Draw(ui) PROVE CardInv' BY <1>u, DrawKeeps DEF CardInv
<1>1. ASSUME H!Resume \/ H!Reconnect \/ H!OpenNotification \/ H!Deny \/ H!CloseDeny PROVE CardInv'
  BY <1>1, <1>k DEF H!Resume, H!Reconnect, H!OpenNotification, H!Deny, H!CloseDeny
<1>2. ASSUME NEW s \in Sockets, H!Refresh(s) \/ H!Opened(s) \/ H!Closed(s) \/ H!Drop(s)
      PROVE  CardInv'
  BY <1>2, <1>k DEF H!Refresh, H!Opened, H!Closed, H!Drop
<1>3. ASSUME NEW m \in Members, H!Login(m) PROVE CardInv'
  <2> DEFINE u == [ui EXCEPT !.token = m, !.user = [of |-> m, paid |-> H!Paid(m)]]
  <2>1. u \in H!UiType /\ u.armed = ui.armed BY <1>t DEF H!UiType, H!Paid
  <2>2. H!Draw(H!Render(u)) BY <1>3 DEF H!Login, H!Welcome
  <2> QED BY <2>1, <2>2, RenderKeepsCard
<1>4. ASSUME H!Leave PROVE CardInv' BY <1>4, <1>l DEF H!Leave
\* The first tap, which asks about the deposit on the card.
<1>5. ASSUME H!Arm PROVE CardInv'
  <2> DEFINE a == IF ui.shown.armed \/ ui.armed = ui.shown.dep THEN 0 ELSE ui.shown.dep
             u == [ui EXCEPT !.armed = a]
  <2>1. u \in H!UiType /\ u.armed = a BY <1>t DEF H!UiType
  <2>2. ui' = H!Render(u) /\ asked' = IF H!Render(u).shown.armed THEN ui.shown.dep ELSE 0 BY <1>5
    DEF H!Arm
  <2>3. a \in {0, ui.shown.dep} OBVIOUS
  <2> HIDE DEF u, a
  <2>4. H!Render(u).armed # 0 => H!Render(u).shown.armed /\ H!Render(u).shown.dep = H!Render(u).armed
    BY <2>1, RenderFields
  <2>5. H!Render(u).shown.armed => H!Render(u).shown.dep = ui.shown.dep BY <2>1, <2>3, RenderFields
  <2> QED BY <2>2, <2>4, <2>5 DEF CardInv
<1>6. ASSUME H!TapBeside PROVE CardInv'
  <2> DEFINE u == [ui EXCEPT !.armed = 0]
  <2>1. u \in H!UiType /\ u.armed = 0 /\ H!Draw(H!Render(u)) BY <1>6, <1>t DEF H!TapBeside, H!UiType
  <2> QED BY <2>1, RenderKeepsCard
<1>7. ASSUME H!Confirm PROVE CardInv'
  <2>1. /\ ui'.armed = ui.armed /\ ui'.shown.armed = ui.shown.armed /\ ui'.shown.dep = ui.shown.dep
        /\ asked' = asked
    BY <1>7, <1>t DEF H!Confirm, H!UiType
  <2> QED BY <2>1 DEF CardInv
<1>8. ASSUME NEW c \in requests, H!HearRestore(c) PROVE CardInv'
  <2>1. CASE c.answer = "ok"
    <3> DEFINE u == [ui EXCEPT !.user = [of |-> c.of, paid |-> c.found]]
    <3>1. u \in H!UiType /\ u.armed = ui.armed BY <1>t, CallFields DEF H!UiType, Anybody
    <3>2. H!Draw(H!Render(u)) BY <1>8, <2>1 DEF H!HearRestore, H!Welcome
    <3> QED BY <3>1, <3>2, RenderKeepsCard
  <2>2. CASE c.answer = "lost" BY <1>8, <1>k, <2>2 DEF H!HearRestore
  <2>3. CASE c.answer \notin {"ok", "lost"} BY <1>4, <1>8, <2>3 DEF H!HearRestore
  <2> QED BY <2>1, <2>2, <2>3
<1>b. ASSUME NEW c, H!Draw(H!Base(c)) PROVE CardInv' BY <1>b, <1>l, <1>u DEF H!Base
<1>9. ASSUME NEW c \in requests, H!HearMe(c) PROVE CardInv'
  <2>1. CASE c.answer = "ok"
    <3> DEFINE u == [ui EXCEPT !.user = [of |-> c.of, paid |-> c.found]]
    <3>1. u \in H!UiType /\ u.armed = ui.armed BY <1>t, CallFields DEF H!UiType, Anybody
    <3>2. H!Draw(H!Render(u)) BY <1>9, <2>1 DEF H!HearMe
    <3> QED BY <3>1, <3>2, RenderKeepsCard
  <2>2. CASE c.answer = "lost" BY <1>9, <1>r, <2>2 DEF H!HearMe
  <2>3. CASE c.answer \notin {"ok", "lost"} BY <1>9, <1>b, <2>3 DEF H!HearMe
  <2> QED BY <2>1, <2>2, <2>3
<1>10. ASSUME NEW c \in requests, H!HearDeposits(c) PROVE CardInv'
  <2>1. CASE c.answer = "lost" BY <1>10, <1>u, <2>1 DEF H!HearDeposits
  <2>2. CASE c.answer # "lost"
    <3> DEFINE f == IF c.answer = "ok" THEN c.found ELSE {}
               u == [H!Base(c) EXCEPT !.deps = f]
    <3>1. f \in SUBSET Deposits BY <1>t, CallFields
    <3>2. H!Base(c) \in H!UiType /\ H!Base(c).armed \in {0, ui.armed} BY <1>t, LoggedOutFields
      DEF H!Base
    <3> HIDE DEF f
    <3>3. u \in H!UiType /\ u.armed \in {0, ui.armed} BY <3>1, <3>2 DEF H!UiType
    <3>4. H!Draw(H!Render(u)) BY <1>10, <2>2 DEF H!HearDeposits, f
    <3> HIDE DEF u
    <3> QED BY <3>3, <3>4, RenderKeepsCard
  <2> QED BY <2>1, <2>2
<1>11. ASSUME NEW c \in requests, H!HearClaim(c) PROVE CardInv'
  <2>1. CASE c.answer = "ok"
    <3> DEFINE u == [ui EXCEPT !.armed = 0, !.deps = @ \ {c.dep}]
    <3>1. u.armed = 0 /\ u.shown = ui.shown BY <1>t DEF H!UiType
    <3>2. H!Draw(u) BY <1>11, <2>1 DEF H!HearClaim
    <3> HIDE DEF u
    <3> QED BY <3>1, <3>2, DrawKeeps DEF CardInv
  <2>2. CASE c.answer = "expired"
    <3>1. H!Draw(H!Released(H!LoggedOut(ui), c.n)) BY <1>11, <2>2 DEF H!HearClaim, H!Base
    <3> QED BY <1>t, <3>1, LoggedOutFields, ReleasedFields, DrawKeeps
  <2>3. CASE c.answer \notin {"ok", "expired"} BY <1>11, <1>r, <2>3 DEF H!HearClaim, H!Base
  <2> QED BY <2>1, <2>2, <2>3
<1>12. ASSUME NEW c \in requests, H!HearDeny(c) PROVE CardInv' BY <1>12, <1>k DEF H!HearDeny
<1>13. ASSUME NEW c \in requests, H!Hear(c) PROVE CardInv'
  BY <1>8, <1>9, <1>10, <1>11, <1>12, <1>13 DEF H!Hear
<1>14. ASSUME NEW c \in requests, H!Serve(c) PROVE CardInv' BY <1>14, <1>k, ServeDoes DEF HomeFits
<1>15. ASSUME NEW c \in requests, H!Fail(c) PROVE CardInv' BY <1>15, <1>k DEF H!Fail
<1>16. ASSUME NEW d \in Deposits, H!Decide(d) PROVE CardInv' BY <1>16, <1>k DEF H!Decide
<1>17. CASE UNCHANGED H!homeVars BY <1>k, <1>17 DEF H!homeVars
<1> QED
  BY <1>1, <1>2, <1>3, <1>4, <1>5, <1>6, <1>7, <1>13, <1>14, <1>15, <1>16, <1>17
     DEF H!HomeNext, H!Sees, H!Taps, H!Logout

\* A request to confirm comes from the second tap alone.
LEMMA ConfirmStep ==
  ASSUME H!HomeConstants, HomeFits, CardInv, [H!HomeNext]_(H!homeVars)
  PROVE  \A c \in requests' \ requests : c.kind = "claim" /\ c.answer = "none" => c.dep = asked
<1> DEFINE Claim(c) == c.kind = "claim" /\ c.answer = "none"
<1> SUFFICES ASSUME ~H!Confirm PROVE \A c \in requests' \ requests : ~Claim(c)
  <2>1. CASE H!Confirm
    <3> DEFINE n == H!Ask("claim", ui.token, ui.shown.dep, 0)
    <3>1. ui.token \in Anybody /\ ui.shown.dep \in Deposit BY UiFields DEF HomeFits, H!TypeOK
    <3>2. n.dep = ui.shown.dep
      BY <2>1, <3>1, RequestFields DEF H!Confirm, H!Room, HomeFits, H!TypeOK
    <3>3. requests' = requests \cup {n} /\ asked = ui.shown.dep BY <2>1 DEF H!Confirm, CardInv
    <3> QED BY <3>2, <3>3
  <2> QED BY <2>1
<1>t. /\ ui \in H!UiType /\ ui.token \in Anybody /\ requests \subseteq H!CallType /\ plan \in H!PlanType
      /\ 0 \in Deposit /\ None \in Anybody
  BY UiFields DEF HomeFits, H!TypeOK, Anybody, Deposit
<1>1. ASSUME H!Resume \/ H!OpenNotification PROVE \A c \in requests' \ requests : ~Claim(c)
  <2>1. \A c \in H!Reload(ui.token) : c.kind \in {"me", "deposits"}
    BY <1>1, <1>t, ReloadType DEF H!Resume, H!OpenNotification
  <2> QED BY <1>1, <2>1 DEF H!Resume, H!OpenNotification
<1>2. ASSUME NEW s \in Sockets, H!Refresh(s) PROVE \A c \in requests' \ requests : ~Claim(c)
  <2>1. \A c \in H!Reload(ui.token) : c.kind \in {"me", "deposits"}
    BY <1>2, <1>t, ReloadType DEF H!Refresh
  <2> QED BY <1>2, <2>1 DEF H!Refresh
\* What else is asked is of another kind by its form.
<1>a. \A k, m, d, t : H!Ask(k, m, d, t).kind = k BY DEF H!Ask
<1>3. ASSUME NEW m \in Members, H!Login(m) PROVE \A c \in requests' \ requests : ~Claim(c)
  BY <1>3, <1>a DEF H!Login
<1>4. ASSUME H!Deny PROVE \A c \in requests' \ requests : ~Claim(c)
  BY <1>4, <1>a DEF H!Deny
<1>5. ASSUME NEW c \in requests, H!Hear(c) PROVE \A d \in requests' \ requests : ~Claim(d)
  <2>1. CASE H!HearRestore(c) BY <1>a, <2>1 DEF H!HearRestore
  <2>2. CASE H!HearMe(c) BY <1>a, <2>2 DEF H!HearMe
  <2>3. CASE H!HearDeposits(c) BY <2>3 DEF H!HearDeposits
  <2>4. CASE H!HearClaim(c) BY <1>a, <2>4 DEF H!HearClaim
  <2>5. CASE H!HearDeny(c) BY <1>a, <2>5 DEF H!HearDeny
  <2> QED BY <1>5, <2>1, <2>2, <2>3, <2>4, <2>5 DEF H!Hear
<1>6. ASSUME NEW c \in requests, NEW f \in SUBSET Deposits,
             NEW a \in {"ok", "no", "expired", "lost", "pending", "denied", "done"},
                 H!Answered(c, a, f)
      PROVE  \A d \in requests' \ requests : ~Claim(d)
  <2>1. PICK n \in H!CallType : n.answer = a /\ requests' = (requests \ {c}) \cup {n}
    BY <1>6, AnsweredType DEF HomeFits
  <2> QED BY <2>1
<1>7. ASSUME NEW c \in requests, H!Serve(c) PROVE \A d \in requests' \ requests : ~Claim(d)
  BY <1>6, <1>7, ServeDoes DEF HomeFits
<1>8. ASSUME NEW c \in requests, H!Fail(c) PROVE \A d \in requests' \ requests : ~Claim(d)
  BY <1>6, <1>8 DEF H!Fail
<1>9. ASSUME requests' = requests PROVE \A c \in requests' \ requests : ~Claim(c) BY <1>9
<1>10. ASSUME H!Reconnect \/ H!Logout \/ H!Arm \/ H!TapBeside \/ H!CloseDeny PROVE requests' = requests
  BY <1>10 DEF H!Reconnect, H!Logout, H!Arm, H!TapBeside, H!CloseDeny
<1>11. ASSUME NEW s \in Sockets, H!Opened(s) \/ H!Closed(s) \/ H!Drop(s) PROVE requests' = requests
  BY <1>11 DEF H!Opened, H!Closed, H!Drop
<1>12. ASSUME NEW d \in Deposits, H!Decide(d) PROVE requests' = requests BY <1>12 DEF H!Decide
<1>13. UNCHANGED H!homeVars => requests' = requests BY DEF H!homeVars
<1> HIDE DEF Claim
<1> QED
  BY <1>1, <1>2, <1>3, <1>4, <1>5, <1>7, <1>8, <1>9, <1>10, <1>11, <1>12, <1>13
       DEF H!HomeNext, H!Sees, H!Taps

\* The type invariant of the page, its requests and its sockets (user.js, ws-client.js).
THEOREM HomeTypeCorrect == H!HomeSpec => []H!TypeOK
<1> H!HomeConstants BY AppAssumption
<1>1. H!Init => HomeFits BY HomeInit
<1>2. HomeFits /\ [H!HomeNext]_(H!homeVars) => HomeFits' BY HomeStep
<1>3. HomeFits => H!TypeOK BY DEF HomeFits
<1> QED BY <1>1, <1>2, <1>3, PTL DEF H!HomeSpec

\* A page has one line to the server, and none without a member (ws-client.js:23, 54),
\* unless a socket was opened while another was still closing.
THEOREM OneLineOnly == H!HomeSpec => []OneLine
<1> H!HomeConstants BY AppAssumption
<1>1. H!Init => HomeFits BY HomeInit
<1>2. HomeFits /\ [H!HomeNext]_(H!homeVars) => HomeFits' BY HomeStep
<1>3. H!Init => LineInv BY DEF H!Init, LineInv, H!Live, H!Gone
<1>4. HomeFits /\ LineInv /\ [H!HomeNext]_(H!homeVars) => LineInv' BY LineStep
<1>5. LineInv => OneLine BY DEF LineInv, OneLine, H!OneLine, H!Live
<1> QED BY <1>1, <1>2, <1>3, <1>4, <1>5, PTL DEF H!HomeSpec

\* What is confirmed is the deposit whose card was tapped once and which the page has
\* shown, waiting for the second tap, ever since (user.js:1239, 1263).
THEOREM AskedBeforeConfirmed == H!HomeSpec => ConfirmsTheAsked
<1> H!HomeConstants BY AppAssumption
<1>1. H!Init => HomeFits BY HomeInit
<1>2. HomeFits /\ [H!HomeNext]_(H!homeVars) => HomeFits' BY HomeStep
<1>3. H!Init => CardInv BY DEF H!Init, CardInv, H!Blank
<1>4. HomeFits /\ CardInv /\ [H!HomeNext]_(H!homeVars) => CardInv' BY CardStep
<1>5. HomeFits /\ CardInv /\ [H!HomeNext]_(H!homeVars)
        => [\A c \in requests' \ requests : c.kind = "claim" /\ c.answer = "none" => c.dep = asked]_(H!homeVars)
  BY ConfirmStep
<1> QED BY <1>1, <1>2, <1>3, <1>4, <1>5, PTL DEF H!HomeSpec, ConfirmsTheAsked, H!ConfirmsTheAsked

-------------------------------------------------------------------------------
(* The lists (HistoryPages), for every set of owners and rows and any      *)
(* number of loads, lost answers and lists drawn anew.                     *)

PageRow == [row : Rows, dated : BOOLEAN]
LoadType == [owner : Owners \cup {None}, before : Nat, answer : {"none", "ok", "lost"},
             page : Seq(Rows), next : Nat]

\* TypeOK, and that rows are counted, come in the order of their times, and are loaded for
\* somebody.
ListFits ==
  /\ L!TypeOK /\ call \in LoadType /\ (loading => call.owner \in Owners)
  /\ IsFiniteSet(rows) /\ \A r \in rows, s \in Rows \ rows : r < s

\* The cursor and the last date are those of the last row, the load under way goes on from
\* there, and what it goes on from was a row.
ListPlace ==
  /\ loading => more
  /\ box = <<>> => cursor = 0 /\ last = 0
  /\ box # <<>> => cursor = Time[box[Len(box)].row] /\ last = Day[box[Len(box)].row]
  /\ loading /\ (calm \/ box # <<>>) => call.before = cursor
  /\ loading /\ calm => call.owner = owner
  /\ \A i \in DOMAIN box : box[i].row \in rows
  /\ loading /\ call.before # 0 => \E s \in rows : Time[s] = call.before

\* A row that a page of owner o before time b could show.
Eligible(r, o, b) == Of[r] = o /\ (b = 0 \/ Time[r] < b)

\* A page that has been served: rows of its owner before its time, the newest first, and
\* without a gap, although rows may have come since.
PageFits(c) ==
  /\ \A i \in DOMAIN c.page : c.page[i] \in rows /\ Eligible(c.page[i], c.owner, c.before)
  /\ \A i, j \in DOMAIN c.page : i < j => c.page[i] > c.page[j]
  /\ c.page # <<>> => c.next = Time[c.page[Len(c.page)]]
  /\ \A r \in rows :
       /\ Eligible(r, c.owner, c.before)
       /\ c.before = 0 => c.page # <<>> /\ r < c.page[1]
       /\ c.page # <<>> => r > c.page[Len(c.page)]
       => \E i \in DOMAIN c.page : c.page[i] = r

ListInv ==
  /\ ListFits /\ ListPlace /\ (call.answer = "ok" => PageFits(call))
  /\ ReadsInOrder /\ OwnRows /\ NothingLeftOut

\* What the helpers count with.
LEMMA RowCounts ==
  /\ \A S, r : L!Above(S, r) = Cardinality({s \in S : s > r})
  /\ \A S : L!Sorted(S) = [i \in 1..Cardinality(S) |-> CHOOSE r \in S : L!Above(S, r) = i - 1]
  /\ \A n, S : L!Newest(n, S) = {r \in S : L!Above(S, r) < n}
<1>1. \A S : L!Cardinality(S) = Cardinality(S) BY DEF L!Cardinality, Cardinality
<1> HIDE DEF L!Cardinality
<1> QED BY <1>1 DEF L!Above, L!Sorted, L!Newest

\* An older row has more rows above it.
LEMMA AboveFalls ==
  ASSUME NEW S \in SUBSET Nat, IsFiniteSet(S), NEW r \in S
  PROVE  /\ L!Above(S, r) \in Nat /\ L!Above(S, r) < Cardinality(S) /\ Cardinality(S) \in Nat
         /\ \A s \in S : r < s => L!Above(S, s) < L!Above(S, r)
<1> DEFINE Up(t) == {s \in S : s > t}
<1>1. \A T \in SUBSET S : IsFiniteSet(T) /\ Cardinality(T) \in Nat
  BY FS_Subset, FS_CardinalityType
<1>2. \A T \in SUBSET S : \A U \in SUBSET T : U # T => Cardinality(U) < Cardinality(T)
  <2> SUFFICES ASSUME NEW T \in SUBSET S, NEW U \in SUBSET T, U # T
      PROVE Cardinality(U) < Cardinality(T) OBVIOUS
  <2>1. Cardinality(U) <= Cardinality(T) /\ Cardinality(U) # Cardinality(T) BY <1>1, FS_Subset
  <2> QED BY <2>1, <1>1
<1>3. \A t : L!Above(S, t) = Cardinality(Up(t)) BY RowCounts
<1>4. Up(r) \in SUBSET S /\ Up(r) # S OBVIOUS
<1>5. ASSUME NEW s \in S, r < s PROVE Up(s) \in SUBSET Up(r) /\ Up(s) # Up(r)
  <2>1. s \in Up(r) /\ s \notin Up(s) BY <1>5
  <2>2. ASSUME NEW x \in Up(s) PROVE x \in Up(r)
    <3>1. x \in Nat /\ s \in Nat /\ r \in Nat /\ x > s /\ x \in S OBVIOUS
    <3> QED BY <3>1, <1>5
  <2> QED BY <2>1, <2>2
<1> HIDE DEF Up
<1>6. L!Above(S, r) \in Nat /\ L!Above(S, r) < Cardinality(S) /\ Cardinality(S) \in Nat
  BY <1>1, <1>2, <1>3, <1>4
<1>7. \A s \in S : r < s => L!Above(S, s) < L!Above(S, r) BY <1>2, <1>3, <1>4, <1>5
<1> QED BY <1>6, <1>7

\* Every place is taken.
LEMMA PlacesTaken ==
  ASSUME NEW S \in SUBSET Nat, IsFiniteSet(S), NEW n \in Nat, n < Cardinality(S)
  PROVE  \E r \in S : L!Above(S, r) = n
<1> DEFINE N == Cardinality(S)
           f == [r \in S |-> L!Above(S, r)]
<1>1. N \in Nat BY FS_CardinalityType
<1>2. \A r \in S : L!Above(S, r) \in 0 .. N - 1 BY <1>1, AboveFalls
<1>3. f \in [S -> 0 .. N - 1] BY <1>2
<1>4. \A r, s \in S : f[r] = f[s] => r = s
  <2> SUFFICES ASSUME NEW r \in S, NEW s \in S, f[r] = f[s], r # s PROVE FALSE OBVIOUS
  <2>1. r < s \/ s < r OBVIOUS
  <2>2. f[s] < f[r] \/ f[r] < f[s] BY <2>1, AboveFalls
  <2> QED BY <2>2, <1>2
<1>5. f \in Injection(S, 0 .. N - 1) BY <1>3, <1>4 DEF Injection, IsInjective
<1>6. IsFiniteSet(0 .. N - 1) /\ Cardinality(0 .. N - 1) = N
  <2>1. 0 \in Int /\ N - 1 \in Int BY <1>1
  <2>2. N = IF 0 > N - 1 THEN 0 ELSE N - 1 - 0 + 1 BY <1>1
  <2> HIDE DEF N
  <2> QED BY <2>1, <2>2, FS_Interval
<1>7. f \in Surjection(S, 0 .. N - 1) BY <1>5, <1>6, FS_Injection
<1>8. n \in 0 .. N - 1 BY <1>1
<1> HIDE DEF f
<1>9. \E r \in S : f[r] = n BY <1>7, <1>8 DEF Surjection
<1> QED BY <1>9 DEF f

\* The rows in the order of a list: all of them, the newest first.
LEMMA SortedFields ==
  ASSUME NEW S \in SUBSET Nat, IsFiniteSet(S)
  PROVE  /\ L!Sorted(S) \in Seq(S) /\ Len(L!Sorted(S)) = Cardinality(S)
         /\ DOMAIN L!Sorted(S) = 1..Cardinality(S)
         /\ \A i, j \in DOMAIN L!Sorted(S) : i < j => L!Sorted(S)[i] > L!Sorted(S)[j]
         /\ \A r \in S : \E i \in DOMAIN L!Sorted(S) : L!Sorted(S)[i] = r
<1> DEFINE N == Cardinality(S)
           q == L!Sorted(S)
<1>1. N \in Nat BY FS_CardinalityType
<1>a. \A r \in S : r \in Nat /\ L!Above(S, r) \in Nat /\ L!Above(S, r) < N BY AboveFalls
<1>b. \A r, s \in S : r < s => L!Above(S, s) < L!Above(S, r) BY AboveFalls
<1>2. q = [i \in 1..N |-> CHOOSE r \in S : L!Above(S, r) = i - 1] BY RowCounts
<1>3. \A i \in 1..N : q[i] \in S /\ L!Above(S, q[i]) = i - 1
  <2> SUFFICES ASSUME NEW i \in 1..N PROVE q[i] \in S /\ L!Above(S, q[i]) = i - 1 OBVIOUS
  <2>1. i - 1 \in Nat /\ i - 1 < N BY <1>1
  <2>2. \E r \in S : L!Above(S, r) = i - 1 BY <2>1, PlacesTaken
  <2>3. q[i] = CHOOSE r \in S : L!Above(S, r) = i - 1 BY <1>2
  <2> QED BY <2>2, <2>3
<1>4. DOMAIN q = 1..N BY <1>2
<1> HIDE DEF q
<1>5. q \in Seq(S) /\ Len(q) = N
  <2>1. q \in [1..N -> S] BY <1>2, <1>3, <1>4
  <2> QED BY <1>1, <2>1
<1>6. ASSUME NEW i \in 1..N, NEW j \in 1..N, i < j PROVE q[i] > q[j]
  <2>1. q[i] \in S /\ q[j] \in S /\ L!Above(S, q[i]) < L!Above(S, q[j]) BY <1>1, <1>3, <1>6
  <2>2. L!Above(S, q[i]) \in Nat /\ L!Above(S, q[j]) \in Nat BY <2>1, <1>a
  <2>3. q[i] # q[j] BY <2>1, <2>2
  <2>4. q[i] \in Nat /\ q[j] \in Nat BY <2>1, <1>a
  <2>5. ASSUME q[i] < q[j] PROVE FALSE
    <3>1. L!Above(S, q[j]) < L!Above(S, q[i]) BY <2>1, <2>5, <1>b
    <3> QED BY <3>1, <2>1, <2>2
  <2> QED BY <2>3, <2>4, <2>5
<1>7. ASSUME NEW r \in S PROVE \E i \in 1..N : q[i] = r
  <2>1. L!Above(S, r) \in Nat /\ L!Above(S, r) < N BY <1>a
  <2> DEFINE i == L!Above(S, r) + 1
  <2>2. i \in 1..N BY <1>1, <2>1
  <2>3. q[i] \in S /\ L!Above(S, q[i]) = L!Above(S, r) BY <1>3, <2>1, <2>2
  <2>4. q[i] \in Nat /\ r \in Nat BY <2>3, <1>a
  <2> DEFINE k == q[i]
  <2> HIDE DEF i, k
  <2>5. k \in S /\ k \in Nat /\ L!Above(S, k) = L!Above(S, r) BY <2>3, <2>4 DEF k
  <2>6. ~(k < r) /\ ~(r < k) BY <2>1, <2>5, <1>b
  <2>7. q[i] = r BY <2>4, <2>5, <2>6 DEF k
  <2> QED BY <2>2, <2>7
<1> QED BY <1>4, <1>5, <1>6, <1>7 DEF q

\* The newest n rows: n of them, if there are so many, and newer than the rest.
LEMMA NewestFields ==
  ASSUME NEW S \in SUBSET Nat, IsFiniteSet(S), NEW n \in Nat
  PROVE  /\ L!Newest(n, S) \subseteq S /\ IsFiniteSet(L!Newest(n, S))
         /\ \A s \in L!Newest(n, S), r \in S \ L!Newest(n, S) : r < s
         /\ n > 0 /\ S # {} => L!Newest(n, S) # {}
         /\ S # L!Newest(n, S) => Cardinality(L!Newest(n, S)) >= n
<1> DEFINE T == L!Newest(n, S)
           N == Cardinality(S)
<1>1. T = {r \in S : L!Above(S, r) < n} BY RowCounts
<1>2. T \subseteq S /\ IsFiniteSet(T) BY <1>1, FS_Subset
<1>3. ASSUME NEW s \in T, NEW r \in S \ T PROVE r < s
  <2>1. L!Above(S, s) < n /\ ~(L!Above(S, r) < n) /\ s \in S BY <1>1
  <2>2. L!Above(S, s) \in Nat /\ L!Above(S, r) \in Nat BY <2>1, AboveFalls
  <2>3. ~(s < r) BY <2>1, <2>2, AboveFalls
  <2> QED BY <2>1, <2>3
<1>4. ASSUME n > 0, S # {} PROVE T # {}
  <2>1. N \in Nat /\ N > 0 BY <1>4, FS_EmptySet, FS_CardinalityType
  <2>2. \E r \in S : L!Above(S, r) = 0 BY <2>1, PlacesTaken
  <2> QED BY <2>2, <1>1, <1>4
<1>5. ASSUME S # T PROVE Cardinality(T) >= n
  <2>1. PICK r \in S : ~(L!Above(S, r) < n) BY <1>1, <1>5
  <2>2. L!Above(S, r) < N /\ L!Above(S, r) \in Nat /\ N \in Nat BY AboveFalls
  <2>3. \A k \in 0 .. n - 1 : \E s \in S : L!Above(S, s) = k
    <3>1. \A k \in 0 .. n - 1 : k \in Nat /\ k < N BY <2>1, <2>2
    <3> QED BY <3>1, PlacesTaken
  <2> DEFINE f == [s \in T |-> L!Above(S, s)]
  <2>4. f \in [T -> 0 .. n - 1]
    <3>1. \A s \in S : L!Above(S, s) \in Nat BY AboveFalls
    <3>2. ASSUME NEW s \in T PROVE L!Above(S, s) \in 0 .. n - 1
      <4>1. s \in S /\ L!Above(S, s) < n BY <1>1
      <4>2. L!Above(S, s) \in Nat BY <3>1, <4>1
      <4> QED BY <4>1, <4>2
    <3> QED BY <3>2
  <2>5. \A k \in 0 .. n - 1 : \E s \in T : f[s] = k BY <2>3, <1>1
  <2>6. f \in Surjection(T, 0 .. n - 1) BY <2>4, <2>5 DEF Surjection
  <2>7. Cardinality(0 .. n - 1) <= Cardinality(T) BY <1>2, <2>6, FS_Surjection
  <2>8. Cardinality(0 .. n - 1) = n BY FS_Interval
  <2>9. Cardinality(T) \in Nat BY <1>2, FS_CardinalityType
  <2> QED BY <2>7, <2>8, <2>9
<1> QED BY <1>2, <1>3, <1>4, <1>5

\* What each table gives: rows of the page's owner before its time, at least the newest of
\* each table, and of a table that has more, enough for a page.
LEMMA CandidateFields ==
  ASSUME L!HistoryConstants, rows \subseteq Rows, IsFiniteSet(rows), NEW o, NEW b
  PROVE  /\ L!Before(o, b) \in SUBSET Nat /\ IsFiniteSet(L!Before(o, b))
         /\ L!Candidates(o, b) \subseteq L!Before(o, b)
         /\ L!Before(o, b) # {} => L!Candidates(o, b) # {}
         /\ \A r \in L!Before(o, b) \ L!Candidates(o, b) :
              \E C \in SUBSET L!Candidates(o, b) :
                Cardinality(C) >= Limit /\ \A s \in C : r < s
<1> DEFINE B == L!Before(o, b)
           C == L!Candidates(o, b)
           In(t) == {r \in B : Table[r] = t}
           Few(t) == L!Newest(Limit, In(t))
<1>1. rows \subseteq Nat /\ Limit \in Nat /\ Limit > 0 BY DEF L!HistoryConstants
<1>2. B \subseteq rows BY DEF L!Before
<1>3. B \in SUBSET Nat /\ IsFiniteSet(B) BY <1>1, <1>2, FS_Subset
<1> HIDE DEF B
<1>4. \A t : In(t) \in SUBSET Nat /\ IsFiniteSet(In(t)) BY <1>3, FS_Subset
<1>5. C = UNION {Few(t) : t \in {Table[r] : r \in Rows}} BY DEF L!Candidates, B
<1> HIDE DEF C
<1>6. \A t : Few(t) \subseteq In(t) BY <1>1, <1>4, NewestFields
<1>7. C \subseteq B BY <1>5, <1>6
<1>8. ASSUME NEW r \in B PROVE Few(Table[r]) \in SUBSET C /\ r \in In(Table[r])
  <2>1. r \in Rows BY <1>2
  <2>2. Few(Table[r]) \in {Few(t) : t \in {Table[s] : s \in Rows}} BY <2>1
  <2> HIDE DEF Few
  <2> QED BY <2>2, <1>5
<1>9. ASSUME B # {} PROVE C # {}
  <2>1. PICK r \in B : TRUE BY <1>9
  <2>2. Few(Table[r]) # {}
    <3> DEFINE T == In(Table[r])
    <3>1. T \in SUBSET Nat /\ IsFiniteSet(T) /\ T # {} BY <1>4, <1>8
    <3> HIDE DEF T
    <3>2. L!Newest(Limit, T) # {} BY <3>1, <1>1, NewestFields
    <3> QED BY <3>2 DEF T
  <2> QED BY <2>2, <1>8
<1>10. ASSUME NEW r \in B \ C
       PROVE \E D \in SUBSET C : Cardinality(D) >= Limit /\ \A s \in D : r < s
  <2> DEFINE D == Few(Table[r])
             T == In(Table[r])
  <2>1. D \in SUBSET C /\ r \in T \ D BY <1>8, <1>10
  <2>2. T \in SUBSET Nat /\ IsFiniteSet(T) /\ D = L!Newest(Limit, T) BY <1>4
  <2> HIDE DEF D, T
  <2>3. Cardinality(D) >= Limit /\ \A s \in D : r < s BY <2>1, <2>2, <1>1, NewestFields
  <2> QED BY <2>1, <2>3
<1> QED BY <1>3, <1>7, <1>9, <1>10 DEF B, C

\* The page: what belongs on it and is not on it is older than all of it. (A table's newest
\* rows that fill a page leave no room for an older candidate.)
LEMMA NewestOfAll ==
  ASSUME L!HistoryConstants, rows \subseteq Rows, IsFiniteSet(rows), NEW o, NEW b
  PROVE  \A s \in L!Newest(Limit, L!Candidates(o, b)),
            r \in L!Before(o, b) \ L!Newest(Limit, L!Candidates(o, b)) : r < s
<1> DEFINE B == L!Before(o, b)
           C == L!Candidates(o, b)
           N == L!Newest(Limit, C)
<1> SUFFICES ASSUME NEW s \in N, NEW r \in B \ N PROVE r < s OBVIOUS
<1>1. Limit \in Nat BY DEF L!HistoryConstants
<1>2. B \in SUBSET Nat /\ IsFiniteSet(B) /\ C \subseteq B BY CandidateFields
<1>3. C \in SUBSET Nat /\ IsFiniteSet(C) BY <1>2, FS_Subset
<1>4. N \subseteq C /\ \A t \in N, q \in C \ N : q < t BY <1>1, <1>3, NewestFields
<1>5. CASE r \in C BY <1>5, <1>4
<1>6. CASE r \notin C
  <2>1. PICK D \in SUBSET C : Cardinality(D) >= Limit /\ \A t \in D : r < t
    BY <1>6, CandidateFields
  <2>2. s \in C /\ r \in B /\ s \in Nat /\ r \in Nat /\ r # s BY <1>2, <1>4
  <2>3. L!Above(C, s) < Limit BY RowCounts
  <2>4. ASSUME s < r PROVE FALSE
    <3> DEFINE U == {t \in C : t > s}
    <3>1. \A t \in D : t \in Nat /\ r < t BY <2>1, <1>3
    <3>2. D \subseteq U BY <3>1, <2>1, <2>2, <2>4
    <3>3. U \subseteq C /\ L!Above(C, s) = Cardinality(U) BY RowCounts
    <3> HIDE DEF U
    <3>4. IsFiniteSet(U) BY <3>3, <1>3, FS_Subset
    <3>5. Cardinality(D) <= Cardinality(U) /\ IsFiniteSet(D) BY <3>2, <3>4, FS_Subset
    <3>6. Cardinality(D) \in Nat /\ Cardinality(U) \in Nat BY <3>4, <3>5, FS_CardinalityType
    <3> QED BY <2>1, <2>3, <3>3, <3>5, <3>6, <1>1
  <2> QED BY <2>2, <2>4
<1> QED BY <1>5, <1>6

\* Merging what each table gives of its newest rows loses nothing: the page is the one that a
\* single query over all the tables would give.
LEMMA OneQuery ==
  ASSUME L!HistoryConstants, rows \subseteq Rows, IsFiniteSet(rows), NEW o, NEW b
  PROVE  L!Newest(Limit, L!Candidates(o, b)) = L!Newest(Limit, L!Before(o, b))
<1> DEFINE B == L!Before(o, b)
           C == L!Candidates(o, b)
           N == L!Newest(Limit, C)
           M == L!Newest(Limit, B)
<1>1. Limit \in Nat BY DEF L!HistoryConstants
<1>2. B \in SUBSET Nat /\ IsFiniteSet(B) /\ C \subseteq B BY CandidateFields
<1>3. C \in SUBSET Nat /\ IsFiniteSet(C) BY <1>2, FS_Subset
<1>4. N = {r \in C : L!Above(C, r) < Limit} /\ M = {r \in B : L!Above(B, r) < Limit} BY RowCounts
<1>5. \A s \in N, r \in B \ N : r < s BY NewestOfAll
<1>6. \A r : r \notin C /\ r \in B => \E D \in SUBSET C : Cardinality(D) >= Limit /\ \A s \in D : r < s
  BY CandidateFields
<1>7. \A S, r : L!Above(S, r) = Cardinality({s \in S : s > r}) BY RowCounts
<1> HIDE DEF B, C, N, M
<1>8. ASSUME NEW s \in N PROVE s \in M
  <2>1. {t \in B : t > s} = {t \in C : t > s}
    <3>1. s \in Nat /\ N \subseteq C BY <1>3, <1>4
    <3>2. ASSUME NEW t \in B, t > s PROVE t \in C
      <4>1. t \in Nat BY <1>2
      <4>2. t \in N BY <3>1, <3>2, <4>1, <1>5
      <4> QED BY <4>2, <3>1
    <3> QED BY <3>2, <1>2
  <2>2. L!Above(B, s) = L!Above(C, s) BY <2>1, <1>7
  <2> QED BY <2>2, <1>2, <1>4
<1>9. ASSUME NEW r \in M PROVE r \in N
  <2> DEFINE U == {t \in B : t > r}
             V == {t \in C : t > r}
  <2>1. r \in B /\ Cardinality(U) < Limit
    <3>1. r \in B /\ L!Above(B, r) < Limit BY <1>4
    <3> QED BY <3>1, <1>7
  <2>2. IsFiniteSet(U) /\ Cardinality(U) \in Nat BY <1>2, FS_Subset, FS_CardinalityType
  <2>3. r \in C
    <3> SUFFICES ASSUME r \notin C PROVE FALSE OBVIOUS
    <3>1. PICK D \in SUBSET C : Cardinality(D) >= Limit /\ \A s \in D : r < s BY <1>6, <2>1
    <3>2. D \subseteq U BY <3>1, <1>2, <2>1
    <3> HIDE DEF U
    <3>3. Cardinality(D) <= Cardinality(U) /\ IsFiniteSet(D) BY <3>2, <2>2, FS_Subset
    <3>4. Cardinality(D) \in Nat BY <3>3, FS_CardinalityType
    <3> QED BY <3>1, <3>3, <3>4, <2>1, <2>2, <1>1
  <2>4. V \subseteq U BY <1>2
  <2>5. Cardinality(V) < Limit
    <3> HIDE DEF U, V
    <3>1. Cardinality(V) <= Cardinality(U) /\ IsFiniteSet(V) BY <2>4, <2>2, FS_Subset
    <3>2. Cardinality(V) \in Nat BY <3>1, FS_CardinalityType
    <3> QED BY <3>1, <3>2, <2>1, <2>2, <1>1
  <2> QED BY <2>3, <2>5, <1>4, <1>7
<1> QED BY <1>8, <1>9 DEF B, C, N, M

LEMMA PageServed ==
  ASSUME L!HistoryConstants, rows \subseteq Rows, IsFiniteSet(rows), NEW o, NEW b,
         NEW p, p = L!Page(o, b)
  PROVE  /\ p \in Seq(Rows) /\ L!Cursor(o, b) \in Nat
         /\ \A i \in DOMAIN p : p[i] \in rows /\ Eligible(p[i], o, b)
         /\ \A i, j \in DOMAIN p : i < j => p[i] > p[j]
         /\ p # <<>> => L!Cursor(o, b) = Time[p[Len(p)]]
         /\ \A r \in rows : Eligible(r, o, b) =>
              p # <<>> /\ (r > p[Len(p)] => \E i \in DOMAIN p : p[i] = r)
<1> DEFINE B == L!Before(o, b)
           C == L!Candidates(o, b)
           N == L!Newest(Limit, C)
<1>1. Limit \in Nat /\ Limit > 0 BY DEF L!HistoryConstants
<1>2. B \in SUBSET Nat /\ IsFiniteSet(B) /\ C \subseteq B /\ (B # {} => C # {}) BY CandidateFields
<1>3. C \in SUBSET Nat /\ IsFiniteSet(C) BY <1>2, FS_Subset
<1>4. N \subseteq C /\ IsFiniteSet(N) /\ (C # {} => N # {}) BY <1>1, <1>3, NewestFields
<1>5. \A s \in N, r \in B \ N : r < s BY NewestOfAll
<1>6. B = {r \in rows : Eligible(r, o, b)} BY DEF L!Before, Eligible
<1>7. p = L!Sorted(N) BY DEF L!Page
<1>c. L!Cursor(o, b) = IF C = {} THEN 0 ELSE Time[p[Len(p)]] BY DEF L!Cursor, L!Last
<1> HIDE DEF B, C, N
<1>8. N \in SUBSET Nat BY <1>3, <1>4
<1>9. /\ p \in Seq(N) /\ Len(p) = Cardinality(N) /\ DOMAIN p = 1..Cardinality(N)
      /\ \A i, j \in DOMAIN p : i < j => p[i] > p[j]
      /\ \A r \in N : \E i \in DOMAIN p : p[i] = r
  BY <1>4, <1>7, <1>8, SortedFields
<1>10. N \subseteq Rows BY <1>2, <1>4, <1>6
<1>11. \A i \in DOMAIN p : p[i] \in N BY <1>9
<1>12. p = <<>> <=> N = {}
  <2>1. N = {} => p = <<>> BY <1>9, FS_EmptySet
  <2>2. p = <<>> => N = {} BY <1>9
  <2> QED BY <2>1, <2>2
<1>13. p # <<>> => Len(p) \in DOMAIN p BY <1>9
<1>14. p \in Seq(Rows) BY <1>9, <1>10
<1>15. L!Cursor(o, b) \in Nat
  <2>1. \A r \in Rows : Time[r] \in Nat BY DEF L!HistoryConstants
  <2> QED BY <2>1, <1>c, <1>4, <1>10, <1>11, <1>12, <1>13
<1>16. \A i \in DOMAIN p : p[i] \in rows /\ Eligible(p[i], o, b) BY <1>2, <1>4, <1>6, <1>11
<1>17. p # <<>> => L!Cursor(o, b) = Time[p[Len(p)]] BY <1>c, <1>4, <1>12
<1>18. ASSUME NEW r \in rows, Eligible(r, o, b)
       PROVE p # <<>> /\ (r > p[Len(p)] => \E i \in DOMAIN p : p[i] = r)
  <2>1. r \in B /\ r \in Nat BY <1>2, <1>6, <1>18
  <2>2. p # <<>> BY <2>1, <1>2, <1>4, <1>12
  <2>3. p[Len(p)] \in N /\ p[Len(p)] \in Nat BY <2>2, <1>8, <1>11, <1>13
  <2>4. r > p[Len(p)] => r \in N BY <2>1, <2>3, <1>5
  <2> QED BY <2>2, <2>4, <1>9
<1> QED BY <1>9, <1>14, <1>15, <1>16, <1>17, <1>18

-------------------------------------------------------------------------------
LEMMA LoadFields ==
  ASSUME L!HistoryConstants
  PROVE  /\ L!NoCall \in LoadType /\ L!NoCall.answer = "none"
         /\ \A o \in Owners, b \in Nat :
              /\ L!Load(o, b) \in LoadType /\ L!Load(o, b).answer = "none"
              /\ L!Load(o, b).owner = o /\ L!Load(o, b).before = b /\ L!Load(o, b) # L!NoCall
<1>1. <<>> \in Seq(Rows) OBVIOUS
<1>2. L!NoCall = [owner |-> None, before |-> 0, answer |-> "none", page |-> <<>>, next |-> 0]
  BY DEF L!NoCall
<1>3. L!NoCall \in LoadType /\ L!NoCall.answer = "none" BY <1>1, <1>2 DEF LoadType
<1>4. ASSUME NEW o \in Owners, NEW b \in Nat
      PROVE  /\ L!Load(o, b) \in LoadType /\ L!Load(o, b).answer = "none"
             /\ L!Load(o, b).owner = o /\ L!Load(o, b).before = b /\ L!Load(o, b) # L!NoCall
  <2>1. L!Load(o, b) \in LoadType BY <1>1 DEF L!Load, L!NoCall, LoadType
  <2>2. /\ L!Load(o, b).answer = "none" /\ L!Load(o, b).owner = o /\ L!Load(o, b).before = b
        /\ L!NoCall.owner = None
    BY DEF L!Load, L!NoCall
  <2>3. o # None BY DEF L!HistoryConstants
  <2> QED BY <2>1, <2>2, <2>3
<1> QED BY <1>3, <1>4

\* The facts about the rows that the proofs use.
LEMMA RowFacts ==
  ASSUME L!HistoryConstants
  PROVE  /\ Rows \subseteq Nat
         /\ \A r \in Rows : Time[r] \in Nat /\ Time[r] > 0 /\ Day[r] \in Nat /\ Day[r] > 0
         /\ \A r, s \in Rows : Time[r] < Time[s] => r < s
<1>1. Rows \subseteq Nat BY DEF L!HistoryConstants
<1>2. \A r \in Rows : Time[r] \in Nat /\ Time[r] > 0 /\ Day[r] \in Nat /\ Day[r] > 0
  BY DEF L!HistoryConstants
<1>3. ASSUME NEW r \in Rows, NEW s \in Rows, Time[r] < Time[s] PROVE r < s
  <2>1. s < r => Time[s] <= Time[r] BY DEF L!HistoryConstants
  <2>2. s # r BY <1>2, <1>3
  <2> QED BY <2>1, <2>2, <1>1, <1>2, <1>3
<1> QED BY <1>1, <1>2, <1>3

LEMMA ListInit == L!HistoryConstants /\ L!Init => ListInv
<1> SUFFICES ASSUME L!HistoryConstants, L!Init PROVE ListInv OBVIOUS
<1>1. call \in LoadType /\ call # L!NoCall /\ call.answer = "none" /\ call.owner = owner
      /\ call.before = 0 /\ owner \in Owners
  BY LoadFields DEF L!Init
<1>2. box = <<>> /\ DOMAIN box = {} BY DEF L!Init
<1>f. IsFiniteSet(First) BY DEF L!HistoryConstants, L!IsFiniteSet, IsFiniteSet
<1>3. ListFits
  <2>1. <<>> \in Seq(PageRow) OBVIOUS
  <2>2. L!TypeOK BY <1>1, <1>2, <2>1 DEF PageRow, L!TypeOK, L!Init, L!HistoryConstants
  <2> QED BY <1>1, <1>f, <2>2 DEF ListFits, L!Init, L!HistoryConstants
<1>4. ListPlace BY <1>1, <1>2 DEF ListPlace, L!Init
<1>5. ReadsInOrder /\ OwnRows /\ NothingLeftOut
  BY <1>2 DEF ReadsInOrder, OwnRows, NothingLeftOut, L!ReadsInOrder, L!OwnRows, L!NothingLeftOut
<1> QED BY <1>1, <1>3, <1>4, <1>5 DEF ListInv

\* A step that leaves the list and the tables alone keeps what the list shows.
LEMMA ListKept ==
  ASSUME UNCHANGED <<kind, owner, L!list, rows>>, calm' => calm
  PROVE  /\ ReadsInOrder => ReadsInOrder'
         /\ OwnRows => OwnRows'
         /\ NothingLeftOut => NothingLeftOut'
BY DEF L!list, ReadsInOrder, OwnRows, NothingLeftOut, L!ReadsInOrder, L!OwnRows, L!NothingLeftOut,
       L!Last

LEMMA DrawStep ==
  ASSUME L!HistoryConstants, ListInv, NEW o \in Owners, L!Draw(o)
  PROVE  ListInv'
<1>1. box' = <<>> /\ DOMAIN box' = {} BY DEF L!Draw, L!Redraw
<1>2. /\ cursor' = 0 /\ more' = TRUE /\ last' = 0 /\ owner' = o /\ loading' = TRUE
      /\ calm' = ~loading /\ UNCHANGED <<kind, rows>>
      /\ call' = IF loading THEN call ELSE L!Load(o, 0)
  BY DEF L!Draw, L!Redraw
<1>3. ReadsInOrder' /\ OwnRows' /\ NothingLeftOut'
  BY <1>1 DEF ReadsInOrder, OwnRows, NothingLeftOut, L!ReadsInOrder, L!OwnRows, L!NothingLeftOut
<1>4. CASE loading
  <2>1. call' = call /\ calm' = FALSE BY <1>2, <1>4 DEF ListInv, ListFits, L!TypeOK
  <2>b. <<>> \in Seq(PageRow) OBVIOUS
  <2>2. ListFits' BY <1>1, <1>2, <1>4, <2>1, <2>b DEF PageRow, ListInv, ListFits, L!TypeOK
  <2>3. ListPlace' BY <1>1, <1>2, <1>4, <2>1 DEF ListInv, ListPlace
  <2>4. (call.answer = "ok" => PageFits(call))' BY <1>2, <2>1 DEF ListInv, PageFits, Eligible
  <2> QED BY <1>3, <2>2, <2>3, <2>4 DEF ListInv
<1>5. CASE ~loading
  <2>1. /\ call' \in LoadType /\ call' # L!NoCall /\ call'.answer = "none" /\ call'.owner = o
        /\ call'.before = 0
    BY <1>2, <1>5, LoadFields
  <2>b. <<>> \in Seq(PageRow) OBVIOUS
  <2>2. ListFits' BY <1>1, <1>2, <2>1, <2>b DEF PageRow, ListInv, ListFits, L!TypeOK
  <2>3. ListPlace' BY <1>1, <1>2, <2>1 DEF ListPlace
  <2> QED BY <1>3, <2>1, <2>2, <2>3 DEF ListInv
<1> QED BY <1>4, <1>5

LEMMA ScrollStep ==
  ASSUME L!HistoryConstants, ListInv, L!Scroll
  PROVE  ListInv'
<1>1. /\ more /\ ~loading /\ box # <<>> /\ loading' = TRUE /\ call' = L!Load(owner, cursor)
      /\ UNCHANGED <<kind, owner, box, cursor, more, last, rows, calm>>
  BY DEF L!Scroll, L!ReadOn, L!list
<1>2. owner \in Owners /\ cursor \in Nat BY DEF ListInv, ListFits, L!TypeOK
<1>3. /\ call' \in LoadType /\ call' # L!NoCall /\ call'.answer = "none" /\ call'.owner = owner
      /\ call'.before = cursor
  BY <1>1, <1>2, LoadFields
<1>4. ListFits' BY <1>1, <1>2, <1>3 DEF ListInv, ListFits, L!TypeOK
<1>5. \E s \in rows : Time[s] = cursor
  <2>1. Len(box) \in DOMAIN box BY <1>1 DEF ListInv, ListFits, L!TypeOK
  <2> QED BY <1>1, <2>1 DEF ListInv, ListPlace
<1>6. ListPlace' BY <1>1, <1>3, <1>5 DEF ListInv, ListPlace
<1>7. ReadsInOrder' /\ OwnRows' /\ NothingLeftOut' BY <1>1, ListKept DEF ListInv, L!list
<1> QED BY <1>3, <1>4, <1>6, <1>7 DEF ListInv

\* The server's step, or the network's.
LEMMA AnswerStep ==
  ASSUME L!HistoryConstants, ListInv, L!Serve \/ L!Lose
  PROVE  ListInv'
<1>1. /\ loading /\ UNCHANGED <<kind, owner, box, cursor, more, last, loading, rows, calm>>
      /\ L!list' = L!list
  BY DEF ListInv, ListFits, L!TypeOK, L!Serve, L!Lose, L!list
<1>2. call \in LoadType /\ call # L!NoCall /\ call.owner \in Owners /\ call.before \in Nat
  BY <1>1 DEF ListInv, ListFits, L!TypeOK, LoadType
<1>3. rows \subseteq Rows /\ IsFiniteSet(rows) BY DEF ListInv, ListFits, L!TypeOK
<1>4. /\ call' \in LoadType /\ call'.owner = call.owner /\ call'.before = call.before
      /\ call'.answer = "ok" => PageFits(call')
  <2>1. CASE L!Serve
    <3> DEFINE p == L!Page(call.owner, call.before)
               n == L!Cursor(call.owner, call.before)
    <3>1. /\ p \in Seq(Rows) /\ n \in Nat
          /\ \A i \in DOMAIN p : p[i] \in rows /\ Eligible(p[i], call.owner, call.before)
          /\ \A i, j \in DOMAIN p : i < j => p[i] > p[j]
          /\ p # <<>> => n = Time[p[Len(p)]]
          /\ \A r \in rows : Eligible(r, call.owner, call.before) =>
               p # <<>> /\ (r > p[Len(p)] => \E i \in DOMAIN p : p[i] = r)
      BY <1>3, PageServed
    <3>2. call' = [call EXCEPT !.answer = "ok", !.page = p, !.next = n] BY <2>1 DEF L!Serve
    <3> HIDE DEF p, n
    <3>3. /\ call' \in LoadType /\ call'.owner = call.owner /\ call'.before = call.before
          /\ call'.page = p /\ call'.next = n
      BY <1>2, <3>1, <3>2 DEF LoadType
    <3>4. PageFits(call') BY <3>1, <3>3 DEF PageFits
    <3> QED BY <3>3, <3>4
  <2>2. CASE L!Lose
    <3>1. call' = [call EXCEPT !.answer = "lost", !.page = <<>>, !.next = 0] BY <2>2 DEF L!Lose
    <3>2. <<>> \in Seq(Rows) OBVIOUS
    <3>3. call' \in LoadType /\ call'.owner = call.owner /\ call'.before = call.before
      BY <1>2, <3>1, <3>2 DEF LoadType
    <3>4. call'.answer = "lost" BY <1>2, <3>1 DEF LoadType
    <3> QED BY <3>3, <3>4
  <2> QED BY <2>1, <2>2
<1>5. call' # L!NoCall /\ (call'.answer = "ok" => PageFits(call)')
  <2>1. call' # L!NoCall BY <1>2, <1>4 DEF L!NoCall, L!HistoryConstants
  <2>2. call'.answer = "ok" => PageFits(call)' BY <1>1, <1>4 DEF PageFits, Eligible
  <2> QED BY <2>1, <2>2
<1>6. ListFits' BY <1>1, <1>2, <1>4, <1>5 DEF ListInv, ListFits, L!TypeOK
<1>7. ListPlace' BY <1>1, <1>4 DEF ListInv, ListPlace
<1>8. ReadsInOrder' /\ OwnRows' /\ NothingLeftOut' BY <1>1, ListKept DEF ListInv
<1> QED BY <1>5, <1>6, <1>7, <1>8 DEF ListInv

\* What happens is later than all that has been read, and not on a page that ends at a time.
LEMMA HappenStep ==
  ASSUME L!HistoryConstants, ListInv, L!Happen
  PROVE  ListInv'
<1> DEFINE Coming == Rows \ rows
           n == CHOOSE r \in Coming : \A s \in Coming : r <= s
<1>1. /\ Coming # {} /\ rows' = rows \cup {n}
      /\ UNCHANGED <<kind, owner, box, cursor, more, last, loading, call, calm>>
  BY DEF L!Happen, L!list, ListInv, ListFits, L!TypeOK
<1>2. Rows \subseteq Nat BY RowFacts
<1>3. n \in Coming /\ \A s \in Coming : n <= s
  <2>1. Coming \subseteq Nat BY <1>2
  <2>2. \E r \in Coming : \A s \in Coming : r <= s BY <1>1, <2>1, LeastNat
  <2> QED BY <2>2
<1> HIDE DEF n
<1>4. \A r \in rows : r < n BY <1>3 DEF ListInv, ListFits
<1>5. rows \subseteq Nat /\ n \in Nat /\ n \in Rows BY <1>2, <1>3 DEF ListInv, ListFits, L!TypeOK
<1>6. ListFits'
  <2>1. IsFiniteSet(rows') BY <1>1, FS_AddElement DEF ListInv, ListFits
  <2>2. ASSUME NEW r \in rows', NEW s \in Rows \ rows' PROVE r < s
    <3>1. s \in Coming /\ n <= s /\ s # n /\ s \in Nat BY <1>1, <1>2, <1>3
    <3>2. CASE r = n BY <3>1, <3>2, <1>5
    <3>3. CASE r \in rows BY <3>1, <3>3 DEF ListInv, ListFits
    <3> QED BY <1>1, <3>2, <3>3
  <2> QED BY <1>1, <1>5, <2>1, <2>2 DEF ListInv, ListFits, L!TypeOK
<1>7. ListPlace' BY <1>1 DEF ListInv, ListPlace
<1>8. ASSUME call.answer = "ok" PROVE PageFits(call)'
  <2>1. loading /\ PageFits(call)
    <3>1. call # L!NoCall BY <1>8 DEF L!NoCall
    <3> QED BY <1>8, <3>1 DEF ListInv, ListFits, L!TypeOK
  <2>2. ASSUME call.before # 0 PROVE ~Eligible(n, call.owner, call.before)
    <3>1. PICK s \in rows : Time[s] = call.before BY <2>1, <2>2 DEF ListInv, ListPlace
    <3>2. s \in Rows /\ s < n BY <1>4 DEF ListInv, ListFits, L!TypeOK
    <3>3. Time[s] <= Time[n] BY <3>2, <1>5 DEF L!HistoryConstants
    <3> QED BY <3>1, <3>2, <3>3, <2>2, <1>5, RowFacts DEF Eligible
  <2>3. ASSUME call.page # <<>> PROVE ~(n < call.page[1])
    <3>1. 1 \in DOMAIN call.page
      BY <2>3 DEF ListInv, ListFits, LoadType
    <3>2. call.page[1] \in rows BY <2>1, <3>1 DEF PageFits
    <3>3. call.page[1] < n /\ call.page[1] \in Nat /\ n \in Nat BY <3>2, <1>4, <1>5
    <3>4. \A x \in Nat : x < n => ~(n < x) BY <1>5
    <3> QED BY <3>3, <3>4
  <2> QED BY <1>1, <2>1, <2>2, <2>3 DEF PageFits, Eligible
<1>9. ReadsInOrder' /\ OwnRows'
  BY <1>1 DEF ListInv, ReadsInOrder, OwnRows, L!ReadsInOrder, L!OwnRows
<1>10. NothingLeftOut'
  <2>1. ASSUME box # <<>> PROVE ~(box[1].row > n)
    <3>1. 1 \in DOMAIN box BY <2>1 DEF ListInv, ListFits, L!TypeOK
    <3>2. box[1].row \in rows BY <3>1 DEF ListInv, ListPlace
    <3>3. box[1].row < n /\ box[1].row \in Nat BY <3>2, <1>4, <1>5
    <3>4. \A x \in Nat : x < n => ~(x > n) BY <1>5
    <3> QED BY <3>3, <3>4
  <2> QED BY <1>1, <2>1 DEF ListInv, NothingLeftOut, L!NothingLeftOut, L!Last
<1> QED BY <1>1, <1>6, <1>7, <1>8, <1>9, <1>10 DEF ListInv

\* A list with a page behind it.
LEMMA Appended ==
  ASSUME call \in LoadType, box \in Seq(PageRow), box' = box \o L!Drawn(call.page)
  PROVE  /\ box' \in Seq(PageRow) /\ Len(box') = Len(box) + Len(call.page)
         /\ \A i \in 1..Len(box) : box'[i] = box[i]
         /\ \A i \in 1..Len(call.page) :
              /\ box'[Len(box) + i].row = call.page[i]
              /\ box'[Len(box) + i].dated =
                   (Day[call.page[i]] # IF i = 1 THEN last ELSE Day[call.page[i - 1]])
<1> DEFINE p == call.page
           d == L!Drawn(p)
           k == Len(p)
<1>1. p \in Seq(Rows) BY DEF LoadType
<1>2. d = [i \in DOMAIN p |->
            [row |-> p[i], dated |-> Day[p[i]] # IF i = 1 THEN last ELSE Day[p[i - 1]]]]
  BY DEF L!Drawn
<1> HIDE DEF d
<1>3. DOMAIN p = 1..k /\ k \in Nat /\ \A i \in 1..k : p[i] \in Rows BY <1>1
<1> HIDE DEF p, k
<1>4. \A i \in 1..k : d[i] \in PageRow BY <1>2, <1>3 DEF PageRow
<1>5. DOMAIN d = 1..k /\ d \in [1..k -> PageRow]
  <2>1. DOMAIN d = 1..k /\ d = [i \in 1..k |-> d[i]] BY <1>2, <1>3
  <2> QED BY <2>1, <1>4
<1>6. d \in Seq(PageRow) /\ Len(d) = k BY <1>3, <1>5
<1>7. box' = box \o d BY DEF d, p
<1>8. box' \in Seq(PageRow) BY <1>6, <1>7
<1>9. Len(box') = Len(box) + k
  <2>1. Len(box) \in Nat OBVIOUS
  <2>2. Len(box \o d) = Len(box) + Len(d) BY <1>6, ConcatProperties
  <2> QED BY <1>3, <1>6, <1>7, <2>1, <2>2
<1>10. \A i \in 1..Len(box) : box'[i] = box[i] BY <1>6, <1>7
<1>11. \A i \in 1..k : box'[Len(box) + i] = d[i] BY <1>3, <1>6, <1>7
<1>12. \A i \in 1..k : /\ d[i].row = p[i]
                        /\ d[i].dated = (Day[p[i]] # IF i = 1 THEN last ELSE Day[p[i - 1]])
  BY <1>2, <1>3
<1>13. \A i \in 1..k : /\ box'[Len(box) + i].row = p[i]
                        /\ box'[Len(box) + i].dated =
                             (Day[p[i]] # IF i = 1 THEN last ELSE Day[p[i - 1]])
  <2> TAKE i \in 1..k
  <2>1. box'[Len(box) + i] = d[i] BY <1>11
  <2>2. /\ d[i].row = p[i]
        /\ d[i].dated = (Day[p[i]] # IF i = 1 THEN last ELSE Day[p[i - 1]])
    BY <1>12
  <2> QED BY <2>1, <2>2
<1> USE DEF p, k
<1> QED BY <1>8, <1>9, <1>10, <1>13

\* What the member reads next is older than the last row of the list.
LEMMA PageBelow ==
  ASSUME L!HistoryConstants, ListInv, call.answer = "ok", box # <<>>
  PROVE  /\ call.before = Time[box[Len(box)].row] /\ call.before # 0
         /\ box[Len(box)].row \in rows /\ box[Len(box)].row \in Rows
         /\ \A i \in DOMAIN call.page : call.page[i] < box[Len(box)].row
<1>1. loading
  <2>1. call # L!NoCall BY DEF L!NoCall
  <2> QED BY <2>1 DEF ListInv, ListFits, L!TypeOK
<1>2. Len(box) \in DOMAIN box BY DEF ListInv, ListFits, L!TypeOK
<1>3. call.before = Time[box[Len(box)].row] BY <1>1 DEF ListInv, ListPlace
<1>4. box[Len(box)].row \in rows /\ box[Len(box)].row \in Rows
  BY <1>2 DEF ListInv, ListPlace, ListFits, L!TypeOK
<1>5. call.before # 0 BY <1>3, <1>4, RowFacts
<1>6. ASSUME NEW i \in DOMAIN call.page PROVE call.page[i] < box[Len(box)].row
  <2>1. call.page[i] \in rows /\ Time[call.page[i]] < call.before
    BY <1>5 DEF ListInv, PageFits, Eligible
  <2>2. call.page[i] \in Rows BY <2>1 DEF ListInv, ListFits, L!TypeOK
  <2> QED BY <2>1, <2>2, <1>3, <1>4, RowFacts
<1> QED BY <1>3, <1>4, <1>5, <1>6

\* A page goes into the list.
LEMMA AddStep ==
  ASSUME L!HistoryConstants, ListInv, call.answer = "ok", call.page # <<>>,
         kind = "kiosk" => call.owner = owner,
         box' = box \o L!Drawn(call.page), cursor' = call.next,
         last' = Day[L!Last(call.page)],
         UNCHANGED <<kind, owner, rows, more, calm>>
  PROVE  /\ box' \in Seq(PageRow) /\ cursor' \in Nat /\ last' \in Nat
         /\ box' # <<>> /\ cursor' = Time[box'[Len(box')].row]
         /\ last' = Day[box'[Len(box')].row] /\ \A i \in DOMAIN box' : box'[i].row \in rows
         /\ ReadsInOrder' /\ OwnRows' /\ NothingLeftOut'
<1> DEFINE m == Len(box)
           p == call.page
           k == Len(p)
<1>1. loading /\ more
  <2>1. call # L!NoCall BY DEF L!NoCall
  <2> QED BY <2>1 DEF ListInv, ListFits, L!TypeOK, ListPlace
<1>2. /\ box \in Seq(PageRow) /\ last \in Nat /\ call \in LoadType /\ p \in Seq(Rows)
      /\ rows \subseteq Rows
  BY DEF ListInv, ListFits, L!TypeOK, LoadType, PageRow
<1>3. /\ box' \in Seq(PageRow) /\ Len(box') = m + k
      /\ \A i \in 1..m : box'[i] = box[i]
      /\ \A i \in 1..k : /\ box'[m + i].row = p[i]
                         /\ box'[m + i].dated = (Day[p[i]] # IF i = 1 THEN last ELSE Day[p[i - 1]])
  BY <1>2, Appended
<1>4. /\ m \in Nat /\ k \in Nat /\ k > 0 /\ DOMAIN box = 1..m /\ DOMAIN p = 1..k
      /\ DOMAIN box' = 1..m + k
  BY <1>2, <1>3
<1>5. PageFits(call) BY DEF ListInv
<1>6. /\ \A i \in 1..k : p[i] \in rows /\ Eligible(p[i], call.owner, call.before)
      /\ \A i, j \in 1..k : i < j => p[i] > p[j]
      /\ call.next = Time[p[k]]
  BY <1>4, <1>5 DEF PageFits
<1>7. /\ \A i \in 1..m : box[i].row \in rows
      /\ \A i, j \in 1..m : i < j => box[i].row > box[j].row
      /\ \A i \in 1..m : box[i].dated = (i = 1 \/ Day[box[i].row] # Day[box[i - 1].row])
  BY <1>4 DEF ListInv, ListPlace, ReadsInOrder, L!ReadsInOrder
<1>8. m > 0 => /\ call.before = Time[box[m].row] /\ call.before # 0 /\ box[m].row \in rows
               /\ \A i \in 1..k : p[i] < box[m].row
  <2> SUFFICES ASSUME m > 0
               PROVE  /\ call.before = Time[box[m].row] /\ call.before # 0 /\ box[m].row \in rows
                      /\ \A i \in 1..k : p[i] < box[m].row
    OBVIOUS
  <2>1. box # <<>> OBVIOUS
  <2>2. /\ call.before = Time[box[m].row] /\ call.before # 0 /\ box[m].row \in rows
        /\ \A i \in DOMAIN p : p[i] < box[m].row
    BY <2>1, PageBelow
  <2> QED BY <2>2, <1>4
<1>9. m = 0 => last = 0 BY <1>2, <1>4 DEF ListInv, ListPlace
<1>10. m > 0 => last = Day[box[m].row] BY <1>2, <1>4 DEF ListInv, ListPlace
<1>11. rows \subseteq Nat /\ \A r \in rows : Day[r] \in Nat /\ Day[r] > 0 /\ Time[r] \in Nat
  BY <1>2, RowFacts
<1>12. L!Last(p) = p[k] BY DEF L!Last
<1> HIDE DEF m, p, k
<1>13. box'[m + k].row = p[k] /\ k \in 1..k BY <1>3, <1>4
<1>14. cursor' = Time[p[k]] /\ last' = Day[p[k]] BY <1>6, <1>12 DEF p
<1>15. ASSUME NEW i \in 1..m + k
       PROVE  \/ i \in 1..m /\ box'[i] = box[i]
              \/ /\ i > m /\ i - m \in 1..k /\ box'[i].row = p[i - m]
                 /\ box'[i].dated =
                      (Day[p[i - m]] # IF i - m = 1 THEN last ELSE Day[p[i - m - 1]])
  <2>1. CASE i <= m BY <2>1, <1>3, <1>4
  <2>2. CASE i > m
    <3>1. i - m \in 1..k /\ m + (i - m) = i BY <2>2, <1>4
    <3> QED BY <2>2, <3>1, <1>3
  <2> QED BY <2>1, <2>2, <1>4
<1>16. \A i \in 1..m + k : box'[i].row \in rows BY <1>6, <1>7, <1>15
<1>17. ReadsInOrder'
  <2>1. ASSUME NEW i \in 1..m + k, NEW j \in 1..m + k, i < j PROVE box'[i].row > box'[j].row
    <3>1. CASE j \in 1..m /\ box'[j] = box[j]
      <4>1. i \in 1..m /\ box'[i] = box[i] BY <2>1, <3>1, <1>3, <1>4
      <4> QED BY <3>1, <4>1, <2>1, <1>7
    <3>2. CASE j > m /\ j - m \in 1..k /\ box'[j].row = p[j - m]
      <4>1. CASE i \in 1..m /\ box'[i] = box[i]
        <5>1. m > 0 /\ m \in 1..m /\ i <= m BY <4>1, <1>4
        <5>2. p[j - m] < box[m].row BY <5>1, <3>2, <1>8
        <5>3. i = m \/ box[i].row > box[m].row BY <4>1, <5>1, <1>4, <1>7
        <5>4. box[i].row \in Nat /\ box[m].row \in Nat /\ p[j - m] \in Nat
          BY <4>1, <3>2, <5>1, <1>6, <1>7, <1>11
        <5> QED BY <4>1, <3>2, <5>2, <5>3, <5>4
      <4>2. CASE i > m /\ i - m \in 1..k /\ box'[i].row = p[i - m]
        <5>1. i - m < j - m BY <2>1, <1>4
        <5> QED BY <4>2, <3>2, <5>1, <1>6
      <4> QED BY <4>1, <4>2, <1>15
    <3> QED BY <3>1, <3>2, <1>15
  <2>2. ASSUME NEW i \in 1..m + k
        PROVE box'[i].dated = (i = 1 \/ Day[box'[i].row] # Day[box'[i - 1].row])
    <3>1. CASE i \in 1..m /\ box'[i] = box[i]
      <4>1. i # 1 => i - 1 \in 1..m BY <3>1, <1>4
      <4>2. i # 1 => box'[i - 1] = box[i - 1] BY <4>1, <1>3
      <4> QED BY <3>1, <4>2, <1>7
    <3>2. CASE i = m + 1
      <4>1. /\ 1 \in 1..k /\ box'[i].row = p[1]
            /\ box'[i].dated = (Day[p[1]] # last)
        BY <3>2, <1>3, <1>4
      <4>2. CASE m = 0
        <5>1. i = 1 /\ last = 0 BY <3>2, <4>2, <1>9
        <5>2. Day[p[1]] > 0 /\ Day[p[1]] \in Nat BY <4>1, <1>6, <1>11
        <5>3. Day[p[1]] # 0 BY <5>2
        <5> QED BY <4>1, <5>1, <5>3
      <4>3. CASE m > 0
        <5>1. i # 1 /\ i - 1 = m /\ m \in 1..m BY <3>2, <4>3, <1>4
        <5>2. box'[i - 1] = box[m] BY <5>1, <1>3
        <5> QED BY <4>1, <4>3, <5>1, <5>2, <1>10
      <4> QED BY <4>2, <4>3, <1>4
    <3>3. CASE i > m + 1
      <4>1. /\ i - m \in 1..k /\ i - m # 1 /\ i - m - 1 \in 1..k /\ m + (i - m) = i
            /\ m + (i - m - 1) = i - 1 /\ i # 1
        BY <3>3, <1>4
      <4>2. box'[i].row = p[i - m] /\ box'[i - 1].row = p[i - m - 1] BY <4>1, <1>3
      <4>3. box'[i].dated = (Day[p[i - m]] # Day[p[i - m - 1]]) BY <4>1, <1>3
      <4> QED BY <4>1, <4>2, <4>3
    <3>4. i <= m => i \in 1..m /\ box'[i] = box[i] BY <1>3, <1>4
    <3>5. i <= m \/ i = m + 1 \/ i > m + 1 BY <1>4
    <3> QED BY <3>1, <3>2, <3>3, <3>4, <3>5
  <2> QED BY <2>1, <2>2, <1>4 DEF ReadsInOrder, L!ReadsInOrder
<1>18. OwnRows'
  <2> SUFFICES ASSUME kind = "kiosk" \/ calm, NEW i \in 1..m + k PROVE Of[box'[i].row] = owner
    BY <1>4 DEF OwnRows, L!OwnRows
  <2>1. call.owner = owner BY <1>1 DEF ListInv, ListPlace
  <2>2. \A j \in 1..m : Of[box[j].row] = owner BY <1>4 DEF ListInv, OwnRows, L!OwnRows
  <2>3. \A j \in 1..k : Of[p[j]] = owner BY <2>1, <1>6 DEF Eligible
  <2> QED BY <2>2, <2>3, <1>15
<1>19. NothingLeftOut'
  <2>1. L!Last(box') = box'[m + k] BY <1>3 DEF L!Last, m, k, p
  <2> SUFFICES ASSUME calm, NEW r \in rows, Of[r] = owner, box'[1].row > r, r > p[k]
               PROVE \E i \in 1..m + k : Time[box'[i].row] = Time[r]
    BY <2>1, <1>1, <1>4, <1>13 DEF NothingLeftOut, L!NothingLeftOut
  <2>2. call.owner = owner BY <1>1 DEF ListInv, ListPlace
  <2>3. ASSUME Eligible(r, owner, call.before), call.before = 0 => r < p[1]
        PROVE  \E i \in 1..m + k : Time[box'[i].row] = Time[r]
    <3>1. PICK i \in 1..k : p[i] = r BY <2>2, <2>3, <1>4, <1>5 DEF PageFits, p, k
    <3>2. m + i \in 1..m + k /\ box'[m + i].row = r BY <3>1, <1>3, <1>4
    <3> QED BY <3>2
  <2>4. CASE m = 0
    <3>1. call.before = 0 BY <2>4, <1>1, <1>2 DEF ListInv, ListPlace, m
    <3>2. box'[1].row = p[1] BY <2>4, <1>3, <1>4
    <3>a. 1 \in 1..k BY <1>4
    <3>3. p[1] \in Nat /\ r \in Nat BY <3>a, <1>6, <1>11
    <3>4. r < p[1] BY <3>2, <3>3
    <3> QED BY <2>3, <3>1, <3>4 DEF Eligible
  <2>5. CASE m > 0
    <3>1. m \in 1..m /\ m \in 1..m + k /\ 1 \in 1..m BY <2>5, <1>4
    <3>2. box'[m] = box[m] /\ box'[1] = box[1] BY <3>1, <1>3
    <3>3. r \in Nat /\ box[m].row \in Nat /\ r \in Rows /\ box[m].row \in Rows
      BY <2>5, <1>2, <1>8, <1>11
    <3>4. CASE r > box[m].row
      <4>1. L!Last(box) = box[m] BY DEF L!Last, m
      <4>2. \E i \in 1..m : Time[box[i].row] = Time[r]
        BY <2>5, <3>2, <3>4, <4>1, <1>4 DEF ListInv, NothingLeftOut, L!NothingLeftOut
      <4>3. PICK i \in 1..m : Time[box[i].row] = Time[r] BY <4>2
      <4>4. i \in 1..m + k /\ box'[i] = box[i] BY <1>3, <1>4
      <4> QED BY <4>3, <4>4
    <3>5. CASE r = box[m].row BY <3>1, <3>2, <3>5
    <3>6. CASE r < box[m].row
      <4>1. Time[r] <= Time[box[m].row] BY <3>3, <3>6 DEF L!HistoryConstants
      <4>2. CASE Time[r] = Time[box[m].row] BY <3>1, <3>2, <4>2
      <4>3. CASE Time[r] < Time[box[m].row] BY <2>3, <2>5, <4>3, <1>8 DEF Eligible
      <4>4. Time[r] \in Nat /\ Time[box[m].row] \in Nat BY <3>3, RowFacts
      <4>5. Time[r] = Time[box[m].row] \/ Time[r] < Time[box[m].row] BY <4>1, <4>4
      <4> QED BY <4>2, <4>3, <4>5
    <3>7. r > box[m].row \/ r = box[m].row \/ r < box[m].row BY <3>3
    <3> QED BY <3>4, <3>5, <3>6, <3>7
  <2> QED BY <2>4, <2>5, <1>4
<1>20. cursor' \in Nat /\ last' \in Nat BY <1>6, <1>11, <1>13, <1>14
<1>21. box' # <<>> BY <1>3, <1>4
<1> QED BY <1>3, <1>4, <1>13, <1>14, <1>16, <1>17, <1>18, <1>19, <1>20, <1>21

LEMMA HearStep ==
  ASSUME L!HistoryConstants, ListInv, L!Hear
  PROVE  ListInv'
<1>1. /\ call.answer # "none" /\ loading' = FALSE /\ call' = L!NoCall
      /\ UNCHANGED <<kind, owner, rows, calm>>
      /\ IF call.answer = "lost" \/ L!Stale(call) THEN UNCHANGED L!list ELSE L!AddRows(call)
  BY DEF L!Hear
<1>2. call' \in LoadType /\ call'.answer = "none" BY <1>1, LoadFields
<1>3. /\ call \in LoadType /\ box \in Seq(PageRow) /\ cursor \in Nat /\ last \in Nat
      /\ more \in BOOLEAN
  BY DEF ListInv, ListFits, L!TypeOK, PageRow
<1>4. ASSUME box' \in Seq(PageRow), cursor' \in Nat, last' \in Nat, more' \in BOOLEAN
      PROVE  ListFits'
  BY <1>1, <1>2, <1>4 DEF ListInv, ListFits, L!TypeOK, PageRow
<1>5. CASE UNCHANGED L!list
  <2>1. UNCHANGED <<box, cursor, more, last>> BY <1>5 DEF L!list
  <2>2. ListFits' BY <1>3, <1>4, <2>1
  <2>3. ListPlace' BY <1>1, <2>1 DEF ListInv, ListPlace
  <2>4. ReadsInOrder' /\ OwnRows' /\ NothingLeftOut' BY <1>1, <1>5, ListKept DEF ListInv
  <2> QED BY <1>2, <2>2, <2>3, <2>4 DEF ListInv
<1>6. CASE call.answer = "ok" /\ ~L!Stale(call) /\ L!AddRows(call)
  <2>1. kind = "kiosk" => call.owner = owner BY <1>6 DEF L!Stale
  <2>2. CASE call.page # <<>>
    <3>1. /\ box' = box \o L!Drawn(call.page) /\ cursor' = call.next
          /\ last' = Day[L!Last(call.page)] /\ more' = more
      BY <1>6, <2>2 DEF L!AddRows
    <3>2. /\ box' \in Seq(PageRow) /\ cursor' \in Nat /\ last' \in Nat
          /\ box' # <<>> /\ cursor' = Time[box'[Len(box')].row]
          /\ last' = Day[box'[Len(box')].row] /\ \A i \in DOMAIN box' : box'[i].row \in rows
          /\ ReadsInOrder' /\ OwnRows' /\ NothingLeftOut'
      BY <1>1, <1>6, <2>1, <2>2, <3>1, AddStep
    <3>3. ListFits' BY <1>3, <1>4, <3>1, <3>2
    <3>4. ListPlace' BY <1>1, <3>2 DEF ListPlace
    <3> QED BY <1>2, <3>2, <3>3, <3>4 DEF ListInv
  <2>3. CASE call.page = <<>>
    <3>1. more' = FALSE /\ UNCHANGED <<box, cursor, last>> BY <1>6, <2>3 DEF L!AddRows
    <3>2. ListFits' BY <1>3, <1>4, <3>1
    <3>3. ListPlace' BY <1>1, <3>1 DEF ListInv, ListPlace
    <3>4. ReadsInOrder' /\ OwnRows'
      BY <1>1, <3>1 DEF ListInv, ReadsInOrder, OwnRows, L!ReadsInOrder, L!OwnRows
    <3>5. NothingLeftOut'
      <4> SUFFICES ASSUME calm, box # <<>>, NEW r \in rows, Of[r] = owner, box[1].row > r
                   PROVE \E i \in DOMAIN box : Time[box[i].row] = Time[r]
        BY <1>1, <3>1 DEF NothingLeftOut, L!NothingLeftOut
      <4> DEFINE l == box[Len(box)].row
      <4>1. /\ call.before = Time[l] /\ call.before # 0 /\ l \in Rows /\ r \in Rows
            /\ Len(box) \in DOMAIN box
        BY <1>3, <1>6, PageBelow DEF ListInv, ListFits, L!TypeOK
      <4>2. call.owner = owner
        <5>1. call # L!NoCall BY <1>6 DEF L!NoCall
        <5>2. loading BY <5>1 DEF ListInv, ListFits, L!TypeOK
        <5> QED BY <5>2 DEF ListInv, ListPlace
      <4>3. ~Eligible(r, owner, call.before)
        <5>1. PageFits(call) BY <1>6 DEF ListInv
        <5>2. DOMAIN call.page = {} BY <2>3
        <5> QED BY <4>1, <4>2, <5>1, <5>2, <2>3 DEF PageFits
      <4>4. ~(Time[r] < Time[l]) BY <4>1, <4>3 DEF Eligible
      <4>5. CASE r > l
        <5>1. L!Last(box) = box[Len(box)] BY DEF L!Last
        <5> QED BY <4>5, <5>1 DEF ListInv, NothingLeftOut, L!NothingLeftOut
      <4>6. CASE ~(r > l)
        <5>1. Time[r] <= Time[l]
          <6>1. r \in Nat /\ l \in Nat /\ Time[r] \in Nat /\ Time[l] \in Nat BY <4>1, RowFacts
          <6>2. r = l \/ r < l BY <4>6, <6>1
          <6>3. r < l => Time[r] <= Time[l] BY <4>1 DEF L!HistoryConstants
          <6> QED BY <6>1, <6>2, <6>3
        <5>2. Time[r] \in Nat /\ Time[l] \in Nat BY <4>1, RowFacts
        <5>3. Time[l] = Time[r] BY <4>4, <5>1, <5>2
        <5> QED BY <4>1, <5>3
      <4> QED BY <4>5, <4>6
    <3> QED BY <1>2, <3>2, <3>3, <3>4, <3>5 DEF ListInv
  <2> QED BY <2>2, <2>3
<1>7. call.answer \in {"none", "ok", "lost"} BY <1>3 DEF LoadType
<1> QED BY <1>1, <1>5, <1>6, <1>7

LEMMA ListStep ==
  ASSUME L!HistoryConstants, ListInv, [L!Next]_(L!vars)
  PROVE  ListInv'
<1>1. ASSUME UNCHANGED L!vars PROVE ListInv'
  <2>1. UNCHANGED <<kind, owner, box, cursor, more, last, loading, call, rows, calm, L!list>>
    BY <1>1 DEF L!vars, L!list
  <2>2. ListFits' BY <2>1 DEF ListInv, ListFits, L!TypeOK
  <2>3. ListPlace' BY <2>1 DEF ListInv, ListPlace
  <2>4. (call.answer = "ok" => PageFits(call))' BY <2>1 DEF ListInv, PageFits, Eligible
  <2>5. ReadsInOrder' /\ OwnRows' /\ NothingLeftOut' BY <2>1, ListKept DEF ListInv
  <2> QED BY <2>2, <2>3, <2>4, <2>5 DEF ListInv
<1> QED BY <1>1, DrawStep, ScrollStep, HearStep, AnswerStep, HappenStep DEF L!Next

\* The type invariant of the lists, their loads and the tables (user.js, admin.js,
\* history.py).
THEOREM ListTypeCorrect == L!Spec => []L!TypeOK
<1> L!HistoryConstants BY AppAssumption
<1>1. L!Init => ListInv BY ListInit
<1>2. ListInv /\ [L!Next]_(L!vars) => ListInv' BY ListStep
<1>3. ListInv => L!TypeOK BY DEF ListInv, ListFits
<1> QED BY <1>1, <1>2, <1>3, PTL DEF L!Spec

\* No row twice, none above a newer one, and each date above its first row, whatever is
\* drawn anew, lost or added while a page is loading (historyItemHtml, loadMoreHistory).
THEOREM ListsInOrder == L!Spec => []ReadsInOrder
<1> L!HistoryConstants BY AppAssumption
<1>1. L!Init => ListInv BY ListInit
<1>2. ListInv /\ [L!Next]_(L!vars) => ListInv' BY ListStep
<1>3. ListInv => ReadsInOrder BY DEF ListInv
<1> QED BY <1>1, <1>2, <1>3, PTL DEF L!Spec

\* A kiosk's detail, and a list that was drawn in peace, shows its owner's rows only
\* (loadMoreKioskDetailHistory).
THEOREM ListsOfTheirOwner == L!Spec => []OwnRows
<1> L!HistoryConstants BY AppAssumption
<1>1. L!Init => ListInv BY ListInit
<1>2. ListInv /\ [L!Next]_(L!vars) => ListInv' BY ListStep
<1>3. ListInv => OwnRows BY DEF ListInv
<1> QED BY <1>1, <1>2, <1>3, PTL DEF L!Spec

\* The pages that are merged from the tables join without a gap, but for rows of one time
\* between which a page ends (get_history_page, history.py:142).
THEOREM ListsWithoutGap == L!Spec => []NothingLeftOut
<1> L!HistoryConstants BY AppAssumption
<1>1. L!Init => ListInv BY ListInit
<1>2. ListInv /\ [L!Next]_(L!vars) => ListInv' BY ListStep
<1>3. ListInv => NothingLeftOut BY DEF ListInv
<1> QED BY <1>1, <1>2, <1>3, PTL DEF L!Spec

\* What a page is, at any moment and for anybody: the newest rows before the cursor, as many as
\* a page takes, although each table was asked on its own (get_history_page, history.py:141).
THEOREM MergedIsNewest ==
  L!Spec => [](\A o \in Owners, b \in Nat : L!Page(o, b) = L!Sorted(L!Newest(Limit, L!Before(o, b))))
<1> L!HistoryConstants BY AppAssumption
<1>1. L!Init => ListInv BY ListInit
<1>2. ListInv /\ [L!Next]_(L!vars) => ListInv' BY ListStep
<1>3. ListInv => \A o \in Owners, b \in Nat : L!Page(o, b) = L!Sorted(L!Newest(Limit, L!Before(o, b)))
  BY OneQuery DEF ListInv, ListFits, L!TypeOK, L!Page
<1> QED BY <1>1, <1>2, <1>3, PTL DEF L!Spec

===============================================================================
