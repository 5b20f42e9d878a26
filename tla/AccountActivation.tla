-------------------------- MODULE AccountActivation --------------------------
(***************************************************************************)
(* Logging in on the member's page, and the first login of a member who    *)
(* has not chosen a password: a number is sent by text message, the page   *)
(* asks every two seconds whether it has gone out, counts one minute down, *)
(* has the number checked and lets the member choose a password.           *)
(*                                                                         *)
(* The page keeps one record, _activation, which every callback reads when *)
(* it runs: an answer that comes late meets the record of another attempt, *)
(* or none. A timer that is replaced in the record goes on, unreferenced.  *)
(***************************************************************************)
EXTENDS Integers, FiniteSets, FiniteSetsExt

CONSTANTS
  Phones,       \* numbers, each of a member whose account is open
  Codes,        \* rows of user_activation_codes, numbered as they are made
  None,
  Slots,        \* requests that may be under way at a time
  MaxAttempts,  \* MAX_VERIFY_ATTEMPTS
  DayLimit,     \* MAX_CODES_PER_DAY
  Joined,       \* the members who may have chosen a password before
  Most, Budgets \* what may still happen, in each of several environments

Events == {"edits", "asks", "guesses", "faults", "logouts", "crossings"}
ActType == [phone : Phones, id : Codes \cup {None}, token : Phones \cup {None},
            clock : Codes \cup {None}]
ASSUME ActivationAssumption ==
  /\ Codes \subseteq Nat \ {0} /\ MaxAttempts \in Nat \ {0} /\ DayLimit \in Nat /\ Most \in Nat
  /\ Joined \subseteq SUBSET Phones
  /\ None \notin Phones /\ None \notin Codes /\ None \notin ActType
  /\ Budgets \subseteq [Events -> 0..Most]

VARIABLES
  field,        \* the number in the login form
  needsPw,      \* _loginNeedsPassword: the form shows the password
  step,         \* showLoginStep
  act,          \* _activation
  buttons,      \* buttons that can be used
  timers,       \* intervals at work: those of the record, and stray ones
  calls,        \* requests under way
  user,         \* who is logged in
  chosen,       \* users.password_set
  codes,        \* user_activation_codes with its row of sms_outbox
  budget,
  orderly       \* history: no answer met another attempt, or another answer

form == <<field, needsPw, user>>
server == <<chosen, codes>>
vars == <<form, step, act, buttons, timers, calls, server, budget, orderly>>

Blank(p) == [phone |-> p, id |-> None, token |-> None, clock |-> None]
Idle == [op |-> "none", phone |-> None, id |-> None, good |-> FALSE, answer |-> "none", got |-> None]
NoCode == [phone |-> None, sms |-> "none", young |-> FALSE, late |-> FALSE,
           attempts |-> 0, verified |-> FALSE]
Answers == {"none", "deciding", "lost", "ok", "no", "again", "required", "verify",
            "password", "sending", "sent", "failed", "expired"}

TypeOK ==
  /\ field \in Phones \cup {None} /\ user \in Phones \cup {None} /\ needsPw \in BOOLEAN
  /\ step \in {"login", "verify", "password"}
  /\ act \in ActType \cup {None}
  /\ step # "login" => act # None
  /\ step = "password" => act.token # None
  /\ buttons \subseteq {"login", "resend", "verify", "complete"}
  /\ timers \subseteq {"poll", "tick", "strayPoll", "strayTick"}
  /\ calls \in [Slots -> [op : {"none", "check", "login", "request", "status", "verify", "complete"},
                          phone : Phones \cup {None}, id : Codes \cup {None},
                          good : BOOLEAN, answer : Answers, got : Codes \cup {None}]]
  /\ chosen \subseteq Phones /\ orderly \in BOOLEAN
  /\ codes \in [Codes -> [phone : Phones \cup {None}, young : BOOLEAN, late : BOOLEAN,
                          sms : {"none", "queued", "claimed", "failed", "fresh", "grace", "over"},
                          attempts : 0..MaxAttempts, verified : BOOLEAN]]

Init ==
  /\ field = None /\ needsPw = FALSE /\ step = "login" /\ user = None /\ act = None
  /\ buttons = {"login", "complete", "verify"} /\ timers = {}
  /\ calls = [s \in Slots |-> Idle] /\ chosen \in Joined /\ codes = [i \in Codes |-> NoCode]
  /\ budget \in Budgets /\ orderly = TRUE

-------------------------------------------------------------------------------
(* Helpers.                                                                *)

Spend(k) == budget[k] > 0 /\ budget' = [budget EXCEPT ![k] = @ - 1]
\* A step that costs ks, and a crossing if an answer it does not wait for is under way.
SpendCrossing(ks, crossing) ==
  LET all == ks \cup (IF crossing THEN {"crossings"} ELSE {}) IN
  /\ \A k \in all : budget[k] > 0
  /\ budget' = [k \in Events |-> IF k \in all THEN budget[k] - 1 ELSE budget[k]]
  /\ orderly' = (orderly /\ ~crossing)
Free(s) == (\E x \in Slots : calls[x] = Idle) /\ s = CHOOSE x \in Slots : calls[x] = Idle
Ask(op, p, i, good) == [Idle EXCEPT !.op = op, !.phone = p, !.id = i, !.good = good]
Put(s, c) == calls' = [calls EXCEPT ![s] = c]
Heard(s, op) == calls[s].op = op /\ calls[s].answer \notin {"none", "deciding"}
Under(ops) == \E s \in Slots : calls[s].op \in ops
Activating == {"request", "status", "verify", "complete"}

\* clearInterval of the timers that the record knows; clearing it without them leaves
\* them to run; starting one where there is one leaves that one to run.
Stopped(t) == IF act = None THEN t ELSE t \ {"poll", "tick"}
Stray == [t \in {"poll", "tick"} |-> IF t = "poll" THEN "strayPoll" ELSE "strayTick"]
Started(t, ts) == ts \cup {t} \cup (IF t \in ts THEN {Stray[t]} ELSE {})
Abandoned(ts) == (ts \ {"poll", "tick"}) \cup {Stray[t] : t \in ts \cap {"poll", "tick"}}

-------------------------------------------------------------------------------
(* The login form.                                                         *)

\* The number is typed; the password is asked for again (resetLoginPasswordStep).
Edit(p) ==
  /\ user = None /\ step = "login" /\ p # field /\ Spend("edits")
  /\ field' = p /\ needsPw' = FALSE
  /\ UNCHANGED <<user, step, act, buttons, timers, calls, server, orderly>>

\* userLogin: first the number alone, then the number and the password.
Login(s, good) ==
  /\ user = None /\ step = "login" /\ field # None /\ "login" \in buttons /\ Free(s)
  /\ Spend("asks") /\ (~needsPw => ~good)
  /\ buttons' = buttons \ {"login"}
  /\ Put(s, Ask(IF needsPw THEN "login" ELSE "check", field, None, good))
  /\ UNCHANGED <<form, step, act, timers, server, orderly>>

\* requestActivationCode, for the record rec.
Request(s, rec, others) ==
  /\ act' = rec /\ timers' = Stopped(timers)
  /\ buttons' = others \ {"resend", "verify"}
  /\ Put(s, Ask("request", rec.phone, None, FALSE))

\* startActivation
StartActivation(s) ==
  /\ Request(s, Blank(calls[s].phone), buttons \cup {"login"}) /\ step' = "verify" /\ UNCHANGED orderly

\* What the server made of the number, or of the password.
HearLogin(s) ==
  LET a == calls[s].answer IN
  /\ Heard(s, "check") \/ Heard(s, "login")
  /\ \/ /\ a \in {"verify", "required"} /\ StartActivation(s) /\ UNCHANGED form
     \/ /\ a \notin {"verify", "required"}
        /\ needsPw' = IF a = "ok" THEN FALSE ELSE needsPw \/ a = "password"
        /\ user' = IF a = "ok" THEN calls[s].phone ELSE user
        /\ buttons' = buttons \cup {"login"} /\ Put(s, Idle)
        /\ UNCHANGED <<field, step, act, timers, orderly>>
  /\ UNCHANGED <<server, budget>>

\* userLogout empties the form.
Logout ==
  /\ user # None /\ Spend("logouts")
  /\ user' = None /\ field' = None /\ needsPw' = FALSE
  /\ UNCHANGED <<step, act, buttons, timers, calls, server, orderly>>

-------------------------------------------------------------------------------
(* The number by text message.                                             *)

Resend(s) ==
  /\ user = None /\ step = "verify" /\ act # None /\ "resend" \in buttons /\ Free(s)
  /\ SpendCrossing({"asks"}, Under(Activating)) /\ Request(s, act, buttons)
  /\ UNCHANGED <<form, step, server>>

\* Mutant of HearRequest: the record keeps the first number it was given.
HearRequestKeeps(s) ==
  /\ Heard(s, "request")
  /\ IF calls[s].answer = "ok" /\ act # None
     THEN /\ act' = [act EXCEPT !.id = IF @ = None THEN calls[s].got ELSE @]
          /\ timers' = Started("poll", timers)
          /\ Put(s, Ask("status", act.phone, act'.id, FALSE))
          /\ UNCHANGED buttons
     ELSE /\ buttons' = buttons \cup {"resend"} /\ Put(s, Idle)
          /\ UNCHANGED <<act, timers>>
  /\ UNCHANGED <<form, step, server, budget, orderly>>

\* The rest of requestActivationCode: the page asks at once, and then again and again.
HearRequest(s) ==
  /\ Heard(s, "request")
  /\ IF calls[s].answer = "ok" /\ act # None
     THEN /\ act' = [act EXCEPT !.id = calls[s].got]
          /\ timers' = Started("poll", timers)
          /\ Put(s, Ask("status", act.phone, calls[s].got, FALSE))
          /\ UNCHANGED buttons
     ELSE /\ buttons' = buttons \cup {"resend"} /\ Put(s, Idle)
          /\ UNCHANGED <<act, timers>>
  /\ UNCHANGED <<form, step, server, budget, orderly>>

\* pollActivationStatus; the pages ask on, whether the last answer has come or not.
Poll(s) ==
  /\ timers \cap {"poll", "strayPoll"} # {} /\ act # None /\ act.id # None
  /\ Free(s)
  /\ Put(s, Ask("status", act.phone, act.id, FALSE))
  /\ SpendCrossing({}, Under({"status"}))
  /\ UNCHANGED <<form, step, act, buttons, timers, server>>

\* Mutant of HearStatus: a text that failed leaves the button as it is.
HearStatusFails(s) ==
  LET a == calls[s].answer IN
  /\ Heard(s, "status") /\ Put(s, Idle)
  /\ IF act = None \/ a \notin {"sent", "failed", "expired"} THEN UNCHANGED <<act, buttons, timers>>
     ELSE /\ timers' = (IF a = "sent" THEN Started("tick", timers \ {"poll"}) ELSE timers \ {"poll"})
          /\ act' = IF a = "sent" THEN [act EXCEPT !.clock = calls[s].id] ELSE act
          /\ buttons' = buttons \cup (CASE a = "sent" -> {"verify"} [] a = "expired" -> {"resend"}
                                        [] OTHER -> {})
  /\ UNCHANGED <<form, step, server, budget, orderly>>

\* The rest of it: the countdown starts when the text has gone out.
HearStatus(s) ==
  LET a == calls[s].answer IN
  /\ Heard(s, "status") /\ Put(s, Idle)
  /\ IF act = None \/ a \notin {"sent", "failed", "expired"} THEN UNCHANGED <<act, buttons, timers>>
     ELSE /\ timers' = (IF a = "sent" THEN Started("tick", timers \ {"poll"}) ELSE timers \ {"poll"})
          /\ act' = IF a = "sent" THEN [act EXCEPT !.clock = calls[s].id] ELSE act
          /\ buttons' = buttons \cup {IF a = "sent" THEN "verify" ELSE "resend"}
  /\ UNCHANGED <<form, step, server, budget, orderly>>

\* tickActivationTimer, when nothing of the minute is left.
Counting == act # None /\ act.clock # None /\ codes[act.clock].sms = "fresh"
Tick ==
  /\ timers \cap {"tick", "strayTick"} # {} /\ act # None /\ ~Counting
  /\ timers' = timers \ {"tick"}
  /\ buttons' = (buttons \cup {"resend"}) \ {"verify"}
  /\ <<timers, buttons>> # <<timers', buttons'>>
  /\ UNCHANGED <<form, step, act, calls, server, budget, orderly>>

\* cancelActivation
Cancel ==
  /\ user = None /\ step = "verify"
  /\ timers' = Stopped(timers) /\ act' = None /\ step' = "login"
  /\ SpendCrossing({}, Under(Activating))
  /\ UNCHANGED <<form, buttons, calls, server>>

\* submitActivationCode: the member types the number of a text that has come, or another.
SubmitCode(s, good) ==
  /\ user = None /\ step = "verify" /\ act.id # None /\ "verify" \in buttons /\ Free(s)
  /\ Spend("guesses") /\ (good => codes[act.id].sms \in {"fresh", "grace", "over"})
  /\ buttons' = buttons \ {"verify"}
  /\ Put(s, Ask("verify", act.phone, act.id, good))
  /\ UNCHANGED <<form, step, act, timers, server, orderly>>

\* The rest of it.
HearVerify(s) ==
  LET a == calls[s].answer IN
  /\ Heard(s, "verify") /\ Put(s, Idle)
  /\ IF a = "ok" /\ act # None
     THEN /\ act' = [act EXCEPT !.token = calls[s].phone] /\ step' = "password"
          /\ timers' = Stopped(timers) /\ UNCHANGED buttons
     ELSE /\ buttons' = buttons \cup {IF a = "again" THEN "resend" ELSE "verify"}
          /\ UNCHANGED <<act, step, timers>>
  /\ UNCHANGED <<form, server, budget, orderly>>

-------------------------------------------------------------------------------
(* The password.                                                           *)

SubmitPassword(s) ==
  /\ user = None /\ step = "password" /\ "complete" \in buttons /\ Free(s) /\ Spend("asks")
  /\ buttons' = buttons \ {"complete"}
  /\ Put(s, Ask("complete", act.token, None, FALSE))
  /\ UNCHANGED <<form, step, act, timers, server, orderly>>

HearComplete(s) ==
  /\ Heard(s, "complete") /\ Put(s, Idle) /\ buttons' = buttons \cup {"complete"}
  /\ IF calls[s].answer = "ok"
     THEN act' = None /\ step' = "login" /\ user' = calls[s].phone /\ timers' = Abandoned(timers)
     ELSE UNCHANGED <<act, step, user, timers>>
  /\ UNCHANGED <<field, needsPw, server, budget, orderly>>

-------------------------------------------------------------------------------
(* The server. Each request is one transaction but request_code, which     *)
(* looks for a recent number and makes one later, with no lock.            *)

Answer(s, a) == Put(s, [calls[s] EXCEPT !.answer = a])
Made(p) == {i \in Codes : codes[i].phone = p}
NextCode == CHOOSE i \in Codes : codes[i] = NoCode /\ \A j \in Codes : codes[j] = NoCode => i <= j
HasNewest(p) == Made(p) # {}
Newest(p) == Max(Made(p))

\* _sms_state
SmsState(i) ==
  LET c == codes[i] IN
  CASE c.verified -> "expired"
    [] ~c.verified /\ c.sms = "failed" -> "failed"
    [] ~c.verified /\ c.sms = "fresh" -> "sent"
    [] ~c.verified /\ c.sms \in {"grace", "over"} -> "expired"
    [] OTHER -> IF c.late THEN "failed" ELSE "sending"

\* user_login_check and user_login; the members' accounts are open.
ServeLogin(s) ==
  LET c == calls[s] IN
  /\ c.answer = "none" /\ c.op \in {"check", "login"}
  /\ Answer(s, CASE c.op = "check" -> IF c.phone \in chosen THEN "password" ELSE "verify"
                 [] c.op = "login" /\ c.phone \notin chosen -> "required"
                 [] OTHER -> IF c.good THEN "ok" ELSE "no")
  /\ UNCHANGED <<form, step, act, buttons, timers, server, budget, orderly>>

\* Mutant of Recent: only a number that has gone out is used again.
RecentSent(p) == HasNewest(p) /\ codes[Newest(p)].young /\ SmsState(Newest(p)) = "sent"
\* The number of the last minute that still counts, which is used again.
Recent(p) == HasNewest(p) /\ codes[Newest(p)].young /\ SmsState(Newest(p)) \in {"sending", "sent"}

\* request_code, up to the decision.
DecideCode(s) ==
  LET p == calls[s].phone IN
  /\ calls[s].op = "request" /\ calls[s].answer = "none"
  /\ IF p \in chosen THEN Answer(s, "no")
     ELSE IF Recent(p) THEN Put(s, [calls[s] EXCEPT !.answer = "ok", !.got = Newest(p)])
     ELSE Answer(s, IF Cardinality(Made(p)) >= DayLimit THEN "no" ELSE "deciding")
  /\ UNCHANGED <<form, step, act, buttons, timers, server, budget, orderly>>

\* request_code, the rest: a row, with its text in the outbox.
MakeCode(s) ==
  /\ calls[s].answer = "deciding" /\ \E i \in Codes : codes[i] = NoCode
  /\ codes' = [codes EXCEPT ![NextCode] = [NoCode EXCEPT !.phone = calls[s].phone, !.sms = "queued",
                                                      !.young = TRUE]]
  /\ Put(s, [calls[s] EXCEPT !.answer = "ok", !.got = NextCode])
  /\ UNCHANGED <<form, step, act, buttons, timers, chosen, budget, orderly>>

\* code_status: a text that is too late is taken out of the outbox.
Status(s) ==
  LET i == calls[s].id IN
  /\ calls[s].op = "status" /\ calls[s].answer = "none"
  /\ IF codes[i].phone # calls[s].phone THEN Answer(s, "no") /\ UNCHANGED codes
     ELSE /\ Answer(s, SmsState(i))
          /\ codes' = IF SmsState(i) = "failed" /\ codes[i].sms = "queued"
                      THEN [codes EXCEPT ![i].sms = "failed"] ELSE codes
  /\ UNCHANGED <<form, step, act, buttons, timers, chosen, budget, orderly>>

\* verify_code
Verdict(i, p) ==
  CASE codes[i].phone # p \/ Newest(p) # i -> "again"
    [] codes[i].verified \/ codes[i].attempts >= MaxAttempts -> "again"
    [] codes[i].sms \notin {"fresh", "grace", "over"} -> "no"
    [] codes[i].sms = "over" -> "again"
    [] OTHER -> "ok"
VerifyCode(s) ==
  LET i == calls[s].id  v == Verdict(i, calls[s].phone) IN
  /\ calls[s].op = "verify" /\ calls[s].answer = "none"
  /\ IF v # "ok" THEN Answer(s, v) /\ UNCHANGED codes
     ELSE /\ codes' = [codes EXCEPT ![i].attempts = @ + 1, ![i].verified = calls[s].good]
          /\ Answer(s, IF calls[s].good THEN "ok"
                       ELSE IF codes[i].attempts + 1 < MaxAttempts THEN "no" ELSE "again")
  /\ UNCHANGED <<form, step, act, buttons, timers, chosen, budget, orderly>>

\* complete
Complete(s) ==
  LET p == calls[s].phone IN
  /\ calls[s].op = "complete" /\ calls[s].answer = "none"
  /\ Answer(s, IF p \in chosen THEN "no" ELSE "ok") /\ chosen' = chosen \cup {p}
  /\ UNCHANGED <<form, step, act, buttons, timers, codes, budget, orderly>>

\* A request is lost on its way, or its answer.
Lose(s) ==
  /\ calls[s].op # "none" /\ calls[s].answer \notin {"deciding", "lost"} /\ Spend("faults")
  /\ Answer(s, "lost")
  /\ UNCHANGED <<form, step, act, buttons, timers, server, orderly>>

-------------------------------------------------------------------------------
(* The phone that sends the texts, and the clock.                          *)

World == <<form, step, act, buttons, timers, calls, chosen, orderly>>
SetSms(i, from, to) == codes[i].sms = from /\ codes' = [codes EXCEPT ![i].sms = to]

\* claim_messages and report_result
Carry(i) ==
  /\ \/ SetSms(i, "queued", "claimed") /\ UNCHANGED budget
     \/ SetSms(i, "claimed", "fresh") /\ UNCHANGED budget
     \/ SetSms(i, "claimed", "failed") /\ Spend("faults")
  /\ UNCHANGED World

\* A minute has passed since the number was made, and another.
Ages(i) ==
  /\ codes[i].phone # None
  /\ \/ codes[i].young /\ codes' = [codes EXCEPT ![i].young = FALSE]
     \/ ~codes[i].young /\ ~codes[i].late /\ codes' = [codes EXCEPT ![i].late = TRUE]
  /\ UNCHANGED <<World, budget>>

\* A minute has passed since the text went out, and five seconds more. The grace is
\* there for the way of an answer, which is shorter.
RunsOut(i) ==
  /\ ~codes[i].young
  /\ ~\E s \in Slots : calls[s].op = "status" /\ calls[s].id = i /\ calls[s].answer = "sent"
  /\ SetSms(i, "fresh", "grace") \/ SetSms(i, "grace", "over")
  /\ UNCHANGED <<World, budget>>

-------------------------------------------------------------------------------
Hear(s) == HearLogin(s) \/ HearRequest(s) \/ HearStatus(s) \/ HearVerify(s) \/ HearComplete(s)
Serve(s) == ServeLogin(s) \/ DecideCode(s) \/ MakeCode(s) \/ Status(s) \/ VerifyCode(s) \/ Complete(s)
Next ==
  \/ \E p \in Phones : Edit(p)
  \/ \E s \in Slots, good \in BOOLEAN : Login(s, good) \/ SubmitCode(s, good)
  \/ \E s \in Slots : Resend(s) \/ SubmitPassword(s) \/ Poll(s) \/ Serve(s) \/ Hear(s) \/ Lose(s)
  \/ Tick \/ Cancel \/ Logout
  \/ \E i \in Codes : Carry(i) \/ Ages(i) \/ RunsOut(i)

\* Answers come, timers run and time passes; the phone that sends texts may be away.
Fairness ==
  /\ \A s \in Slots : WF_vars(Serve(s)) /\ WF_vars(Hear(s)) /\ WF_vars(Poll(s))
  /\ WF_vars(Tick)
  /\ \A i \in Codes : WF_vars(Ages(i)) /\ WF_vars(RunsOut(i))
Spec == Init /\ [][Next]_vars /\ Fairness

-------------------------------------------------------------------------------
(* Properties.                                                             *)

\* A member gets one text in a minute, however often the number is asked for and
\* whatever is lost (account_activation.py:14): a younger number is made only when
\* the last one's text has failed or it has been used.
OneTextAMinute ==
  orderly => \A i, j \in Codes :
    i < j /\ codes[i].phone = codes[j].phone /\ codes[i].young /\ codes[j].young =>
      codes[i].sms = "failed" \/ codes[i].verified

\* While the page counts down, the number it asks for is the one the server expects
\* of the member whose phone number it shows.
CountsTheNewest ==
  orderly /\ step = "verify" /\ "verify" \in buttons /\ Counting =>
    /\ act.clock = act.id /\ codes[act.id].phone = act.phone
    /\ \A i \in Codes : codes[i].phone = act.phone => i <= act.id

\* Who waits for a number can type it or ask for another in the end, although texts
\* stay behind and answers are lost (account_activation.py:7).
NeverStranded ==
  (step = "verify" /\ orderly) ~> (step # "verify" \/ ~orderly \/ buttons \cap {"resend", "verify"} # {})

===============================================================================
