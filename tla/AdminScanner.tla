----------------------------- MODULE AdminScanner -----------------------------
(***************************************************************************)
(* The administrator's card scanner: one dialog in which a card or a code  *)
(* is presented, either to find a member or to give a card to the member   *)
(* whose detail is open. Contact readers (the browser's, the application's *)
(* and one that types like a keyboard) and the camera write into the same  *)
(* field. The browser grants a camera late, the application shows its own. *)
(* Pausing the contact reader for the camera is left out: the only page    *)
(* that does both is one in an old application.                            *)
(***************************************************************************)
EXTENDS Integers, FiniteSets

CONSTANTS
  Users, None,
  Cards, Codes,   \* what contact readers read; what cameras read
  FirstRows,      \* the cards and codes that are registered at first
  Tours           \* what may happen at most, see TourType

\* The page is in the application; a search goes on by itself; dialogs opened, things
\* presented, cameras asked for, registrations, answers lost or refused.
TourType ==
  [app : BOOLEAN, auto : BOOLEAN, opens : Nat, scans : Nat, starts : Nat, puts : Nat, faults : Nat]

RowType == [uid : Cards \cup Codes, user : Users, type : {"NFC", "QR"}]

\* What the constants have to be.
ScannerConstants ==
  /\ None \notin Users \cup Cards \cup Codes /\ Cards \cap Codes = {}
  /\ FirstRows \subseteq RowType /\ Tours \subseteq TourType
  /\ \A r \in FirstRows : r.type = "QR" <=> r.uid \in Codes

VARIABLES
  modal,     \* the dialog, its field and its camera
  ndef,      \* the browser's reader
  cool,      \* readers that wait before they read again
  asking,    \* cameras that have been asked for
  puts,      \* registrations on their way
  reload,    \* the cards that are being loaded anew
  cards,     \* the page's cards
  rows,      \* the server's
  tour,
  presented, \* history: what a contact reader has read since the dialog was opened
  crossed    \* history: a camera was stopped or asked for while another was asked for or
             \* known without being used

scanVars == <<modal, ndef, cool, asking, puts, reload, cards, rows, tour, presented, crossed>>

ModalType ==
  [open : BOOLEAN, mode : {"SEARCH", "REGISTER"}, user : Users \cup {None}, uid : Cards \cup Codes \cup {None},
   sight : {"NFC", "QR"}, scanning : BOOLEAN, stream : Nat, live : SUBSET Nat, native : BOOLEAN,
   detail : Users \cup {None}]

TypeOK ==
  /\ modal \in ModalType /\ ndef \in {"none", "asked", "on"} /\ cool \subseteq {"nfc", "qr"}
  /\ asking \subseteq [n : Nat, stage : {"camera", "play"}] /\ tour \in TourType
  /\ puts \subseteq [n : Nat, uid : Cards \cup Codes, user : Users, answer : {"none", "ok", "no"}]
  /\ reload \in [st : {"none", "asked", "ok"}, rows : SUBSET RowType] /\ cards \subseteq RowType /\ rows \subseteq RowType
  /\ presented \subseteq Cards /\ crossed \in BOOLEAN

NoLoad == [st |-> "none", rows |-> {}]

Init ==
  /\ tour \in Tours /\ rows = FirstRows /\ cards = FirstRows
  /\ modal = [open |-> FALSE, mode |-> "SEARCH", user |-> None, uid |-> None, sight |-> "NFC",
              scanning |-> FALSE, stream |-> 0, live |-> {}, native |-> FALSE, detail |-> None]
  /\ ndef = "none" /\ cool = {} /\ asking = {} /\ puts = {} /\ reload = NoLoad
  /\ presented = {} /\ crossed = FALSE

Spend(what) == tour[what] > 0 /\ tour' = [tour EXCEPT ![what] = @ - 1]
Crossing == crossed' = (crossed \/ asking # {})

-------------------------------------------------------------------------------
(* The dialog.                                                             *)

\* stopAdminCameraScanner: the stream that is known.
StopCamera(m) == [m EXCEPT !.live = @ \ {m.stream}, !.stream = 0, !.scanning = FALSE]

\* closeScannerModal
Close(m) == [StopCamera(m) EXCEPT !.native = FALSE, !.open = FALSE]

\* initAdminNfcReader
WakeReader == ndef' = IF ~tour.app /\ ndef = "none" THEN "asked" ELSE ndef

\* Mutant of Opened: the field is as it was.
OpenedAsWas(m, mode) ==
  [StopCamera(m) EXCEPT !.open = TRUE, !.mode = mode, !.user = IF mode = "SEARCH" THEN None ELSE m.detail,
                        !.sight = "NFC", !.native = FALSE]
\* What openScannerModal leaves.
Opened(m, mode) ==
  [StopCamera(m) EXCEPT !.open = TRUE, !.mode = mode, !.user = IF mode = "SEARCH" THEN None ELSE m.detail,
                        !.uid = None, !.sight = "NFC", !.native = FALSE]

\* openScannerModal: the search is offered anywhere, the registration in a detail.
Open(mode) ==
  /\ ~modal.open /\ (mode = "REGISTER" => modal.detail # None) /\ Spend("opens")
  /\ modal' = Opened(modal, mode) /\ WakeReader /\ presented' = {} /\ Crossing
  /\ UNCHANGED <<cool, asking, puts, reload, cards, rows>>

\* startAdminCameraScanner: up to the camera that the browser is asked for.
Start ==
  /\ Spend("starts") /\ asking' = asking \cup {[n |-> tour.starts, stage |-> "camera"]}
  /\ crossed' = (crossed \/ asking # {} \/ modal'.stream # 0)

\* switchAdminScanMode
SwitchNfc ==
  /\ modal.open /\ modal.sight = "QR"
  /\ modal' = [StopCamera(modal) EXCEPT !.sight = "NFC", !.native = FALSE] /\ WakeReader /\ Crossing
  /\ UNCHANGED <<cool, asking, puts, reload, cards, rows, tour, presented>>
SwitchQr ==
  /\ modal.open /\ modal.mode = "SEARCH" /\ modal.sight = "NFC"
  /\ modal' = [modal EXCEPT !.sight = "QR", !.native = tour.app]
  /\ IF tour.app \/ modal.scanning THEN UNCHANGED <<asking, tour, crossed>> ELSE Start
  /\ UNCHANGED <<ndef, cool, puts, reload, cards, rows, presented>>

\* toggleAdminCameraScanner
Toggle ==
  /\ modal.open /\ modal.sight = "QR" /\ ~tour.app
  /\ IF modal.scanning THEN modal' = StopCamera(modal) /\ Crossing /\ UNCHANGED <<asking, tour>>
     ELSE UNCHANGED modal /\ Start
  /\ UNCHANGED <<ndef, cool, puts, reload, cards, rows, presented>>

\* flipAdminCamera: the button is there while the camera scans.
Flip ==
  /\ modal.open /\ modal.sight = "QR" /\ modal.scanning
  /\ modal' = StopCamera(modal) /\ Start
  /\ UNCHANGED <<ndef, cool, puts, reload, cards, rows, presented>>

Cancel ==
  /\ modal.open /\ modal' = Close(modal) /\ Crossing
  /\ UNCHANGED <<ndef, cool, asking, puts, reload, cards, rows, tour, presented>>

-------------------------------------------------------------------------------
(* The browser's camera and reader.                                        *)

\* The rest of startAdminCameraScanner, in two steps.
Granted(a) ==
  /\ a.stage = "camera" /\ asking' = (asking \ {a}) \cup {[a EXCEPT !.stage = "play"]}
  /\ modal' = [modal EXCEPT !.stream = a.n, !.live = @ \cup {a.n}]
  /\ UNCHANGED <<ndef, cool, puts, reload, cards, rows, tour, presented, crossed>>
Played(a) ==
  /\ a.stage = "play" /\ asking' = asking \ {a} /\ modal' = [modal EXCEPT !.scanning = TRUE]
  /\ UNCHANGED <<ndef, cool, puts, reload, cards, rows, tour, presented, crossed>>
Refused(a) ==
  /\ Spend("faults") /\ asking' = asking \ {a}
  /\ UNCHANGED <<modal, ndef, cool, puts, reload, cards, rows, presented, crossed>>

ReaderStarts ==
  /\ ndef = "asked" /\ ((ndef' = "on" /\ UNCHANGED tour) \/ (ndef' = "none" /\ Spend("faults")))
  /\ UNCHANGED <<modal, cool, asking, puts, reload, cards, rows, presented, crossed>>

-------------------------------------------------------------------------------
(* Something is read.                                                      *)

\* The page's card with that number.
Found(uid) == {r.user : r \in {x \in cards : x.uid = uid}}

\* handleScannerConfirm of a search: the detail of whoever has it, or an alert.
Search(m) ==
  IF m.uid = None \/ Found(m.uid) = {} THEN m
  ELSE [Close(m) EXCEPT !.detail = CHOOSE u \in Found(m.uid) : TRUE]

\* triggerDetectionFeedback, maybeAutoConfirmDetection
Detected(m, uid) ==
  LET n == [m EXCEPT !.uid = uid]
  IN IF m.mode = "SEARCH" /\ m.open /\ tour.auto THEN Search(n) ELSE n

Read(reader, uid) ==
  /\ reader \notin cool /\ Spend("scans") /\ modal' = Detected(modal, uid)
  /\ crossed' = (crossed \/ (asking # {} /\ modal.open /\ ~modal'.open))

\* The browser's reader reads whether or not there is a dialog. A telephone gives a
\* number that nobody has: one of the cards that are not registered.
NdefReading(c) ==
  /\ ndef # "none" /\ Read("nfc", c) /\ cool' = cool \cup {"nfc"}
  /\ presented' = IF modal.open THEN presented \cup {c} ELSE presented
  /\ UNCHANGED <<ndef, asking, puts, reload, cards, rows>>
\* onAndroidNfcScanned
AppReading(c) ==
  /\ tour.app /\ modal.open /\ Read("nfc", c) /\ cool' = cool \cup {"nfc"} /\ presented' = presented \cup {c}
  /\ UNCHANGED <<ndef, asking, puts, reload, cards, rows>>
\* The keyboard's: a number is typed, with its Enter, faster than a hand can.
HidReading(c) ==
  /\ modal.open /\ Read("hid", c) /\ presented' = presented \cup {c}
  /\ UNCHANGED <<ndef, cool, asking, puts, reload, cards, rows>>
\* scanAdminQrFrame
FrameRead(c) ==
  /\ modal.scanning /\ modal.stream # 0 /\ Read("qr", c) /\ cool' = cool \cup {"qr"}
  /\ UNCHANGED <<ndef, asking, puts, reload, cards, rows, presented>>
\* onAndroidQrScanned
NativeRead(c) ==
  /\ modal.native /\ modal.open /\ Read("qr", c) /\ cool' = cool \cup {"qr"}
  /\ UNCHANGED <<ndef, asking, puts, reload, cards, rows, presented>>

Rested(reader) ==
  /\ reader \in cool /\ cool' = cool \ {reader}
  /\ UNCHANGED <<modal, ndef, asking, puts, reload, cards, rows, tour, presented, crossed>>

-------------------------------------------------------------------------------
(* Something is confirmed.                                                 *)

ConfirmSearch ==
  /\ modal.open /\ modal.mode = "SEARCH" /\ Search(modal) # modal /\ modal' = Search(modal) /\ Crossing
  /\ UNCHANGED <<ndef, cool, asking, puts, reload, cards, rows, tour, presented>>

\* handleScannerConfirm of a registration. The button stays.
Register ==
  /\ modal.open /\ modal.mode = "REGISTER" /\ modal.uid # None /\ Spend("puts")
  /\ puts' = puts \cup {[n |-> tour.puts, uid |-> modal.uid, user |-> modal.user, answer |-> "none"]}
  /\ UNCHANGED <<modal, ndef, cool, asking, reload, cards, rows, presented, crossed>>

\* upsert_nfc_card: whoever had the number loses it, the member his former card.
Kept(uid, user) == {r \in rows : r.uid # uid /\ ~(r.user = user /\ r.type = "NFC")}
ServePut(p) ==
  /\ p.answer = "none"
  /\ rows' = Kept(p.uid, p.user) \cup {[uid |-> p.uid, user |-> p.user, type |-> "NFC"]}
  /\ puts' = (puts \ {p}) \cup {[p EXCEPT !.answer = "ok"]}
  /\ UNCHANGED <<modal, ndef, cool, asking, reload, cards, tour, presented, crossed>>
LosePut(p) ==
  /\ p.answer # "no" /\ Spend("faults") /\ puts' = (puts \ {p}) \cup {[p EXCEPT !.answer = "no"]}
  /\ UNCHANGED <<modal, ndef, cool, asking, reload, cards, rows, presented, crossed>>

\* The rest of it: whatever dialog is open is closed. One load at a time: a bound.
HearPut(p) ==
  /\ p.answer # "none" /\ puts' = puts \ {p}
  /\ IF p.answer = "ok"
     THEN reload = NoLoad /\ reload' = [NoLoad EXCEPT !.st = "asked"] /\ modal' = Close(modal) /\ Crossing
     ELSE UNCHANGED <<modal, reload, crossed>>
  /\ UNCHANGED <<ndef, cool, asking, cards, rows, tour, presented>>

\* handleAdminRefreshEvent: the server has said that cards have changed, or the page
\* comes to the front.
CardsEvent ==
  /\ reload = NoLoad /\ reload' = [NoLoad EXCEPT !.st = "asked"]
  /\ UNCHANGED <<modal, ndef, cool, asking, puts, cards, rows, tour, presented, crossed>>
\* loadAdminCards
ServeCards ==
  /\ reload.st = "asked" /\ reload' = [st |-> "ok", rows |-> rows]
  /\ UNCHANGED <<modal, ndef, cool, asking, puts, cards, rows, tour, presented, crossed>>
HearCards ==
  /\ reload.st = "ok" /\ reload' = NoLoad /\ cards' = reload.rows
  /\ UNCHANGED <<modal, ndef, cool, asking, puts, rows, tour, presented, crossed>>

ScanNext ==
  \/ \E mode \in {"SEARCH", "REGISTER"} : Open(mode)
  \/ SwitchNfc \/ SwitchQr \/ Toggle \/ Flip \/ Cancel \/ ConfirmSearch \/ Register
  \/ \E a \in asking : Granted(a) \/ Played(a) \/ Refused(a)
  \/ ReaderStarts \/ \E reader \in {"nfc", "qr"} : Rested(reader)
  \/ \E c \in Cards : NdefReading(c) \/ AppReading(c) \/ HidReading(c)
  \/ \E c \in Codes : FrameRead(c) \/ NativeRead(c)
  \/ \E p \in puts : ServePut(p) \/ LosePut(p) \/ HearPut(p)
  \/ CardsEvent \/ ServeCards \/ HearCards

ScanSpec == Init /\ [][ScanNext]_scanVars

-------------------------------------------------------------------------------
(* Properties. They leave out pages on which a camera was stopped, or asked *)
(* for again, before the one that was asked for scanned: such a camera stays*)
(* on, and what it sees goes into the field of the next dialog.             *)

\* What is registered for a member has been presented to a contact reader in the very
\* dialog that was opened for him (admin.js:1447, 1453). A code that came from a camera
\* would take the code of its owner away (main.py:866).
RegistersPresented ==
  [][\A p \in puts' \ puts : p.answer = "none" /\ ~crossed => p.uid \in presented]_scanVars

===============================================================================
