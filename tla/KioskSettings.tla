----------------------------- MODULE KioskSettings -----------------------------
(***************************************************************************)
(* What a kiosk offers: the products assigned to it and the one that it    *)
(* takes by default, which an administrator changes in the kiosk's detail  *)
(* and somebody at the kiosk in its own settings, and the catalogue behind *)
(* them. Both save whatever is tapped at once, without a button.           *)
(***************************************************************************)
EXTENDS Naturals, FiniteSets

CONSTANTS
  Products, None,
  OnSale,       \* what is in the catalogue at first
  Plans         \* taps, changes elsewhere, faults, signals that arrive, polls and returns
                \* still to come

\* What the constants have to be.
SettingsConstants ==
  /\ None \notin Products /\ OnSale \subseteq Products
  /\ Plans \subseteq [taps : Nat, own : Nat, others : Nat, faults : Nat, toPage : Nat,
             toKiosk : Nat, polls : Nat]

VARIABLES
  row,          \* the kiosk's row in kiosk_devices
  sold,         \* the active products
  entry,        \* the kiosk in the page's kiosks
  products,     \* the page's products
  view, selected,       \* the view, and whether selectedKioskId is set
  form,         \* the default product that the detail shows
  question,     \* the confirmation that is asked for
  device,       \* the kiosk's currentAssignedProducts, currentDefaultProductId, products
  ticks, pick,  \* the products and the default that the kiosk's settings show
  requests,     \* requests on their way
  news,         \* refresh signals on their way
  left,
  calm,         \* history: nothing has come between the page and the server since the
                \* list was last loaded
  orderly       \* history: nor between the kiosk and the server since its last refresh

server == <<row, sold>>
detail == <<view, selected, form, question>>
admin == <<entry, products, detail>>
kiosk == <<device, ticks, pick>>
settingsVars == <<server, admin, kiosk, requests, news, left, calm, orderly>>

Choices == Products \cup {None}
Row == [there : BOOLEAN, menu : SUBSET Products, default : Choices]
OfPage == {"save", "remove", "list", "status", "catalog", "sell", "unsell"}
OfKiosk == {"sync", "fetch", "offer"}
Blank == [there |-> FALSE, menu |-> {}, default |-> None]

SettingsTypeOK ==
  /\ row \in Row /\ sold \subseteq Products /\ entry \in Row /\ products \subseteq Products
  /\ view \in {"tab", "detail", "away"} /\ selected \in BOOLEAN /\ form \in Choices
  /\ question \in {"none", "remove", "unsell"} \X Choices
  /\ device \in [menu : SUBSET Products, default : Choices, products : SUBSET Products]
  /\ ticks \subseteq Products /\ pick \in Choices
  /\ requests \subseteq [op : OfPage \cup OfKiosk, set : Row, product : Choices, mine : BOOLEAN,
                         answer : {"none", "ok", "refused", "lost"}, list : SUBSET Products]
  /\ news \in [page : Nat, kiosk : Nat] /\ calm \in BOOLEAN /\ orderly \in BOOLEAN

NoQuestion == <<"none", None>>
Among(d, S) == IF d \in S THEN d ELSE None

Init ==
  /\ row \in {[there |-> TRUE, menu |-> m, default |-> None] : m \in SUBSET OnSale}
  /\ sold = OnSale /\ entry = row /\ products = sold
  /\ view = "tab" /\ selected = FALSE /\ form = None /\ question = NoQuestion
  /\ device = [menu |-> row.menu, default |-> None, products |-> sold]
  /\ ticks = row.menu /\ pick = None
  /\ requests = {} /\ news = [page |-> 0, kiosk |-> 0] /\ left \in Plans
  /\ calm = TRUE /\ orderly = TRUE

-------------------------------------------------------------------------------
(* The administrator's page.                                               *)

Ask(op) == [op |-> op, set |-> Blank, product |-> None, mine |-> TRUE, answer |-> "none", list |-> {}]
AskFor(op, s) == [Ask(op) EXCEPT !.set = s]
Spend(k) == left[k] > 0 /\ left' = [left EXCEPT ![k] = @ - 1]
Free == question = NoQuestion
\* A save or a load of the list is under way.
Busy(R) == \E c \in R : c.op \in {"save", "list"}

\* switchAdminView: the kiosks' tab loads the list, which is then loaded on every signal.
ToTab(R) ==
  /\ view' = "tab" /\ requests' = R \cup {Ask("list")}
  /\ calm' = ~Busy(R)

OpenKioskDetail ==
  /\ Free /\ Spend("taps") /\ view = "tab" /\ entry.there
  /\ view' = "detail" /\ selected' = TRUE /\ form' = Among(entry.default, products)
  /\ UNCHANGED <<server, entry, products, question, kiosk, requests, news, calm, orderly>>

\* closeKioskDetail; a tap on a tab leaves the kiosk selected.
LeaveDetail ==
  /\ Free /\ Spend("taps") /\ selected' \in {selected, FALSE}
  /\ \/ view # "tab" /\ ToTab(requests)
     \/ view # "away" /\ selected' = selected /\ view' = "away" /\ UNCHANGED <<requests, calm>>
  /\ UNCHANGED <<server, entry, products, form, question, kiosk, news, orderly>>

\* autoSaveKiosk: the products as they are in the list, the default as the detail shows it.
AutoSaveKiosk(menu, default) ==
  /\ requests' = requests \cup {AskFor("save", [there |-> TRUE, menu |-> menu, default |-> default])}
  /\ calm' = (calm /\ ~Busy(requests))

Flip(S, p) == IF p \in S THEN S \ {p} ELSE S \cup {p}
InDetail == Free /\ view = "detail" /\ selected /\ entry.there

ToggleKioskProduct(p) ==
  /\ InDetail /\ Spend("taps") /\ p \in products
  /\ entry' = [entry EXCEPT !.menu = Flip(@, p)]
  /\ AutoSaveKiosk(entry'.menu, form)
  /\ UNCHANGED <<server, products, detail, kiosk, news, orderly>>

ChooseDefault(d) ==
  /\ InDetail /\ Spend("taps") /\ d \in products \cup {None} /\ d # form
  /\ form' = d /\ AutoSaveKiosk(entry.menu, d)
  /\ UNCHANGED <<server, entry, products, view, selected, question, kiosk, news, orderly>>

\* confirmDeleteKiosk, deleteMenuItem
AskToRemove ==
  /\ InDetail /\ Spend("taps")
  /\ question' \in {<<"remove", None>>} \cup {<<"unsell", p>> : p \in products}
  /\ UNCHANGED <<server, entry, products, view, selected, form, kiosk, requests, news, calm, orderly>>

Answered ==
  /\ question # NoQuestion /\ question' = NoQuestion
  /\ requests' \in {requests, requests \cup {[Ask(question[1]) EXCEPT !.product = question[2]]}}
  /\ UNCHANGED <<server, entry, products, view, selected, form, kiosk, news, left, calm, orderly>>

\* saveMenuAdd: its button waits for the answer.
SaveMenuAdd(p) ==
  /\ InDetail /\ Spend("taps") /\ p \notin sold /\ ~\E c \in requests : c.op = "sell"
  /\ requests' = requests \cup {[Ask("sell") EXCEPT !.product = p]}
  /\ UNCHANGED <<server, admin, kiosk, news, calm, orderly>>

\* handleAdminRefreshEvent: the list while its tab is shown, else no more than who is online.
AdminRefresh ==
  /\ news.page > 0 /\ news' = [news EXCEPT !.page = @ - 1]
  /\ \/ view = "tab" /\ requests' = requests \cup {Ask("list")} /\ calm' = ~Busy(requests)
     \/ view # "tab" /\ requests' = requests \cup {Ask("status")} /\ UNCHANGED calm
  /\ UNCHANGED <<server, admin, kiosk, left, orderly>>

\* startKioskListPolling
Poll ==
  /\ Spend("polls") /\ view = "tab" /\ requests' = requests \cup {Ask("status")}
  /\ UNCHANGED <<server, admin, kiosk, news, calm, orderly>>

-------------------------------------------------------------------------------
(* The page hears an answer.                                               *)

Ok(c) == c.answer = "ok"
Without(c) == requests \ {c}

\* Mutant of HearSave: the list keeps the default it had.
HearSaveForgets(c) ==
  /\ c.op = "save" /\ c.answer # "none"
  /\ entry' = entry /\ requests' = Without(c) /\ calm' = (calm /\ Ok(c))
  /\ UNCHANGED <<server, products, detail, kiosk, news, left, orderly>>

\* The rest of autoSaveKiosk: what it has saved becomes part of the list, unless another
\* list has taken its place. A save that failed leaves on the screen what was tapped.
HearSave(c) ==
  /\ c.op = "save" /\ c.answer # "none"
  /\ entry' = IF Ok(c) /\ c.mine THEN [entry EXCEPT !.default = c.set.default] ELSE entry
  /\ requests' = Without(c) /\ calm' = (calm /\ Ok(c))
  /\ UNCHANGED <<server, products, detail, kiosk, news, left, orderly>>

\* The list is another now: what older saves bring is for the one before.
Orphaned(R) == {[c EXCEPT !.mine = c.mine /\ c.op # "save"] : c \in R}

\* loadKiosks: the detail of a kiosk that is gone closes.
HearList(c) ==
  /\ c.op = "list" /\ c.answer # "none"
  /\ \/ /\ ~Ok(c) /\ requests' = Without(c) /\ calm' = FALSE
        /\ UNCHANGED <<entry, selected, view, form>>
     \/ /\ Ok(c) /\ entry' = c.set /\ selected /\ ~c.set.there
        /\ selected' = FALSE /\ ToTab(Orphaned(Without(c))) /\ UNCHANGED form
     \/ /\ Ok(c) /\ entry' = c.set /\ (selected => c.set.there)
        /\ form' = IF selected THEN Among(c.set.default, products) ELSE form
        /\ requests' = Orphaned(Without(c)) /\ UNCHANGED <<selected, view, calm>>
  /\ UNCHANGED <<server, products, question, kiosk, news, left, orderly>>

\* loadKioskStatuses: a kiosk that the list lacks makes it load the list; if anybody has
\* gone on or off line, the detail is drawn again from the list.
HearStatus(c) ==
  /\ c.op = "status" /\ c.answer # "none"
  /\ IF Ok(c) /\ c.set.there /\ ~entry.there
     THEN /\ requests' = Without(c) \cup {Ask("list")} /\ calm' = ~Busy(requests)
          /\ UNCHANGED form
     ELSE /\ form' \in {form} \cup
                 (IF Ok(c) /\ selected THEN {Among(entry.default, products)} ELSE {})
          /\ requests' = Without(c) /\ calm' = (calm /\ form' = form)
  /\ UNCHANGED <<server, entry, products, view, selected, question, kiosk, news, left, orderly>>

\* loadAdminProducts, after the catalogue was changed here.
HearCatalog(c) ==
  /\ c.op = "catalog" /\ c.answer # "none"
  /\ products' = IF Ok(c) THEN c.list ELSE products
  /\ form' = IF Ok(c) /\ selected THEN Among(entry.default, products') ELSE form
  /\ calm' = (calm /\ (form' = form \/ ~Busy(requests)))
  /\ requests' = Without(c)
  /\ UNCHANGED <<server, entry, view, selected, question, kiosk, news, left, orderly>>

\* The rest of confirmDeleteKiosk, deleteMenuItem and saveMenuAdd.
HearChange(c) ==
  /\ c.op \in {"remove", "sell", "unsell"} /\ c.answer # "none"
  /\ \/ ~Ok(c) /\ requests' = Without(c) /\ UNCHANGED <<view, selected, calm>>
     \/ Ok(c) /\ c.op = "remove" /\ selected' = FALSE /\ ToTab(Without(c))
     \/ /\ Ok(c) /\ c.op # "remove" /\ requests' = Without(c) \cup {Ask("catalog")}
        /\ UNCHANGED <<view, selected, calm>>
  /\ UNCHANGED <<server, entry, products, form, question, kiosk, news, left, orderly>>

-------------------------------------------------------------------------------
(* The kiosk.                                                              *)

\* A request of the kiosk is under way.
Waiting(R) == \E c \in R : c.op \in OfKiosk

\* saveKioskDeviceSettings: what the settings show.
SaveKioskDeviceSettings(menu, default) ==
  /\ requests' = requests \cup {AskFor("sync", [there |-> TRUE, menu |-> menu, default |-> default])}
  /\ orderly' = (orderly /\ ~Waiting(requests))

ToggleKioskAssignedProduct(p) ==
  /\ Spend("own") /\ p \in device.products
  /\ ticks' = Flip(ticks, p) /\ SaveKioskDeviceSettings(ticks', pick)
  /\ UNCHANGED <<server, admin, device, pick, news, calm>>

PickDefault(d) ==
  /\ Spend("own") /\ d \in device.products \cup {None} /\ d # pick
  /\ pick' = d /\ SaveKioskDeviceSettings(ticks, d)
  /\ UNCHANGED <<server, admin, device, ticks, news, calm>>

\* updateDeviceHeaderUI: no default leaves the choice as it is.
HeaderPick(d, options) == IF d = None THEN pick ELSE Among(d, options)

HearSync(c) ==
  /\ c.op = "sync" /\ c.answer # "none" /\ requests' = Without(c)
  /\ IF Ok(c)
     THEN /\ device' = [device EXCEPT !.menu = c.set.menu, !.default = c.set.default]
          /\ pick' = HeaderPick(c.set.default, device.products) /\ UNCHANGED orderly
     ELSE orderly' = FALSE /\ UNCHANGED <<device, pick>>
  /\ UNCHANGED <<server, admin, ticks, news, left, calm>>

\* handleKioskMenuRefresh, on a signal or when the kiosk's page is shown again.
HandleKioskMenuRefresh ==
  /\ \/ news.kiosk > 0 /\ news' = [news EXCEPT !.kiosk = @ - 1] /\ UNCHANGED left
     \/ Spend("polls") /\ UNCHANGED news
  /\ requests' = requests \cup {Ask("fetch")} /\ orderly' = ~Waiting(requests)
  /\ UNCHANGED <<server, admin, kiosk, calm>>

\* Mutant of HearFetch: the products are not loaded again.
HearFetchOnly(c) ==
  /\ c.op = "fetch" /\ c.answer # "none" /\ requests' = Without(c)
  /\ orderly' = (orderly /\ Ok(c))
  /\ device' = IF Ok(c) THEN [device EXCEPT !.menu = c.set.menu, !.default = c.set.default] ELSE device
  /\ UNCHANGED <<server, admin, ticks, pick, news, left, calm>>

\* refreshDeviceSettings, whose failure the products do not mind.
HearFetch(c) ==
  /\ c.op = "fetch" /\ c.answer # "none" /\ requests' = Without(c) \cup {Ask("offer")}
  /\ IF Ok(c)
     THEN /\ device' = [device EXCEPT !.menu = c.set.menu, !.default = c.set.default]
          /\ pick' = HeaderPick(c.set.default, device.products) /\ UNCHANGED orderly
     ELSE orderly' = FALSE /\ UNCHANGED <<device, pick>>
  /\ UNCHANGED <<server, admin, ticks, news, left, calm>>

\* loadProducts, renderKioskAssignedChecklist: the settings are drawn again.
HearOffer(c) ==
  /\ c.op = "offer" /\ c.answer # "none" /\ requests' = Without(c)
  /\ IF Ok(c)
     THEN /\ device' = [device EXCEPT !.products = c.list]
          /\ ticks' = device.menu \cap c.list /\ pick' = Among(device.default, c.list)
          /\ UNCHANGED orderly
     ELSE orderly' = FALSE /\ UNCHANGED kiosk
  /\ UNCHANGED <<server, admin, news, left, calm>>

-------------------------------------------------------------------------------
(* The server.                                                             *)

\* notify_admins, and notify_kiosk or notify_all_kiosks: a signal misses whose line is down
\* or with another worker. (b is what is left of the budgets, for the bound.)
Tell(b) ==
  \E p \in {0, 1}, k \in {0, 1} :
    /\ p <= b.toPage /\ k <= b.toKiosk
    /\ left' = [b EXCEPT !.toPage = @ - p, !.toKiosk = @ - k]
    /\ news' = [page |-> news.page + p, kiosk |-> news.kiosk + k]
    /\ orderly' = (orderly /\ k = 1)

Reply(c, a) == (requests \ {c}) \cup {[c EXCEPT !.answer = a]}

\* admin_update_kiosk, admin_delete_kiosk
ServeKiosk(c) ==
  /\ c.op \in {"save", "remove"} /\ c.answer = "none"
  /\ \/ ~row.there /\ requests' = Reply(c, "refused") /\ UNCHANGED <<row, news, left, orderly>>
     \/ row.there /\ row' = (IF c.op = "save" THEN c.set ELSE Blank)
        /\ requests' = Reply(c, "ok") /\ Tell(left)
  /\ UNCHANGED <<sold, admin, kiosk, calm>>

\* create_product, delete_product: a product that is no longer sold stays assigned.
ServeProduct(c) ==
  /\ c.op \in {"sell", "unsell"} /\ c.answer = "none"
  /\ sold' = IF c.op = "sell" THEN sold \cup {c.product} ELSE sold \ {c.product}
  /\ requests' = Reply(c, "ok") /\ Tell(left)
  /\ UNCHANGED <<row, admin, kiosk, calm>>

\* sync_kiosk_device: a kiosk without a row gets one, no default leaves the default as it
\* is, and nobody is told.
ServeSync(c) ==
  /\ c.op = "sync" /\ c.answer = "none"
  /\ row' = [c.set EXCEPT !.default = IF @ = None THEN row.default ELSE @]
  /\ requests' = Reply(c, "ok") /\ calm' = FALSE
  /\ UNCHANGED <<sold, admin, kiosk, news, left, orderly>>

\* admin_list_kiosks, admin_list_kiosk_statuses, get_kiosk_device, get_products
ServeRead(c) ==
  /\ c.op \in {"list", "status", "fetch", "catalog", "offer"} /\ c.answer = "none"
  /\ requests' = (requests \ {c}) \cup
       {[c EXCEPT !.answer = "ok",
                  !.set = IF c.op \in {"list", "fetch"} THEN row
                          ELSE IF c.op = "status" THEN [Blank EXCEPT !.there = row.there] ELSE Blank,
                  !.list = IF c.op \in {"catalog", "offer"} THEN sold ELSE {}]}
  /\ UNCHANGED <<server, admin, kiosk, news, left, calm, orderly>>

\* Another administrator changes or deletes the kiosk, or the catalogue.
Elsewhere ==
  /\ left.others > 0 /\ Tell([left EXCEPT !.others = @ - 1]) /\ calm' = FALSE
  /\ \/ row.there /\ UNCHANGED sold
        /\ row' \in {Blank} \cup {[row EXCEPT !.menu = Flip(@, p)] : p \in sold}
                            \cup {[row EXCEPT !.default = d] : d \in sold \cup {None}}
     \/ sold' \in {Flip(sold, p) : p \in Products} /\ UNCHANGED row
  /\ UNCHANGED <<admin, kiosk, requests>>

\* A request or its answer is lost.
LoseRequest(c) ==
  /\ c.answer # "lost" /\ Spend("faults")
  /\ requests' = Reply(c, "lost")
  /\ UNCHANGED <<server, admin, kiosk, news, calm, orderly>>

ByAdmin ==
  \/ OpenKioskDetail \/ LeaveDetail \/ AskToRemove \/ Answered \/ AdminRefresh \/ Poll
  \/ \E p \in Products : ToggleKioskProduct(p) \/ SaveMenuAdd(p)
  \/ \E d \in Choices : ChooseDefault(d)
ByKiosk ==
  \/ HandleKioskMenuRefresh
  \/ \E p \in Products : ToggleKioskAssignedProduct(p)
  \/ \E d \in Choices : PickDefault(d)
Traffic ==
  \E c \in requests :
    \/ ServeKiosk(c) \/ ServeProduct(c) \/ ServeSync(c) \/ ServeRead(c) \/ LoseRequest(c)
    \/ HearSave(c) \/ HearList(c) \/ HearStatus(c) \/ HearCatalog(c) \/ HearChange(c)
    \/ HearSync(c) \/ HearFetch(c) \/ HearOffer(c)
SettingsNext == ByAdmin \/ ByKiosk \/ Traffic \/ Elsewhere
SettingsSpec == Init /\ [][SettingsNext]_settingsVars
-------------------------------------------------------------------------------
\* At rest the detail shows the products and the default that the server has, although
\* nothing is loaded after a save: unless a save failed or two were under way, the list
\* came or the detail was drawn again while one was, or somebody else has changed the
\* kiosk since the list was loaded.
AgreesAtRest ==
  calm /\ ~Busy(requests) /\ row.there =>
    /\ entry = row
    /\ selected => form = Among(row.default, products)

\* At rest the kiosk offers the products that it is assigned, of those that are sold, and
\* its settings show them: unless a signal or an answer did not reach it, or two of its
\* requests were under way at once.
DeviceFollows ==
  orderly /\ ~Waiting(requests) /\ news.kiosk = 0 /\ row.there =>
    device.menu = row.menu /\ device.products = sold /\ ticks = row.menu \cap sold

\* What is taken away as the default at the kiosk is taken away in the server (kiosk.js:564).
\* It is not: the server takes no default for no change.
DefaultIsStored ==
  orderly /\ ~Waiting(requests) /\ news.kiosk = 0 /\ row.there => device.default = row.default

===============================================================================
