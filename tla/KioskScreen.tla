------------------------------ MODULE KioskScreen ------------------------------
(***************************************************************************)
(* The customers' screen of a kiosk (kiosk.js): the cart, the payment that *)
(* a tapped card starts, the popup with its result, the question whether a *)
(* member who has just paid wants to pay again, the refresh of the menu,   *)
(* and the reload of the page when new code was deployed (version-check.js).*)
(* The server behind it keeps the menu of the kiosk and the cards that     *)
(* paid in the last 30 seconds; a payment handler looks for the card among *)
(* them before it takes the row lock under which it charges. JavaScript    *)
(* runs one callback at a time, so an action is the code between two awaits.*)
(***************************************************************************)
EXTENDS Integers, FiniteSets

CONSTANTS
  Products,
  Menus,        \* menus an administrator may configure: [default, items]
  NoProduct,    \* no default product, null
  Cards,
  NoCard,
  Refreshes,    \* refreshes of the menu that may overlap
  MaxQty,       \* quantity of one product (99 in the code)
  Slots,        \* for requests the page gives up while the server has them
  Lossy         \* whether requests and answers are lost

ASSUME KioskAssumption ==
  /\ NoProduct \notin Products /\ NoCard \notin Cards
  /\ Menus \subseteq [default : Products \cup {NoProduct}, items : SUBSET Products]
  /\ Menus # {}
  /\ MaxQty \in Nat \ {0} /\ IsFiniteSet(Slots) /\ Lossy \in BOOLEAN

VARIABLES
  menu,         \* server: the device's default_product_id and the products
  recent,       \* server: cards of members with a SUCCESS in the last 30 s
  late,         \* payment requests the page has given up, handled or not
  default,      \* currentDefaultProductId
  products,     \* products
  cart,         \* cart: quantity of each product, 0 when it is not in it
  locked,       \* isKioskPaymentProcessing
  modal,        \* payment-modal: closed, or the result it shows
  asked,        \* _repeatPayCardUid, the card repeat-pay-modal asks about
  call,         \* the payment request the page waits for
  refresh,      \* handleKioskMenuRefresh calls and where they wait
  registered,   \* kioskRegistered
  update,       \* version-check.js: updateAvailable
  consent,      \* history: forced requests of a card not yet used
  owed,         \* history: SUCCESS answers not yet shown
  unasked       \* history: second charges of a card in 30 s nobody confirmed

server == <<menu, recent, late>>
screen == <<default, products, cart, locked, modal, asked, registered, update>>
history == <<consent, owed, unasked>>
vars == <<server, screen, call, refresh, history>>

EmptyCart == [p \in Products |-> 0]
NoCall == [st |-> "none", card |-> NoCard, force |-> FALSE, ans |-> "none"]
Idle == [at |-> "idle", default |-> NoProduct, items |-> {}]

Answers == {"CONFIRM", "SUCCESS", "BALANCE", "ERROR"}
CallType == {NoCall} \cup
  [st : {"sent", "checked", "served"}, card : Cards, force : BOOLEAN, ans : Answers \cup {"none"}]
RefreshType == [at : {"idle", "settings", "gap", "products"},
                default : Products \cup {NoProduct}, items : SUBSET Products]

\* Every variable has its type, and the page waits for a payment exactly while
\* isKioskPaymentProcessing is set: no path through triggerKioskPayment leaves
\* the lock behind or drops it early.
TypeOK ==
  /\ menu \in Menus /\ recent \subseteq Cards
  /\ late \in [Slots -> CallType]
  /\ default \in Products \cup {NoProduct} /\ products \subseteq Products
  /\ cart \in [Products -> 0..MaxQty]
  /\ locked \in BOOLEAN /\ modal \in {"closed", "paid", "failed"}
  /\ asked \in Cards \cup {NoCard}
  /\ call \in CallType /\ (locked <=> call # NoCall)
  /\ refresh \in [Refreshes -> RefreshType]
  /\ registered \in BOOLEAN /\ update \in BOOLEAN
  /\ consent \in [Cards -> Nat] /\ owed \in Nat /\ unasked \in [Cards -> Nat]

\* A page that has just been loaded: initDeviceUUID asks for the settings.
FreshPage(r) ==
  [s \in Refreshes |->
     IF s = r THEN [at |-> "settings", default |-> menu.default, items |-> {}] ELSE Idle]

Init ==
  /\ menu \in Menus /\ recent = {} /\ late = [s \in Slots |-> NoCall]
  /\ default = NoProduct /\ products = {} /\ cart = EmptyCart
  /\ locked = FALSE /\ modal = "closed" /\ asked = NoCard
  /\ call = NoCall
  /\ \E r \in Refreshes : refresh = FreshPage(r)
  /\ registered = FALSE /\ update = FALSE
  /\ consent = [c \in Cards |-> 0] /\ owed = 0 /\ unasked = [c \in Cards |-> 0]

-------------------------------------------------------------------------------
\* resetCart: the default product, if the page knows it, or nothing.
ResetCart(d, ps) == [p \in Products |-> IF p = d /\ p \in ps THEN 1 ELSE 0]

\* updateQty: a touch on + or -. The popups cover the whole screen, and so does
\* the registration dialogue.
UpdateQty(p, delta) ==
  /\ registered /\ modal = "closed" /\ asked = NoCard
  /\ p \in products
  /\ cart[p] + delta \in 0..MaxQty
  /\ cart' = [cart EXCEPT ![p] = @ + delta]
  /\ UNCHANGED <<server, default, products, locked, modal, asked, registered, update,
                 call, refresh, history>>

\* Mutant of Accepting: without isKioskPaymentProcessing.
AcceptingWhileProcessing == modal = "closed"

\* The guards of triggerKioskPayment: a tap is ignored while a payment is in
\* flight or its result is shown. The question about a repeat is no guard.
Accepting == ~locked /\ modal = "closed"

\* triggerKioskPayment up to its fetch: an empty cart only shows a hint
\* (flashNoMenuHint, which resets the cart), else the page waits for an answer.
Trigger(c, force) ==
  IF cart = EmptyCart
  THEN /\ cart' = ResetCart(default, products)
       /\ UNCHANGED <<locked, call>>
  ELSE /\ locked' = TRUE
       /\ call' = [st |-> "sent", card |-> c, force |-> force, ans |-> "none"]
       /\ UNCHANGED cart

\* A card on the reader, or a QR code before the camera or the scanner.
Tap(c) ==
  /\ Accepting
  /\ Trigger(c, FALSE)
  /\ UNCHANGED <<server, default, products, modal, asked, registered, update,
                 refresh, history>>

\* Mutant of CloseRepeatPayModal: a touch beside the popup counts as a yes.
CloseRepeatPayModalAlwaysPays(confirmed) ==
  /\ asked # NoCard
  /\ asked' = NoCard
  /\ IF Accepting THEN Trigger(asked, TRUE) ELSE UNCHANGED <<cart, locked, call>>
  /\ consent' = IF confirmed /\ Accepting /\ cart # EmptyCart
                THEN [consent EXCEPT ![asked] = @ + 1] ELSE consent
  /\ UNCHANGED <<server, default, products, modal, registered, update,
                 refresh, owed, unasked>>

\* closeRepeatPayModal: yes pays with force_confirm for the cart of this moment,
\* if the page accepts a payment at all; no only closes the question.
CloseRepeatPayModal(confirmed) ==
  /\ asked # NoCard
  /\ asked' = NoCard
  /\ IF confirmed /\ Accepting
     THEN Trigger(asked, TRUE)
     ELSE UNCHANGED <<cart, locked, call>>
  /\ consent' = IF confirmed /\ Accepting /\ cart # EmptyCart
                THEN [consent EXCEPT ![asked] = @ + 1] ELSE consent
  /\ UNCHANGED <<server, default, products, modal, registered, update,
                 refresh, owed, unasked>>

-------------------------------------------------------------------------------
(* The payment handler, in a thread of its own for each request.           *)

Pending(q) == q.st \in {"sent", "checked"}
Reply(q, a) == [q EXCEPT !.st = "served", !.ans = a]

\* A forced request uses up one yes.
Spent(q) == IF q.force /\ consent[q.card] > 0
            THEN [consent EXCEPT ![q.card] = @ - 1] ELSE consent

\* Without force_confirm a member who paid in the last 30 seconds is only asked to
\* confirm. No lock is held: what is found need not be true any more when the
\* handler charges. r is what becomes of request q.
Check(q, r) ==
  /\ q.st = "sent" /\ ~q.force
  /\ r = IF q.card \in recent THEN Reply(q, "CONFIRM") ELSE [q EXCEPT !.st = "checked"]
  /\ UNCHANGED <<recent, consent, unasked>>

MayCharge(q) == q.st = "checked" \/ (q.st = "sent" /\ q.force)

\* BALANCE is "not enough credit"; ERROR is every other refusal (an unknown card,
\* an inactive member, ...).
Refuse(q, r) ==
  /\ r \in {Reply(q, "ERROR")} \cup (IF MayCharge(q) THEN {Reply(q, "BALANCE")} ELSE {})
  /\ consent' = Spent(q)
  /\ UNCHANGED <<recent, unasked>>

\* Here ERROR is a failure after the commit, in a broadcast or push.
Charge(q, r) ==
  /\ MayCharge(q)
  /\ r \in {Reply(q, "SUCCESS"), Reply(q, "ERROR")}
  /\ recent' = recent \cup {q.card}
  /\ consent' = Spent(q)
  /\ unasked' = IF q.card \in recent /\ (q.force => consent[q.card] = 0)
                THEN [unasked EXCEPT ![q.card] = @ + 1] ELSE unasked

Handle(q, r) == Pending(q) /\ (Check(q, r) \/ Refuse(q, r) \/ Charge(q, r))

Serve ==
  /\ Handle(call, call')
  /\ owed' = IF call'.ans = "SUCCESS" THEN owed + 1 ELSE owed
  /\ UNCHANGED <<menu, late, screen, refresh>>

\* A request whose page has given up is handled after all; nobody hears the answer.
ServeLate(s) ==
  /\ \E r \in CallType :
       /\ Handle(late[s], r)
       /\ late' = [late EXCEPT ![s] = [r EXCEPT !.ans = "none"]]
  /\ UNCHANGED <<menu, screen, call, refresh, owed>>

\* The 30 seconds since a member's last payment are over.
Expire(c) ==
  /\ c \in recent
  /\ recent' = recent \ {c}
  /\ UNCHANGED <<menu, late, screen, call, refresh, history>>

\* triggerKioskPayment after its fetch.
Confirm ==
  /\ call.ans = "CONFIRM"
  /\ asked' = call.card
  /\ locked' = FALSE /\ call' = NoCall
  /\ UNCHANGED <<server, default, products, cart, modal, registered, update,
                 refresh, history>>

ShowPaid ==
  /\ call.ans = "SUCCESS"
  /\ modal' = "paid" /\ owed' = owed - 1
  /\ cart' = ResetCart(default, products)
  /\ locked' = FALSE /\ call' = NoCall
  /\ UNCHANGED <<server, default, products, asked, registered, update,
                 refresh, consent, unasked>>

ShowRefused ==
  /\ call.ans \in {"BALANCE", "ERROR"}
  /\ modal' = "failed"
  /\ cart' = IF call.ans = "BALANCE" THEN ResetCart(default, products) ELSE cart
  /\ locked' = FALSE /\ call' = NoCall
  /\ UNCHANGED <<server, default, products, asked, registered, update, refresh, history>>

\* Mutant of ShowLost: a network error leaves without releasing the lock.
ShowLostKeepsLock ==
  /\ Lossy /\ locked /\ call # NoCall
  /\ modal' = "failed"
  /\ call' = NoCall
  /\ UNCHANGED <<server, default, products, cart, locked, asked, registered, update,
                 refresh, history>>

\* The catch branch: the request or its answer was lost. The request may have been
\* handled, never arrives, or is or will be in the hands of the server.
ShowLost ==
  /\ Lossy /\ locked
  /\ modal' = "failed"
  /\ locked' = FALSE /\ call' = NoCall
  /\ owed' = IF call.ans = "SUCCESS" THEN owed - 1 ELSE owed
  /\ \/ /\ call.st = "served" /\ UNCHANGED <<late, consent>>
     \/ call.st = "sent" /\ consent' = Spent(call) /\ UNCHANGED late
     \/ /\ Pending(call) /\ UNCHANGED consent
        /\ \E s \in Slots : late[s] = NoCall /\ late' = [late EXCEPT ![s] = call]
  /\ UNCHANGED <<menu, recent, default, products, cart, asked, registered, update,
                 refresh, unasked>>

Answer == Confirm \/ ShowPaid \/ ShowRefused \/ ShowLost

\* closeModal: the timer of three seconds, or a touch anywhere.
CloseModal ==
  /\ modal # "closed"
  /\ modal' = "closed"
  /\ cart' = ResetCart(default, products)
  /\ UNCHANGED <<server, default, products, locked, asked, registered, update,
                 call, refresh, history>>

-------------------------------------------------------------------------------
\* An administrator changes the default product or the products.
ChangeMenu(m) ==
  /\ m # menu /\ menu' = m
  /\ UNCHANGED <<recent, late, screen, call, refresh, history>>

\* handleKioskMenuRefresh, on a "menu" message or when the page becomes visible
\* again. The settings are read when the request is made.
HandleKioskMenuRefresh(r) ==
  /\ registered /\ refresh[r] = Idle
  /\ refresh' = [refresh EXCEPT ![r] = [Idle EXCEPT !.at = "settings", !.default = menu.default]]
  /\ UNCHANGED <<server, screen, call, history>>

\* refreshDeviceSettings after its fetch; at the first load it decides whether
\* the kiosk is registered.
SettingsArrive(r) ==
  /\ refresh[r].at = "settings"
  /\ default' = refresh[r].default
  /\ registered' = TRUE
  /\ refresh' = [refresh EXCEPT ![r] = [Idle EXCEPT !.at = "gap"]]
  /\ UNCHANGED <<server, products, cart, locked, modal, asked, update, call, history>>

\* A failed fetch counts as "not registered": the first load ends in the
\* registration dialogue, a refresh goes on with the settings it has.
SettingsLost(r) ==
  /\ Lossy /\ refresh[r].at = "settings"
  /\ refresh' = [refresh EXCEPT ![r] =
                   IF registered THEN [Idle EXCEPT !.at = "gap"] ELSE Idle]
  /\ UNCHANGED <<server, screen, call, history>>

\* loadProducts up to its fetch, which reads the products.
LoadProducts(r) ==
  /\ refresh[r].at = "gap"
  /\ refresh' = [refresh EXCEPT ![r] = [Idle EXCEPT !.at = "products", !.items = menu.items]]
  /\ UNCHANGED <<server, screen, call, history>>

\* loadProducts after its fetch.
ProductsArrive(r) ==
  /\ refresh[r].at = "products"
  /\ products' = refresh[r].items
  /\ cart' = ResetCart(default, products')
  /\ refresh' = [refresh EXCEPT ![r] = Idle]
  /\ UNCHANGED <<server, default, locked, modal, asked, registered, update, call, history>>

ProductsLost(r) ==
  /\ Lossy /\ refresh[r].at = "products"
  /\ refresh' = [refresh EXCEPT ![r] = Idle]
  /\ UNCHANGED <<server, screen, call, history>>

-------------------------------------------------------------------------------
\* checkForUpdate sees new code.
SeeUpdate ==
  /\ ~update /\ update' = TRUE
  /\ UNCHANGED <<server, default, products, cart, locked, modal, asked, registered,
                 call, refresh, history>>

\* Mutant of IsKioskIdleForReload: without isKioskPaymentProcessing.
IsKioskIdleForReloadCartOnly == cart = EmptyCart

\* isKioskIdleForReload and noModalOpen; the registration dialogue is a modal.
IsKioskIdleForReload == ~locked /\ cart = EmptyCart
NoModalOpen ==
  /\ modal = "closed" /\ asked = NoCard
  /\ registered \/ \E r \in Refreshes : refresh[r] # Idle

\* location.reload(): every variable of the page starts anew.
LoadPage ==
  /\ default' = NoProduct /\ products' = {} /\ cart' = EmptyCart
  /\ locked' = FALSE /\ modal' = "closed" /\ asked' = NoCard
  /\ call' = NoCall /\ registered' = FALSE /\ update' = FALSE
  /\ \E r \in Refreshes : refresh' = FreshPage(r)
  /\ UNCHANGED <<server, history>>

\* tryAutoReload.
Reload == update /\ NoModalOpen /\ IsKioskIdleForReload /\ LoadPage

\* registerKioskDevice: an administrator enters the PIN, the page is reloaded.
RegisterKioskDevice ==
  /\ ~registered /\ \A r \in Refreshes : refresh[r] = Idle
  /\ LoadPage

-------------------------------------------------------------------------------
Next ==
  \/ \E p \in Products, delta \in {-1, 1} : UpdateQty(p, delta)
  \/ \E c \in Cards : Tap(c) \/ Expire(c)
  \/ \E confirmed \in BOOLEAN : CloseRepeatPayModal(confirmed)
  \/ Serve \/ \E s \in Slots : ServeLate(s)
  \/ Answer \/ CloseModal
  \/ \E m \in Menus : ChangeMenu(m)
  \/ \E r \in Refreshes :
       \/ HandleKioskMenuRefresh(r) \/ SettingsArrive(r) \/ SettingsLost(r)
       \/ LoadProducts(r) \/ ProductsArrive(r) \/ ProductsLost(r)
  \/ SeeUpdate \/ Reload \/ RegisterKioskDevice

Spec == Init /\ [][Next]_vars

\* Handlers run, answers or network errors arrive, timers fire.
Fairness ==
  /\ WF_vars(Serve) /\ WF_vars(Answer) /\ WF_vars(CloseModal) /\ WF_vars(Reload)
  /\ \A r \in Refreshes :
       /\ WF_vars(SettingsArrive(r) \/ SettingsLost(r))
       /\ WF_vars(LoadProducts(r)) /\ WF_vars(ProductsArrive(r) \/ ProductsLost(r))
FairSpec == Spec /\ Fairness

-------------------------------------------------------------------------------
\* The cart holds only products the page has loaded, however a refresh that
\* takes one off the menu is interleaved with touches, payments and popups.
CartIsOnMenu == \A p \in Products : cart[p] > 0 => p \in products

\* Every payment answered with SUCCESS while the page waits for it is shown to the
\* customer as paid, once: no other tap, popup or refresh takes its place.
ChargesShown == owed = IF call.ans = "SUCCESS" THEN 1 ELSE 0

\* Requests of card c that the page gave up and the server handled nevertheless.
HandledLate(c) == {s \in Slots : late[s].card = c /\ late[s].st = "served"}

\* Charges of a member within 30 seconds of another one that nobody said yes to (a
\* yes counts for one charge) are at most as many as the requests for that member's
\* card that the page gave up and the server handled after all: two taps alone never
\* charge twice, the handler's check being without a lock or not.
UnaskedOnlyIfGivenUp == \A c \in Cards : unasked[c] <= Cardinality(HandledLate(c))

\* Loading the page anew never cuts off a payment, its result or a question.
ReloadCutsNothing ==
  [][registered /\ ~registered' =>
       call = NoCall /\ modal = "closed" /\ asked = NoCard]_vars

\* The screen takes cards again and again: no payment, popup or refresh keeps
\* it from doing so for ever.
TakesCardsAgain == []<>Accepting

\* version-check.js: a kiosk's page reloads itself once new code was deployed.
NewCodeLoads == update ~> ~update
===============================================================================
