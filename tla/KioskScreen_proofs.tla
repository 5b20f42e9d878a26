-------------------------- MODULE KioskScreen_proofs --------------------------
(***************************************************************************)
(* Theorems about KioskScreen for every set of products, menus, cards and  *)
(* overlapping refreshes, and any finite number of late requests.          *)
(***************************************************************************)
EXTENDS KioskScreen, FiniteSetTheorems, TLAPS

\* A request that was not handled has no answer, and one that passed the check is
\* not forced. (ChargesShown is part of the
\* invariant: it keeps owed from falling below zero.)
Unanswered ==
  /\ Pending(call) => call.ans = "none"
  /\ call.st = "checked" => ~call.force
  /\ \A s \in Slots : late[s].ans = "none" /\ (late[s].st = "checked" => ~late[s].force)

\* Before the first settings arrive nothing can be in the cart or in flight.
NotLoaded ==
  ~registered =>
    /\ products = {} /\ cart = EmptyCart /\ call = NoCall
    /\ \A r \in Refreshes : refresh[r].at \in {"idle", "settings"}

TypeInv == TypeOK /\ Unanswered /\ ChargesShown /\ NotLoaded

\* The default product is in the cart once, if it is sold.
LEMMA ResetCartType ==
  ASSUME NEW d, NEW ps PROVE ResetCart(d, ps) \in [Products -> 0..MaxQty]
BY KioskAssumption DEF ResetCart

LEMMA ResetCartEmpty == ASSUME NEW d PROVE ResetCart(d, {}) = EmptyCart
BY DEF ResetCart, EmptyCart

LEMMA FreshPageType ==
  ASSUME menu \in Menus, NEW r \in Refreshes
  PROVE  /\ FreshPage(r) \in [Refreshes -> RefreshType]
         /\ \A s \in Refreshes : FreshPage(r)[s].at \in {"idle", "settings"}
<1> menu.default \in Products \cup {NoProduct} BY KioskAssumption
<1> QED BY DEF FreshPage, RefreshType, Idle

LEMMA NoCallFields == NoCall.st = "none" /\ NoCall.ans = "none" /\ NoCall.force = FALSE
BY DEF NoCall

\* What a request on its way looks like.
LEMMA CallFields ==
  ASSUME NEW q \in CallType, q # NoCall
  PROVE  /\ q.st \in {"sent", "checked", "served"} /\ q.card \in Cards /\ q.force \in BOOLEAN
         /\ q.ans \in Answers \cup {"none"}
BY DEF CallType

\* A request sent is a request in flight.
LEMMA SentType ==
  ASSUME NEW c \in Cards, NEW force \in BOOLEAN, NEW q,
         q = [st |-> "sent", card |-> c, force |-> force, ans |-> "none"]
  PROVE  q \in CallType /\ q # NoCall /\ q.st = "sent" /\ q.ans = "none"
<1>1. q \in [st : {"sent", "checked", "served"}, card : Cards, force : BOOLEAN,
            ans : Answers \cup {"none"}]
  OBVIOUS
<1>2. q.st = "sent" OBVIOUS
<1>3. q # NoCall BY <1>2, NoCallFields
<1> QED BY <1>1, <1>2, <1>3 DEF CallType

\* What a step of the handler makes of a request: it is answered, or an unforced
\* one has passed the check.
LEMMA HandleRow ==
  ASSUME NEW q \in CallType, NEW r, Handle(q, r)
  PROVE  /\ q # NoCall /\ q.card \in Cards /\ q.force \in BOOLEAN
         /\ r \in CallType /\ r # NoCall /\ r.card = q.card /\ r.force = q.force
         /\ \/ r.st = "served"
            \/ r.st = "checked" /\ r.ans = q.ans /\ ~q.force /\ Check(q, r)
<1>1. q # NoCall BY NoCallFields DEF Handle, Pending
<1>2. /\ q.card \in Cards /\ q.force \in BOOLEAN
      /\ q \in [st : {"sent", "checked", "served"}, card : Cards, force : BOOLEAN,
                ans : Answers \cup {"none"}]
  BY <1>1, CallFields DEF CallType
<1>3. ASSUME NEW a \in Answers, r = Reply(q, a)
      PROVE  /\ r \in [st : {"sent", "checked", "served"}, card : Cards, force : BOOLEAN,
                        ans : Answers \cup {"none"}]
             /\ r.st = "served" /\ r.card = q.card /\ r.force = q.force
  BY <1>2, <1>3 DEF Reply
<1>4. ASSUME r = [q EXCEPT !.st = "checked"]
      PROVE  /\ r \in [st : {"sent", "checked", "served"}, card : Cards, force : BOOLEAN,
                        ans : Answers \cup {"none"}]
             /\ r.st = "checked" /\ r.card = q.card /\ r.force = q.force /\ r.ans = q.ans
  BY <1>2, <1>4
<1>5. \/ \E a \in Answers : r = Reply(q, a)
      \/ r = [q EXCEPT !.st = "checked"] /\ ~q.force /\ Check(q, r)
  <2>1. CASE Check(q, r) BY <2>1 DEF Check, Answers
  <2>2. CASE Refuse(q, r) BY <2>2 DEF Refuse, Answers
  <2>3. CASE Charge(q, r) BY <2>3 DEF Charge, Answers
  <2> QED BY <2>1, <2>2, <2>3 DEF Handle
<1>6. CASE \E a \in Answers : r = Reply(q, a)
  <2>1. r.st # "none" /\ r.st = "served" BY <1>3, <1>6
  <2> QED BY <1>1, <1>2, <1>3, <1>6, <2>1, NoCallFields DEF CallType
<1>7. CASE r = [q EXCEPT !.st = "checked"] /\ ~q.force /\ Check(q, r)
  <2>1. r.st # "none" BY <1>4, <1>7
  <2> QED BY <1>1, <1>2, <1>4, <1>7, <2>1, NoCallFields DEF CallType
<1> QED BY <1>5, <1>6, <1>7

\* Handling a request changes the server's memory and the history only.
LEMMA HandledType ==
  ASSUME TypeOK, NEW q \in CallType, NEW r, Handle(q, r)
  PROVE  /\ recent' \subseteq Cards /\ consent' \in [Cards -> Nat]
         /\ unasked' \in [Cards -> Nat]
<1>1. q.card \in Cards BY HandleRow
<1>2. Spent(q) \in [Cards -> Nat] BY <1>1 DEF TypeOK, Spent
<1>3. [unasked EXCEPT ![q.card] = @ + 1] \in [Cards -> Nat] BY <1>1 DEF TypeOK
<1>4. CASE Check(q, r) BY <1>4 DEF Check, TypeOK
<1>5. CASE Refuse(q, r) BY <1>2, <1>5 DEF Refuse, TypeOK
<1>6. CASE Charge(q, r) BY <1>1, <1>2, <1>3, <1>6 DEF Charge, TypeOK
<1> QED BY <1>4, <1>5, <1>6 DEF Handle

LEMMA TypeInit == Init => TypeInv
<1> SUFFICES ASSUME Init PROVE TypeInv OBVIOUS
<1> USE DEF Init
<1>1. cart \in [Products -> 0..MaxQty] BY KioskAssumption DEF EmptyCart
<1>2. /\ refresh \in [Refreshes -> RefreshType]
      /\ \A r \in Refreshes : refresh[r].at \in {"idle", "settings"}
  BY FreshPageType
<1>3. call \in CallType /\ (locked <=> call # NoCall) BY DEF CallType
<1>4. Unanswered /\ ChargesShown /\ NotLoaded
  BY <1>2, NoCallFields DEF Unanswered, Pending, ChargesShown, NotLoaded
<1>5. late \in [Slots -> CallType] BY DEF CallType
<1> QED BY <1>1, <1>2, <1>3, <1>4, <1>5 DEF TypeInv, TypeOK

\* triggerKioskPayment up to its fetch keeps the types.
LEMMA TriggerType ==
  ASSUME TypeInv, NEW c \in Cards, NEW force \in BOOLEAN, Accepting, Trigger(c, force)
  PROVE  /\ cart' \in [Products -> 0..MaxQty] /\ locked' \in BOOLEAN
         /\ call' \in CallType /\ (locked' <=> call' # NoCall)
         /\ Pending(call') => call'.ans = "none"
         /\ call'.st = "checked" => ~call'.force
         /\ (call'.ans = "SUCCESS") = (call.ans = "SUCCESS")
         /\ ~registered => call' = call /\ cart' = EmptyCart
<1> USE DEF TypeInv, TypeOK, Trigger
<1>1. CASE cart = EmptyCart
  <2>1. UNCHANGED <<locked, call>> /\ cart' = ResetCart(default, products) BY <1>1
  <2>2. ~registered => cart' = EmptyCart BY <2>1, ResetCartEmpty DEF NotLoaded
  <2> QED BY <2>1, <2>2, ResetCartType DEF Unanswered
<1>2. CASE cart # EmptyCart
  <2>1. /\ locked' = TRUE /\ cart' = cart
        /\ call' = [st |-> "sent", card |-> c, force |-> force, ans |-> "none"]
    BY <1>2
  <2>2. registered BY <1>2 DEF NotLoaded
  <2>3. call.ans # "SUCCESS" BY NoCallFields DEF Accepting
  <2> QED BY <2>1, <2>2, <2>3, SentType
<1> QED BY <1>1, <1>2

LEMMA TypeStep == TypeInv /\ [Next]_vars => TypeInv'
<1> SUFFICES ASSUME TypeInv, [Next]_vars PROVE TypeInv' OBVIOUS
<1> USE DEF TypeInv, server, screen, history
<1>u. CASE UNCHANGED vars BY <1>u DEF vars, TypeOK, Unanswered, ChargesShown, NotLoaded
<1>1. ASSUME NEW p \in Products, NEW delta \in {-1, 1}, UpdateQty(p, delta) PROVE TypeInv'
  BY <1>1 DEF UpdateQty, TypeOK, Unanswered, ChargesShown, NotLoaded
<1>2. ASSUME NEW c \in Cards, Tap(c) PROVE TypeInv'
  <2>1. /\ cart' \in [Products -> 0..MaxQty] /\ locked' \in BOOLEAN
        /\ call' \in CallType /\ (locked' <=> call' # NoCall)
        /\ Pending(call') => call'.ans = "none"
        /\ call'.st = "checked" => ~call'.force
        /\ (call'.ans = "SUCCESS") = (call.ans = "SUCCESS")
        /\ ~registered => call' = call /\ cart' = EmptyCart
    BY <1>2, TriggerType DEF Tap
  <2> QED BY <1>2, <2>1 DEF Tap, TypeOK, Unanswered, ChargesShown, NotLoaded
<1>3. ASSUME NEW c \in Cards, Expire(c) PROVE TypeInv'
  BY <1>3 DEF Expire, TypeOK, Unanswered, ChargesShown, NotLoaded
<1>4. ASSUME NEW confirmed \in BOOLEAN, CloseRepeatPayModal(confirmed) PROVE TypeInv'
  <2>0. asked \in Cards BY <1>4 DEF CloseRepeatPayModal, TypeOK
  <2>1. /\ cart' \in [Products -> 0..MaxQty] /\ locked' \in BOOLEAN
        /\ call' \in CallType /\ (locked' <=> call' # NoCall)
        /\ Pending(call') => call'.ans = "none"
        /\ call'.st = "checked" => ~call'.force
        /\ (call'.ans = "SUCCESS") = (call.ans = "SUCCESS")
        /\ ~registered => call' = call /\ cart' = EmptyCart
    <3>1. CASE confirmed /\ Accepting
      BY <1>4, <2>0, <3>1, TriggerType DEF CloseRepeatPayModal
    <3>2. CASE ~(confirmed /\ Accepting)
      BY <1>4, <3>2 DEF CloseRepeatPayModal, TypeOK, Unanswered, ChargesShown, NotLoaded
    <3> QED BY <3>1, <3>2
  <2>2. consent' \in [Cards -> Nat] BY <1>4, <2>0 DEF CloseRepeatPayModal, TypeOK
  <2> QED BY <1>4, <2>1, <2>2 DEF CloseRepeatPayModal, TypeOK, Unanswered, ChargesShown, NotLoaded
<1>5. CASE Serve
  <2>1. Handle(call, call') /\ call \in CallType BY <1>5 DEF Serve, TypeOK
  <2>2. /\ call # NoCall /\ call' \in CallType /\ call' # NoCall
        /\ \/ call'.st = "served"
           \/ call'.st = "checked" /\ call'.ans = call.ans /\ ~call'.force
    BY <2>1, HandleRow
  <2>3. registered BY <2>2 DEF NotLoaded
  <2>4. Pending(call) /\ call.ans = "none" BY <2>1 DEF Handle, Unanswered
  <2>5. Unanswered' BY <1>5, <2>2, <2>4 DEF Serve, Unanswered, Pending
  <2>6. recent' \subseteq Cards /\ consent' \in [Cards -> Nat] /\ unasked' \in [Cards -> Nat]
    BY <2>1, HandledType
  <2>7. owed' \in Nat /\ ChargesShown' BY <1>5, <2>4 DEF Serve, TypeOK, ChargesShown
  <2> QED BY <1>5, <2>2, <2>3, <2>5, <2>6, <2>7 DEF Serve, TypeOK, NotLoaded
<1>6. ASSUME NEW s \in Slots, ServeLate(s) PROVE TypeInv'
  <2>1. PICK r \in CallType : /\ Handle(late[s], r)
                             /\ late' = [late EXCEPT ![s] = [r EXCEPT !.ans = "none"]]
    BY <1>6 DEF ServeLate
  <2>2. late[s] \in CallType BY DEF TypeOK
  <2>3. r # NoCall /\ (r.st = "checked" => ~r.force) BY <2>1, <2>2, HandleRow
  <2>4. r \in [st : {"sent", "checked", "served"}, card : Cards, force : BOOLEAN,
               ans : Answers \cup {"none"}]
    BY <2>3 DEF CallType
  <2>5. /\ [r EXCEPT !.ans = "none"] \in CallType /\ [r EXCEPT !.ans = "none"].ans = "none"
        /\ [r EXCEPT !.ans = "none"].st = r.st /\ [r EXCEPT !.ans = "none"].force = r.force
    BY <2>4 DEF CallType
  <2>6. late' \in [Slots -> CallType] BY <2>1, <2>5 DEF TypeOK
  <2>7. Unanswered' BY <1>6, <2>1, <2>3, <2>5 DEF ServeLate, Unanswered, TypeOK
  <2>8. recent' \subseteq Cards /\ consent' \in [Cards -> Nat] /\ unasked' \in [Cards -> Nat]
    BY <2>1, <2>2, HandledType
  <2> QED BY <1>6, <2>6, <2>7, <2>8 DEF ServeLate, TypeOK, ChargesShown, NotLoaded
<1>7. CASE Confirm
  <2>r. registered BY <1>7, NoCallFields DEF Confirm, NotLoaded, TypeOK
  <2>1. call # NoCall BY <1>7, NoCallFields DEF Confirm
  <2>2. call.card \in Cards BY <2>1, CallFields DEF TypeOK
  <2>3. NoCall \in CallType BY DEF CallType
  <2> QED BY <1>7, <2>r, <2>2, <2>3, NoCallFields DEF Confirm, TypeOK, Unanswered, Pending, ChargesShown, NotLoaded
<1>8. CASE ShowPaid
  <2>r. registered BY <1>8, NoCallFields DEF ShowPaid, NotLoaded, TypeOK
  <2>1. owed' = 0 /\ owed' \in Nat BY <1>8 DEF ShowPaid, ChargesShown
  <2>2. cart' \in [Products -> 0..MaxQty] BY <1>8, ResetCartType DEF ShowPaid
  <2>3. NoCall \in CallType BY DEF CallType
  <2> QED BY <1>8, <2>r, <2>1, <2>2, <2>3, NoCallFields DEF ShowPaid, TypeOK, Unanswered, Pending, ChargesShown, NotLoaded
<1>9. CASE ShowRefused
  <2>r. registered BY <1>9, NoCallFields DEF ShowRefused, NotLoaded, TypeOK
  <2>1. cart' \in [Products -> 0..MaxQty]
    BY <1>9, ResetCartType DEF ShowRefused, TypeOK
  <2>2. NoCall \in CallType BY DEF CallType
  <2> QED BY <1>9, <2>r, <2>1, <2>2, NoCallFields DEF ShowRefused, TypeOK, Unanswered, Pending, ChargesShown, NotLoaded
<1>10. CASE ShowLost
  <2>r. registered BY <1>10, NoCallFields DEF ShowLost, NotLoaded, TypeOK
  <2>1. owed' = 0 /\ owed' \in Nat BY <1>10 DEF ShowLost, ChargesShown
  <2>2. call # NoCall /\ call \in CallType BY <1>10 DEF ShowLost, TypeOK
  <2>3. Spent(call) \in [Cards -> Nat] BY <2>2, CallFields DEF Spent, TypeOK
  <2>4. consent' \in [Cards -> Nat] BY <1>10, <2>3 DEF ShowLost, TypeOK
  <2>5. late' \in [Slots -> CallType] /\ \A s \in Slots :
          late'[s].ans = "none" /\ (late'[s].st = "checked" => ~late'[s].force)
    BY <1>10, <2>2 DEF ShowLost, TypeOK, Unanswered
  <2>6. NoCall \in CallType BY DEF CallType
  <2> QED BY <1>10, <2>r, <2>1, <2>4, <2>5, <2>6, NoCallFields
       DEF ShowLost, TypeOK, Unanswered, Pending, ChargesShown, NotLoaded
<1>11. CASE CloseModal
  <2>1. cart' \in [Products -> 0..MaxQty] BY <1>11, ResetCartType DEF CloseModal
  <2>2. products = {} => cart' = EmptyCart BY <1>11, ResetCartEmpty DEF CloseModal
  <2> QED BY <1>11, <2>1, <2>2 DEF CloseModal, TypeOK, Unanswered, Pending, ChargesShown, NotLoaded
<1>12. ASSUME NEW m \in Menus, ChangeMenu(m) PROVE TypeInv'
  BY <1>12 DEF ChangeMenu, TypeOK, Unanswered, Pending, ChargesShown, NotLoaded
<1>13. ASSUME NEW r \in Refreshes, NEW slot \in RefreshType,
              registered \/ slot.at \in {"idle", "settings"},
              refresh' = [refresh EXCEPT ![r] = slot],
              UNCHANGED <<server, screen, call, history>>
       PROVE  TypeInv'
  BY <1>13 DEF TypeOK, Unanswered, Pending, ChargesShown, NotLoaded
<1>14. ASSUME NEW r \in Refreshes, HandleKioskMenuRefresh(r) PROVE TypeInv'
  <2>1. menu.default \in Products \cup {NoProduct} BY KioskAssumption DEF TypeOK
  <2>2. [Idle EXCEPT !.at = "settings", !.default = menu.default] \in RefreshType
    BY <2>1 DEF Idle, RefreshType
  <2> QED BY <1>13, <1>14, <2>2 DEF HandleKioskMenuRefresh
<1>15. ASSUME NEW r \in Refreshes, SettingsArrive(r) PROVE TypeInv'
  <2>1. [Idle EXCEPT !.at = "gap"] \in RefreshType BY DEF Idle, RefreshType
  <2>2. refresh' \in [Refreshes -> RefreshType] BY <1>15, <2>1 DEF SettingsArrive, TypeOK
  <2>3. default' \in Products \cup {NoProduct} BY <1>15 DEF SettingsArrive, TypeOK, RefreshType
  <2> QED BY <1>15, <2>2, <2>3 DEF SettingsArrive, TypeOK, Unanswered, Pending, ChargesShown, NotLoaded
<1>16. ASSUME NEW r \in Refreshes, SettingsLost(r) PROVE TypeInv'
  <2>1. [Idle EXCEPT !.at = "gap"] \in RefreshType /\ Idle \in RefreshType /\ Idle.at = "idle"
    BY DEF Idle, RefreshType
  <2> QED BY <1>13, <1>16, <2>1 DEF SettingsLost
<1>17. ASSUME NEW r \in Refreshes, LoadProducts(r) PROVE TypeInv'
  <2>1. menu.items \subseteq Products BY KioskAssumption DEF TypeOK
  <2>2. [Idle EXCEPT !.at = "products", !.items = menu.items] \in RefreshType
    BY <2>1 DEF Idle, RefreshType
  <2>3. registered BY <1>17 DEF LoadProducts, NotLoaded
  <2> QED BY <1>13, <1>17, <2>2, <2>3 DEF LoadProducts
<1>18. ASSUME NEW r \in Refreshes, ProductsArrive(r) PROVE TypeInv'
  <2>1. Idle \in RefreshType BY DEF Idle, RefreshType
  <2>2. refresh' \in [Refreshes -> RefreshType] BY <1>18, <2>1 DEF ProductsArrive, TypeOK
  <2>3. products' \subseteq Products BY <1>18 DEF ProductsArrive, TypeOK, RefreshType
  <2>4. cart' \in [Products -> 0..MaxQty] BY <1>18, ResetCartType DEF ProductsArrive
  <2>5. registered BY <1>18 DEF ProductsArrive, NotLoaded
  <2> QED BY <1>18, <2>2, <2>3, <2>4, <2>5 DEF ProductsArrive, TypeOK, Unanswered, Pending, ChargesShown, NotLoaded
<1>19. ASSUME NEW r \in Refreshes, ProductsLost(r) PROVE TypeInv'
  <2>1. Idle \in RefreshType /\ Idle.at = "idle" BY DEF Idle, RefreshType
  <2> QED BY <1>13, <1>19, <2>1 DEF ProductsLost
<1>20. CASE SeeUpdate
  BY <1>20 DEF SeeUpdate, TypeOK, Unanswered, Pending, ChargesShown, NotLoaded
<1>21. ASSUME LoadPage, call = NoCall PROVE TypeInv'
  <2>1. cart' \in [Products -> 0..MaxQty] BY <1>21, KioskAssumption DEF LoadPage, EmptyCart
  <2>2. /\ refresh' \in [Refreshes -> RefreshType]
        /\ \A r \in Refreshes : refresh'[r].at \in {"idle", "settings"}
    <3>1. PICK r \in Refreshes : refresh' = FreshPage(r) BY <1>21 DEF LoadPage
    <3> QED BY <3>1, FreshPageType DEF TypeOK
  <2> QED BY <1>21, <2>1, <2>2 DEF LoadPage, TypeOK, Unanswered, Pending, ChargesShown, NotLoaded
<1>22. CASE Reload
  <2>1. call = NoCall BY <1>22 DEF Reload, IsKioskIdleForReload, TypeOK
  <2> QED BY <1>21, <1>22, <2>1 DEF Reload
<1>23. CASE RegisterKioskDevice
  <2>1. call = NoCall BY <1>23 DEF RegisterKioskDevice, NotLoaded
  <2> QED BY <1>21, <1>23, <2>1 DEF RegisterKioskDevice
<1> QED BY <1>u, <1>1, <1>2, <1>3, <1>4, <1>5, <1>6, <1>7, <1>8, <1>9, <1>10, <1>11, <1>12,
        <1>14, <1>15, <1>16, <1>17, <1>18, <1>19, <1>20, <1>22, <1>23
     DEF Next, Answer

LEMMA TypeAlways == Spec => []TypeInv
<1> QED BY TypeInit, TypeStep, PTL DEF Spec

\* Every variable has its type, and the page waits for a payment exactly while
\* isKioskPaymentProcessing is set (triggerKioskPayment).
THEOREM TypeCorrect == Spec => []TypeOK
<1>1. TypeInv => TypeOK BY DEF TypeInv
<1> QED BY <1>1, TypeAlways, PTL

\* Every answer SUCCESS the page waits for is shown once (triggerKioskPayment).
THEOREM EveryChargeShown == Spec => []ChargesShown
<1>1. TypeInv => ChargesShown BY DEF TypeInv
<1> QED BY <1>1, TypeAlways, PTL

-------------------------------------------------------------------------------
LEMMA ResetCartOnMenu ==
  ASSUME NEW d, NEW ps, NEW p \in Products, ResetCart(d, ps)[p] > 0 PROVE p \in ps
BY DEF ResetCart

LEMMA EmptyCartOnMenu == \A p \in Products : ~(EmptyCart[p] > 0)
BY DEF EmptyCart

LEMMA CartStep == TypeInv /\ CartIsOnMenu /\ [Next]_vars => CartIsOnMenu'
<1> SUFFICES ASSUME TypeInv, CartIsOnMenu, [Next]_vars,
                    NEW x \in Products, cart'[x] > 0
             PROVE  x \in products'
  BY DEF CartIsOnMenu
<1> USE DEF server, screen
<1>k. CASE cart' = cart /\ products' = products BY <1>k DEF CartIsOnMenu
<1>r. CASE cart' = ResetCart(default, products) /\ products' = products
  BY <1>r, ResetCartOnMenu
<1>1. ASSUME NEW p \in Products, NEW delta \in {-1, 1}, UpdateQty(p, delta)
      PROVE  x \in products'
  <2>1. CASE x = p BY <1>1, <2>1 DEF UpdateQty
  <2>2. CASE x # p BY <1>1, <2>2 DEF UpdateQty, CartIsOnMenu, TypeInv, TypeOK
  <2> QED BY <2>1, <2>2
<1>2. ASSUME NEW c \in Cards, Tap(c) PROVE x \in products'
  BY <1>2, <1>k, <1>r DEF Tap, Trigger
<1>3. ASSUME NEW confirmed \in BOOLEAN, CloseRepeatPayModal(confirmed) PROVE x \in products'
  BY <1>3, <1>k, <1>r DEF CloseRepeatPayModal, Trigger
<1>4. CASE Answer \/ CloseModal
  BY <1>4, <1>k, <1>r DEF Answer, Confirm, ShowPaid, ShowRefused, ShowLost, CloseModal
<1>5. ASSUME NEW r \in Refreshes, ProductsArrive(r) PROVE x \in products'
  BY <1>5, ResetCartOnMenu DEF ProductsArrive
<1>6. CASE Reload \/ RegisterKioskDevice
  BY <1>6, EmptyCartOnMenu DEF Reload, RegisterKioskDevice, LoadPage
<1>7. ASSUME NEW r \in Refreshes,
             \/ HandleKioskMenuRefresh(r) \/ SettingsArrive(r) \/ SettingsLost(r)
             \/ LoadProducts(r) \/ ProductsLost(r)
      PROVE  x \in products'
  BY <1>7, <1>k
     DEF HandleKioskMenuRefresh, SettingsArrive, SettingsLost, LoadProducts, ProductsLost
<1>8. CASE Serve \/ SeeUpdate \/ UNCHANGED vars BY <1>8, <1>k DEF Serve, SeeUpdate, vars
<1>9. ASSUME NEW s \in Slots, ServeLate(s) PROVE x \in products'
  BY <1>9, <1>k DEF ServeLate
<1>10. ASSUME NEW c \in Cards, Expire(c) PROVE x \in products'
  BY <1>10, <1>k DEF Expire
<1>11. ASSUME NEW m \in Menus, ChangeMenu(m) PROVE x \in products'
  BY <1>11, <1>k DEF ChangeMenu
<1> QED BY <1>1, <1>2, <1>3, <1>4, <1>5, <1>6, <1>7, <1>8, <1>9, <1>10, <1>11
        DEF Next

\* Whatever the refreshes, touches and payments, the cart holds only products the
\* page has loaded (resetCart, loadProducts, updateQty).
THEOREM CartOnMenu == Spec => []CartIsOnMenu
<1>1. Init => CartIsOnMenu BY EmptyCartOnMenu DEF Init, CartIsOnMenu
<1> QED BY <1>1, TypeAlways, CartStep, PTL DEF Spec

-------------------------------------------------------------------------------
\* Reloading cuts off no payment, result or question (isKioskIdleForReload and
\* isSafeToReload): only Reload takes a registered page down.
THEOREM ReloadSafe == Spec => ReloadCutsNothing
<1> DEFINE Quiet == call = NoCall /\ modal = "closed" /\ asked = NoCard
<1>1. ASSUME TypeInv, [Next]_vars, registered, ~registered' PROVE Quiet
  <2> USE <1>1 DEF server, screen
  <2>1. Reload
    <3>1. ~UNCHANGED registered OBVIOUS
    <3>2. ~UNCHANGED vars BY <3>1 DEF vars
    <3>3. ~RegisterKioskDevice BY DEF RegisterKioskDevice
    <3>4. ~Serve /\ ~Answer /\ ~CloseModal /\ ~SeeUpdate
      BY <3>1 DEF Serve, Answer, Confirm, ShowPaid, ShowRefused, ShowLost, CloseModal, SeeUpdate
    <3>5. \A r \in Refreshes :
            /\ ~HandleKioskMenuRefresh(r) /\ ~SettingsArrive(r) /\ ~SettingsLost(r)
            /\ ~LoadProducts(r) /\ ~ProductsArrive(r) /\ ~ProductsLost(r)
      BY <3>1 DEF HandleKioskMenuRefresh, SettingsArrive, SettingsLost, LoadProducts,
                  ProductsArrive, ProductsLost
    <3>6. \A p \in Products, delta \in {-1, 1} : ~UpdateQty(p, delta)
      BY <3>1 DEF UpdateQty
    <3>7. \A c \in Cards : ~Tap(c) /\ ~Expire(c) BY <3>1 DEF Tap, Expire
    <3>8. \A confirmed \in BOOLEAN : ~CloseRepeatPayModal(confirmed)
      BY <3>1 DEF CloseRepeatPayModal
    <3>9. \A s \in Slots : ~ServeLate(s) BY <3>1 DEF ServeLate
    <3>10. \A m \in Menus : ~ChangeMenu(m) BY <3>1 DEF ChangeMenu
    <3> QED BY <3>2, <3>3, <3>4, <3>5, <3>6, <3>7, <3>8, <3>9, <3>10 DEF Next
  <2> QED BY <2>1 DEF Reload, NoModalOpen, IsKioskIdleForReload, TypeInv, TypeOK
<1>2. TypeInv /\ [Next]_vars => [registered /\ ~registered' => Quiet]_vars BY <1>1
<1> QED BY <1>2, TypeAlways, PTL DEF Spec, ReloadCutsNothing

-------------------------------------------------------------------------------
(* Second charges within 30 seconds.                                       *)

One(b) == IF b THEN 1 ELSE 0
\* A forced request for card c that was not handled.
Forced(q, c) == q.st = "sent" /\ q.force /\ q.card = c
ForcedLate(c) == {s \in Slots : Forced(late[s], c)}
Done(q, c) == q.st = "served" /\ q.card = c

\* Each forced request on its way to the handler has a yes of its own.
Backed(c) == Cardinality(ForcedLate(c)) + One(Forced(call, c)) <= consent[c]

\* The request the page waits for has passed the check, but its member has paid
\* since, which only a late request can have done: it will be an unasked repeat.
Crossed(c) == call.st = "checked" /\ call.card = c /\ c \in recent
Accounted(c) == unasked[c] + One(Crossed(c)) <= Cardinality(HandledLate(c))

RepeatInv == \A c \in Cards : Backed(c) /\ Accounted(c)

LEMMA Sizes == \A S \in SUBSET Slots : IsFiniteSet(S) /\ Cardinality(S) \in Nat
BY KioskAssumption, FS_Subset, FS_CardinalityType

\* A set that differs from another one in s only differs in size accordingly.
LEMMA SizeStep ==
  ASSUME NEW s \in Slots, NEW S \in SUBSET Slots, NEW T \in SUBSET Slots, S \ {s} = T \ {s}
  PROVE  Cardinality(T) = Cardinality(S) + One(s \in T) - One(s \in S)
<1> DEFINE Rest == S \ {s}
<1>1. IsFiniteSet(Rest) /\ Cardinality(Rest) \in Nat BY Sizes
<1>2. ASSUME NEW U \in SUBSET Slots, U \ {s} = Rest
      PROVE  Cardinality(U) = Cardinality(Rest) + One(s \in U)
  <2>1. CASE s \in U
    <3>1. U = Rest \cup {s} /\ s \notin Rest BY <1>2, <2>1
    <3>2. Cardinality(Rest \cup {s}) = Cardinality(Rest) + 1 BY <1>1, <3>1, FS_AddElement
    <3> QED BY <2>1, <3>1, <3>2 DEF One
  <2>2. CASE s \notin U
    <3>1. U = Rest BY <1>2, <2>2
    <3> QED BY <1>1, <2>2, <3>1 DEF One
  <2> QED BY <2>1, <2>2
<1>3. Cardinality(S) = Cardinality(Rest) + One(s \in S) BY <1>2
<1>4. Cardinality(T) = Cardinality(Rest) + One(s \in T) BY <1>2
<1>5. One(s \in S) \in Nat /\ One(s \in T) \in Nat BY DEF One
<1> QED BY <1>1, <1>3, <1>4, <1>5

\* What a change of one slot does to the numbers of late requests.
LEMMA LateStep ==
  ASSUME TypeInv, NEW s \in Slots, NEW r, late' = [late EXCEPT ![s] = r], NEW c
  PROVE  /\ Cardinality(ForcedLate(c)) \in Nat /\ Cardinality(HandledLate(c)) \in Nat
         /\ Cardinality(ForcedLate(c)') =
              Cardinality(ForcedLate(c)) + One(Forced(r, c)) - One(Forced(late[s], c))
         /\ Cardinality(HandledLate(c)') =
              Cardinality(HandledLate(c)) + One(Done(r, c)) - One(Done(late[s], c))
<1>1. late'[s] = r /\ \A x \in Slots \ {s} : late'[x] = late[x] BY DEF TypeInv, TypeOK
<1>2. /\ ForcedLate(c) \in SUBSET Slots /\ ForcedLate(c)' \in SUBSET Slots
      /\ HandledLate(c) \in SUBSET Slots /\ HandledLate(c)' \in SUBSET Slots
  BY DEF ForcedLate, HandledLate
<1>3. /\ ForcedLate(c) \ {s} = ForcedLate(c)' \ {s}
      /\ s \in ForcedLate(c) <=> Forced(late[s], c)
      /\ s \in ForcedLate(c)' <=> Forced(r, c)
  BY <1>1 DEF ForcedLate, Forced
<1>4. /\ HandledLate(c) \ {s} = HandledLate(c)' \ {s}
      /\ s \in HandledLate(c) <=> Done(late[s], c)
      /\ s \in HandledLate(c)' <=> Done(r, c)
  BY <1>1 DEF HandledLate, Done
<1>5. /\ One(s \in ForcedLate(c)) = One(Forced(late[s], c))
      /\ One(s \in ForcedLate(c)') = One(Forced(r, c))
      /\ One(s \in HandledLate(c)) = One(Done(late[s], c))
      /\ One(s \in HandledLate(c)') = One(Done(r, c))
  BY <1>3, <1>4 DEF One
<1>6. Cardinality(ForcedLate(c)') =
        Cardinality(ForcedLate(c)) + One(s \in ForcedLate(c)') - One(s \in ForcedLate(c))
  BY <1>2, <1>3, SizeStep
<1>7. Cardinality(HandledLate(c)') =
        Cardinality(HandledLate(c)) + One(s \in HandledLate(c)') - One(s \in HandledLate(c))
  BY <1>2, <1>4, SizeStep
<1> QED BY <1>2, <1>5, <1>6, <1>7, Sizes

\* What a step of the handler for request q does to the history of card c: a yes is
\* used by a forced request only, and a repeat is unasked only if q had passed the
\* check before the other charge.
LEMMA HandleEffect ==
  ASSUME TypeInv, NEW q \in CallType, q.st = "checked" => ~q.force,
         NEW r, Handle(q, r), NEW c \in Cards, Forced(q, c) => consent[c] >= 1
  PROVE  /\ consent'[c] = consent[c] - One(Forced(q, c)) /\ ~Forced(r, c)
         /\ r.st = "checked" /\ q.card = c => c \notin recent'
         /\ \/ unasked'[c] = unasked[c] /\ (c \in recent' <=> c \in recent)
            \/ /\ Done(r, c) /\ c \notin recent /\ unasked'[c] = unasked[c]
            \/ /\ Done(r, c) /\ q.st = "checked" /\ q.card = c
               /\ c \in recent /\ c \in recent' /\ unasked'[c] = unasked[c] + 1
<1>1. /\ q.card \in Cards /\ q.force \in BOOLEAN /\ r.card = q.card /\ r.force = q.force
      /\ r.st \in {"served", "checked"} /\ q.st \in {"sent", "checked"}
      /\ r.st = "checked" => ~q.force /\ Check(q, r)
  BY HandleRow DEF Handle, Pending
<1>2. consent \in [Cards -> Nat] /\ unasked \in [Cards -> Nat] BY DEF TypeInv, TypeOK
<1>3. ~Forced(r, c) BY <1>1 DEF Forced
<1>4. r.st = "checked" /\ q.card = c => c \notin recent'
  <2> SUFFICES ASSUME r.st = "checked", q.card = c PROVE c \notin recent' OBVIOUS
  <2>1. Check(q, r) BY <1>1
  <2>2. q.card \notin recent
    <3>1. q \in [st : {"sent", "checked", "served"}, card : Cards, force : BOOLEAN,
                 ans : Answers \cup {"none"}]
      BY <1>1, NoCallFields DEF CallType
    <3>2. Reply(q, "CONFIRM").st = "served" BY <3>1 DEF Reply
    <3> QED BY <2>1, <3>2 DEF Check
  <2> QED BY <2>1, <2>2 DEF Check
<1>5. Spent(q)[c] = consent[c] - One(Forced(q, c))
  <2>1. CASE q.force
    <3>1. q.st = "sent" BY <1>1, <2>1
    <3>2. CASE q.card = c
      <4>1. Forced(q, c) /\ consent[q.card] > 0 BY <1>2, <2>1, <3>1, <3>2 DEF Forced
      <4> QED BY <1>2, <2>1, <3>2, <4>1 DEF Spent, One
    <3>3. CASE q.card # c
      <4>1. ~Forced(q, c) BY <3>3 DEF Forced
      <4> QED BY <1>2, <3>3, <4>1 DEF Spent, One
    <3> QED BY <3>2, <3>3
  <2>2. CASE ~q.force
    <3>1. ~Forced(q, c) BY <2>2 DEF Forced
    <3> QED BY <1>2, <2>2, <3>1 DEF Spent, One
  <2> QED BY <2>1, <2>2
<1>6. CASE Check(q, r)
  <2>1. ~Forced(q, c) BY <1>6 DEF Check, Forced
  <2> QED BY <1>2, <1>3, <1>4, <1>6, <2>1 DEF Check, One
<1>7. CASE Refuse(q, r) BY <1>3, <1>4, <1>5, <1>7 DEF Refuse
<1>8. CASE Charge(q, r)
  <2>1. r.st = "served"
    <3>1. PICK a \in Answers : r = Reply(q, a) BY <1>8 DEF Charge, Answers
    <3>2. q \in [st : {"sent", "checked", "served"}, card : Cards, force : BOOLEAN,
                 ans : Answers \cup {"none"}]
      BY <1>1, NoCallFields DEF CallType
    <3> QED BY <3>1, <3>2 DEF Reply
  <2>2. consent' = Spent(q) /\ recent' = recent \cup {q.card} BY <1>8 DEF Charge
  <2>3. CASE q.card # c
    <3>1. unasked'[c] = unasked[c] BY <1>1, <1>2, <1>8, <2>3 DEF Charge
    <3> QED BY <1>3, <1>4, <1>5, <2>2, <2>3, <3>1
  <2>4. CASE q.card = c /\ c \notin recent
    <3>1. unasked' = unasked BY <1>8, <2>4 DEF Charge
    <3> QED BY <1>1, <1>3, <1>4, <1>5, <2>1, <2>2, <2>4, <3>1 DEF Done
  <2>5. CASE q.card = c /\ c \in recent /\ q.force
    <3>1. consent[c] # 0 BY <1>1, <1>2, <2>5 DEF Forced
    <3>2. unasked' = unasked BY <1>8, <2>5, <3>1 DEF Charge
    <3> QED BY <1>3, <1>4, <1>5, <2>2, <2>5, <3>2
  <2>6. CASE q.card = c /\ c \in recent /\ ~q.force
    <3>1. unasked'[c] = unasked[c] + 1 BY <1>1, <1>2, <1>8, <2>6 DEF Charge
    <3>2. q.st = "checked" BY <1>8, <2>6 DEF Charge, MayCharge
    <3> QED BY <1>1, <1>3, <1>4, <1>5, <2>1, <2>2, <2>6, <3>1, <3>2 DEF Done
  <2> QED BY <1>1, <2>3, <2>4, <2>5, <2>6
<1> QED BY <1>6, <1>7, <1>8 DEF Handle

LEMMA RepeatStep == TypeInv /\ RepeatInv /\ [Next]_vars => RepeatInv'
<1> SUFFICES ASSUME TypeInv, RepeatInv, [Next]_vars, NEW c \in Cards
             PROVE  Backed(c)' /\ Accounted(c)'
  BY DEF RepeatInv
<1> USE DEF server, screen, history
<1>a. Backed(c) /\ Accounted(c) BY DEF RepeatInv
<1>b. /\ consent[c] \in Nat /\ unasked[c] \in Nat
      /\ Cardinality(ForcedLate(c)) \in Nat /\ Cardinality(HandledLate(c)) \in Nat
  <2>1. ForcedLate(c) \in SUBSET Slots /\ HandledLate(c) \in SUBSET Slots
    BY DEF ForcedLate, HandledLate
  <2> QED BY <2>1, Sizes DEF TypeInv, TypeOK
<1>c. \A b : One(b) \in 0..1 BY DEF One
\* Steps that leave the late requests alone.
<1>k. ASSUME late' = late, unasked'[c] = unasked[c],
             One(Forced(call', c)) - consent'[c] <= One(Forced(call, c)) - consent[c],
             consent'[c] \in Nat,
             One(Crossed(c)') <= One(Crossed(c))
      PROVE  Backed(c)' /\ Accounted(c)'
  <2>1. ForcedLate(c)' = ForcedLate(c) /\ HandledLate(c)' = HandledLate(c)
    BY <1>k DEF ForcedLate, HandledLate
  <2>2. Forced(call, c)' = Forced(call', c) BY DEF Forced
  <2>3. Cardinality(ForcedLate(c)) + One(Forced(call, c)) <= consent[c] BY <1>a DEF Backed
  <2>4. Cardinality(ForcedLate(c)) + One(Forced(call', c)) <= consent'[c]
    BY <1>b, <1>c, <1>k, <2>3
  <2>5. One(Forced(call', c)) = One(Forced(call, c))' BY <2>2 DEF One
  <2>6. Backed(c)' BY <2>1, <2>4, <2>5 DEF Backed
  <2>7. unasked[c] + One(Crossed(c)) <= Cardinality(HandledLate(c)) BY <1>a DEF Accounted
  <2>8. One(Crossed(c))' = One(Crossed(c)') BY DEF One
  <2>9. unasked'[c] + One(Crossed(c)') <= Cardinality(HandledLate(c)) BY <1>b, <1>c, <1>k, <2>7
  <2> QED BY <2>1, <2>6, <2>8, <2>9 DEF Accounted
<1>u. ASSUME UNCHANGED <<late, history>>, c \in recent' => c \in recent,
             call' = call \/ (call'.st # "checked" /\ ~Forced(call', c))
      PROVE  Backed(c)' /\ Accounted(c)'
  <2>1. One(Forced(call', c)) <= One(Forced(call, c)) BY <1>u DEF One
  <2>2. One(Crossed(c)') <= One(Crossed(c)) BY <1>u DEF One, Crossed
  <2> QED BY <1>b, <1>c, <1>k, <1>u, <2>1, <2>2
<1>n. NoCall.st # "checked" /\ ~Forced(NoCall, c) BY NoCallFields DEF Forced
<1>1. ASSUME NEW d \in Cards, Tap(d) PROVE Backed(c)' /\ Accounted(c)'
  <2>1. CASE call' = call BY <1>1, <1>u, <2>1 DEF Tap
  <2>2. CASE call' = [st |-> "sent", card |-> d, force |-> FALSE, ans |-> "none"]
    <3>1. call'.st # "checked" /\ ~Forced(call', c) BY <2>2 DEF Forced
    <3> QED BY <1>1, <1>u, <3>1 DEF Tap
  <2> QED BY <1>1, <2>1, <2>2 DEF Tap, Trigger
<1>2. ASSUME NEW confirmed \in BOOLEAN, CloseRepeatPayModal(confirmed)
      PROVE  Backed(c)' /\ Accounted(c)'
  <2>1. CASE confirmed /\ Accepting /\ cart # EmptyCart
    <3>1. call = NoCall BY <2>1 DEF Accepting, TypeInv, TypeOK
    <3>2. /\ call' = [st |-> "sent", card |-> asked, force |-> TRUE, ans |-> "none"]
          /\ consent' = [consent EXCEPT ![asked] = @ + 1] /\ UNCHANGED <<late, recent, unasked>>
          /\ asked \in Cards
      BY <1>2, <2>1 DEF CloseRepeatPayModal, Trigger, TypeInv, TypeOK
    <3>3. consent'[c] = consent[c] + One(asked = c)
      BY <3>2 DEF One, TypeInv, TypeOK
    <3>4. One(Forced(call', c)) = One(asked = c) BY <3>2 DEF Forced, One
    <3>5. One(Forced(call, c)) = 0 BY <1>n, <3>1 DEF One
    <3>6. call'.st # "checked" BY <3>2
    <3>7. One(Crossed(c)') <= One(Crossed(c)) BY <3>6 DEF One, Crossed
    <3> QED BY <1>b, <1>c, <1>k, <3>2, <3>3, <3>4, <3>5, <3>7
  <2>2. CASE ~(confirmed /\ Accepting /\ cart # EmptyCart)
    BY <1>2, <1>u, <2>2 DEF CloseRepeatPayModal, Trigger
  <2> QED BY <2>1, <2>2
<1>3. CASE Serve
  <2>1. Handle(call, call') /\ call \in CallType /\ late' = late
    BY <1>3 DEF Serve, TypeInv, TypeOK
  <2>2. call.st = "checked" => ~call.force BY DEF TypeInv, Unanswered
  <2>3. Forced(call, c) => consent[c] >= 1 BY <1>a, <1>b DEF Backed, One
  <2>4. /\ consent'[c] = consent[c] - One(Forced(call, c)) /\ ~Forced(call', c)
        /\ call'.st = "checked" /\ call.card = c => c \notin recent'
        /\ \/ unasked'[c] = unasked[c]
           \/ call'.st = "served" /\ Crossed(c) /\ unasked'[c] = unasked[c] + 1
    <3> HIDE DEF server, screen, history
    <3> QED BY <2>1, <2>2, <2>3, HandleEffect DEF Crossed, Done
  <2>5. ~Crossed(c)'
    <3>1. call'.card = call.card BY <2>1, HandleRow
    <3> QED BY <2>4, <3>1 DEF Crossed
  <2>6. One(Crossed(c)') = 0 /\ One(Forced(call', c)) = 0 BY <2>4, <2>5 DEF One
  <2>7. consent'[c] \in Nat BY <1>b, <2>3, <2>4 DEF One
  <2>8. CASE unasked'[c] = unasked[c]
    BY <1>b, <1>c, <1>k, <2>1, <2>4, <2>6, <2>7, <2>8
  <2>9. CASE call'.st = "served" /\ Crossed(c) /\ unasked'[c] = unasked[c] + 1
    <3>1. One(Crossed(c)) = 1 BY <2>9 DEF One
    <3>2. ForcedLate(c)' = ForcedLate(c) /\ HandledLate(c)' = HandledLate(c)
      BY <2>1 DEF ForcedLate, HandledLate
    <3>3. Accounted(c)'
      <4>1. One(Crossed(c))' = 0 BY <2>5 DEF One
      <4>2. unasked[c] + 1 <= Cardinality(HandledLate(c)) BY <1>a, <3>1 DEF Accounted
      <4>3. unasked'[c] + One(Crossed(c))' <= Cardinality(HandledLate(c))
        BY <1>b, <2>9, <4>1, <4>2
      <4> QED BY <3>2, <4>3 DEF Accounted
    <3>4. Backed(c)'
      <4>1. One(Forced(call, c))' = 0 BY <2>4 DEF One, Forced
      <4> QED BY <1>a, <1>b, <1>c, <2>4, <3>2, <4>1 DEF Backed
    <3> QED BY <3>3, <3>4
  <2> QED BY <2>4, <2>8, <2>9
<1>4. ASSUME NEW s \in Slots, ServeLate(s) PROVE Backed(c)' /\ Accounted(c)'
  <2>1. PICK r \in CallType : /\ Handle(late[s], r)
                             /\ late' = [late EXCEPT ![s] = [r EXCEPT !.ans = "none"]]
    BY <1>4 DEF ServeLate
  <2> DEFINE q == [r EXCEPT !.ans = "none"]
  <2>2. late[s] \in CallType /\ (late[s].st = "checked" => ~late[s].force) /\ call' = call
    BY <1>4 DEF ServeLate, TypeInv, TypeOK, Unanswered
  <2>3. /\ late' = [late EXCEPT ![s] = q]
        /\ Forced(q, c) <=> Forced(r, c)
        /\ Done(q, c) <=> Done(r, c)
    <3>1. r \in [st : {"sent", "checked", "served"}, card : Cards, force : BOOLEAN,
                 ans : Answers \cup {"none"}]
      BY <2>1, <2>2, HandleRow DEF CallType
    <3> QED BY <2>1, <3>1 DEF Forced, Done
  <2> HIDE DEF q
  <2>4. /\ Cardinality(ForcedLate(c)') =
             Cardinality(ForcedLate(c)) + One(Forced(r, c)) - One(Forced(late[s], c))
        /\ Cardinality(HandledLate(c)') =
             Cardinality(HandledLate(c)) + One(Done(r, c)) - One(Done(late[s], c))
    BY <2>3, LateStep DEF One
  <2>5. Forced(late[s], c) => consent[c] >= 1
    <3> SUFFICES ASSUME Forced(late[s], c) PROVE consent[c] >= 1 OBVIOUS
    <3>1. s \in ForcedLate(c) /\ ForcedLate(c) \in SUBSET Slots BY DEF ForcedLate
    <3>2. Cardinality(ForcedLate(c)) # 0 BY <3>1, Sizes, FS_EmptySet
    <3> QED BY <1>a, <1>b, <1>c, <3>2 DEF Backed
  <2>6. /\ consent'[c] = consent[c] - One(Forced(late[s], c)) /\ ~Forced(r, c)
        /\ \/ unasked'[c] = unasked[c] /\ (c \in recent' <=> c \in recent)
           \/ Done(r, c) /\ c \notin recent /\ unasked'[c] = unasked[c]
           \/ Done(r, c) /\ c \in recent /\ c \in recent' /\ unasked'[c] = unasked[c] + 1
    <3> HIDE DEF server, screen, history
    <3> QED BY <2>1, <2>2, <2>5, HandleEffect
  <2>7. One(Forced(r, c)) = 0 /\ One(Done(late[s], c)) = 0
    <3>1. ~Done(late[s], c) BY <2>1 DEF Handle, Pending, Done
    <3> QED BY <2>6, <3>1 DEF One
  <2>8. Backed(c)'
    <3>1. One(Forced(call, c))' = One(Forced(call, c)) BY <2>2 DEF One, Forced
    <3>2. Cardinality(ForcedLate(c))' = Cardinality(ForcedLate(c)) - One(Forced(late[s], c))
      BY <1>b, <1>c, <2>4, <2>7
    <3> QED BY <1>a, <1>b, <1>c, <2>6, <3>1, <3>2 DEF Backed
  <2>9. Accounted(c)'
    <3>1. Cardinality(HandledLate(c))' = Cardinality(HandledLate(c)) + One(Done(r, c))
      BY <1>b, <1>c, <2>4, <2>7
    <3>2. One(Crossed(c))' \in 0..1 BY <1>c DEF One
    <3>a. unasked[c] + One(Crossed(c)) <= Cardinality(HandledLate(c)) BY <1>a DEF Accounted
    <3>3. CASE unasked'[c] = unasked[c] /\ (c \in recent' <=> c \in recent)
      <4>1. One(Crossed(c))' = One(Crossed(c)) BY <2>2, <3>3 DEF One, Crossed
      <4> QED BY <1>a, <1>b, <1>c, <3>1, <3>3, <4>1 DEF Accounted
    <3>4. CASE Done(r, c) /\ c \notin recent /\ unasked'[c] = unasked[c]
      <4>1. One(Done(r, c)) = 1 /\ One(Crossed(c)) = 0 BY <3>4 DEF One, Crossed
      <4>2. unasked'[c] + One(Crossed(c))' <= Cardinality(HandledLate(c))'
        <5>1. Cardinality(HandledLate(c))' = Cardinality(HandledLate(c)) + 1 BY <3>1, <4>1
        <5>2. unasked'[c] = unasked[c] /\ unasked[c] <= Cardinality(HandledLate(c))
          BY <1>b, <3>4, <3>a, <4>1
        <5> QED BY <1>b, <3>2, <5>1, <5>2
      <4> QED BY <4>2 DEF Accounted
    <3>5. CASE Done(r, c) /\ c \in recent /\ c \in recent' /\ unasked'[c] = unasked[c] + 1
      <4>1. One(Done(r, c)) = 1 BY <3>5 DEF One
      <4>2. One(Crossed(c))' = One(Crossed(c)) BY <2>2, <3>5 DEF One, Crossed
      <4>3. unasked'[c] + One(Crossed(c))' <= Cardinality(HandledLate(c))'
        <5>1. Cardinality(HandledLate(c))' = Cardinality(HandledLate(c)) + 1 BY <3>1, <4>1
        <5>2. unasked'[c] = unasked[c] + 1 BY <3>5
        <5> QED BY <1>b, <1>c, <3>a, <4>2, <5>1, <5>2
      <4> QED BY <4>3 DEF Accounted
    <3> QED BY <2>6, <3>3, <3>4, <3>5
  <2> QED BY <2>8, <2>9
<1>5. CASE ShowLost
  <2>1. call' = NoCall /\ unasked' = unasked /\ recent' = recent BY <1>5 DEF ShowLost
  <2>2. One(Forced(call', c)) = 0 /\ One(Crossed(c)') = 0
    BY <1>n, <2>1 DEF One, Crossed
  <2>3. CASE call.st = "served" /\ UNCHANGED <<late, consent>>
    BY <1>b, <1>c, <1>k, <2>1, <2>2, <2>3
  <2>4. CASE call.st = "sent" /\ consent' = Spent(call) /\ UNCHANGED late
    <3>1. call.card \in Cards /\ call.force \in BOOLEAN /\ consent \in [Cards -> Nat]
      BY <1>5, CallFields DEF ShowLost, TypeInv, TypeOK
    <3>2. Forced(call, c) => consent[c] >= 1 BY <1>a, <1>b DEF Backed, One
    <3>3. consent'[c] = consent[c] - One(Forced(call, c))
      <4>1. CASE Forced(call, c) BY <2>4, <3>1, <3>2, <4>1 DEF Forced, Spent, One
      <4>2. CASE ~Forced(call, c) BY <2>4, <3>1, <4>2 DEF Forced, Spent, One
      <4> QED BY <4>1, <4>2
    <3>4. consent'[c] \in Nat BY <1>b, <3>2, <3>3 DEF One
    <3> QED BY <1>b, <1>c, <1>k, <2>1, <2>2, <2>4, <3>3, <3>4
  <2>5. ASSUME Pending(call), UNCHANGED consent, NEW s \in Slots, late[s] = NoCall,
               late' = [late EXCEPT ![s] = call]
        PROVE  Backed(c)' /\ Accounted(c)'
    <3>1. /\ Cardinality(ForcedLate(c)') =
               Cardinality(ForcedLate(c)) + One(Forced(call, c)) - One(Forced(late[s], c))
          /\ Cardinality(HandledLate(c)') =
               Cardinality(HandledLate(c)) + One(Done(call, c)) - One(Done(late[s], c))
      BY <2>5, LateStep
    <3>2. One(Forced(late[s], c)) = 0 /\ One(Done(call, c)) = 0 /\ One(Done(late[s], c)) = 0
      BY <1>n, <2>5, NoCallFields DEF Pending, Done, One
    <3>3. One(Forced(call, c))' = 0 /\ One(Crossed(c))' = 0
      BY <1>n, <2>1 DEF One, Crossed
    <3>4. Cardinality(ForcedLate(c))' = Cardinality(ForcedLate(c)) + One(Forced(call, c))
      BY <1>b, <1>c, <3>1, <3>2
    <3>5. Cardinality(HandledLate(c))' = Cardinality(HandledLate(c)) BY <1>b, <3>1, <3>2
    <3>6. Backed(c)' BY <1>a, <1>b, <1>c, <2>5, <3>3, <3>4 DEF Backed
    <3>7. Accounted(c)' BY <1>a, <1>b, <1>c, <2>1, <3>3, <3>5 DEF Accounted
    <3> QED BY <3>6, <3>7
  <2> QED BY <1>5, <2>3, <2>4, <2>5 DEF ShowLost
<1>6. CASE Confirm \/ ShowPaid \/ ShowRefused
  <2>1. call' = NoCall /\ UNCHANGED <<late, recent, consent, unasked>>
    BY <1>6 DEF Confirm, ShowPaid, ShowRefused
  <2>2. One(Forced(call', c)) = 0 /\ One(Crossed(c)') = 0 BY <1>n, <2>1 DEF One, Crossed
  <2> QED BY <1>b, <1>c, <1>k, <2>1, <2>2
<1>7. CASE Reload \/ RegisterKioskDevice
  BY <1>7, <1>n, <1>u DEF Reload, RegisterKioskDevice, LoadPage
<1>8. CASE CloseModal \/ SeeUpdate \/ UNCHANGED vars
  BY <1>8, <1>u DEF CloseModal, SeeUpdate, vars
<1>9. ASSUME NEW r \in Refreshes,
             \/ HandleKioskMenuRefresh(r) \/ SettingsArrive(r) \/ SettingsLost(r)
             \/ LoadProducts(r) \/ ProductsArrive(r) \/ ProductsLost(r)
      PROVE  Backed(c)' /\ Accounted(c)'
  BY <1>9, <1>u
     DEF HandleKioskMenuRefresh, SettingsArrive, SettingsLost, LoadProducts,
         ProductsArrive, ProductsLost
<1>10. ASSUME NEW p \in Products, NEW delta \in {-1, 1}, UpdateQty(p, delta)
       PROVE  Backed(c)' /\ Accounted(c)'
  BY <1>10, <1>u DEF UpdateQty
<1>11. ASSUME NEW d \in Cards, Expire(d) PROVE Backed(c)' /\ Accounted(c)'
  BY <1>11, <1>u DEF Expire
<1>12. ASSUME NEW m \in Menus, ChangeMenu(m) PROVE Backed(c)' /\ Accounted(c)'
  BY <1>12, <1>u DEF ChangeMenu
<1> QED BY <1>1, <1>2, <1>3, <1>4, <1>5, <1>6, <1>7, <1>8, <1>9, <1>10, <1>11, <1>12
        DEF Next, Answer

\* A second charge within 30 seconds without a yes of its own takes a request that
\* the page had given up and the server handled, one for each, although the check
\* is made without a lock (_process_nfc_payment_sync, closeRepeatPayModal).
THEOREM RepeatsAsked == Spec => []UnaskedOnlyIfGivenUp
<1>1. Init => RepeatInv
  <2> SUFFICES ASSUME Init, NEW c \in Cards PROVE Backed(c) /\ Accounted(c) BY DEF RepeatInv
  <2>1. \A s \in Slots : late[s] = NoCall BY DEF Init
  <2>2. ~Forced(NoCall, c) /\ ~Done(NoCall, c) /\ NoCall.st # "checked" /\ NoCall.st # "served"
    BY NoCallFields DEF Forced, Done
  <2>3. ForcedLate(c) = {} /\ HandledLate(c) = {}
    BY <2>1, <2>2 DEF ForcedLate, HandledLate
  <2>4. Cardinality(ForcedLate(c)) = 0 /\ Cardinality(HandledLate(c)) = 0
    BY <2>3, FS_EmptySet
  <2>5. One(Forced(call, c)) = 0 /\ One(Crossed(c)) = 0 BY <2>2 DEF Init, One, Crossed
  <2>6. consent[c] = 0 /\ unasked[c] = 0 BY DEF Init
  <2> QED BY <2>4, <2>5, <2>6 DEF Backed, Accounted
<1>2. TypeInv /\ RepeatInv => UnaskedOnlyIfGivenUp
  <2> SUFFICES ASSUME TypeInv, RepeatInv, NEW c \in Cards
               PROVE  unasked[c] <= Cardinality(HandledLate(c))
    BY DEF UnaskedOnlyIfGivenUp
  <2>1. unasked[c] \in Nat /\ One(Crossed(c)) \in 0..1 BY DEF TypeInv, TypeOK, One
  <2>2. HandledLate(c) \in SUBSET Slots BY DEF HandledLate
  <2>3. Cardinality(HandledLate(c)) \in Nat BY <2>2, Sizes
  <2> QED BY <2>1, <2>3 DEF RepeatInv, Accounted
<1> QED BY <1>1, <1>2, TypeAlways, RepeatStep, PTL DEF Spec

===============================================================================
