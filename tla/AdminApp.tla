------------------------------- MODULE AdminApp -------------------------------
(***************************************************************************)
(* The administrator's page: the members and deposits (AdminDesk), the card*)
(* scanner (AdminScanner) and the kiosks' settings (KioskSettings). They   *)
(* share the login and the two dialogs, and a found member's detail is all *)
(* that one does to another.                                               *)
(***************************************************************************)
EXTENDS AdminDesk

CONSTANTS Users, Cards, Codes, FirstRows, Tours, Products, OnSale, Plans
VARIABLES
  modal, ndef, cool, asking, puts, reload, cards, rows, tour, presented, crossed,
  row, sold, entry, products, screen, selected, default, question, device, ticks, pick,
  requests, news, left, calm, orderly

scannerVars == <<modal, ndef, cool, asking, puts, reload, cards, rows, tour, presented, crossed>>
kioskVars == <<row, sold, entry, products, screen, selected, default, question, device, ticks,
               pick, requests, news, left, calm, orderly>>

Sc == INSTANCE AdminScanner
K == INSTANCE KioskSettings WITH view <- screen, form <- default

ASSUME AppAssumption == Sc!ScannerConstants /\ K!SettingsConstants

\* What is registered for a member was presented for him (AdminScanner).
RegistersPresented == Sc!RegistersPresented
\* The kiosk's detail shows what the server has (KioskSettings).
AgreesAtRest == K!AgreesAtRest
\* The kiosk offers what the server has (KioskSettings).
DeviceFollows == K!DeviceFollows
\* What is taken away as the default at the kiosk is taken away in the server.
DefaultIsStored == K!DefaultIsStored

===============================================================================
