------------------------------- MODULE MCAdmin -------------------------------
(***************************************************************************)
(* In a behaviour one part of the page is in use and the others stand      *)
(* still, because they share nothing but the login.                        *)
(* Page: two members, two deposits, of which one names the first member    *)
(* and one names nobody. Scanner: two cards and two codes, of which the    *)
(* first card and code are the first member's, the second code the second's*)
(* Kiosks: one kiosk, one product in the catalogue and one that may join.  *)
(***************************************************************************)
EXTENDS AdminApp

CONSTANTS kim, lee, d1, d2, k1, k2, q1, q2, soup, rice
VARIABLES part

MCNamed == [d \in Deposits |-> IF d = d1 THEN {kim} ELSE {}]
MCMatched == [d \in Deposits |-> IF d = d1 THEN kim ELSE None]
Budget(t, l, c, f, e) == [taps |-> t, links |-> l, changes |-> c, faults |-> f, expiries |-> e]
NoBudget == Budget(0, 0, 0, 0, 0)
\* Each lets one kind of disturbance meet as many taps as it needs.
MCBudgets == {NoBudget, Budget(4, 1, 0, 0, 0), Budget(3, 0, 1, 0, 0), Budget(3, 0, 0, 1, 1),
              Budget(3, 1, 0, 1, 0), Budget(2, 1, 1, 0, 0)}

MCRows == {[uid |-> k1, user |-> kim, type |-> "NFC"], [uid |-> q1, user |-> kim, type |-> "QR"],
           [uid |-> q2, user |-> lee, type |-> "QR"]}
Tour(a, u, o, s, c, p, f) ==
  [app |-> a, auto |-> u, opens |-> o, scans |-> s, starts |-> c, puts |-> p, faults |-> f]
NoTour == Tour(FALSE, FALSE, 0, 0, 0, 0, 0)
\* In a browser and in the application, with and without going on by itself; two
\* registrations of which one fails; a camera that is refused.
MCTours == {NoTour, Tour(FALSE, TRUE, 3, 2, 2, 1, 0), Tour(FALSE, FALSE, 2, 3, 2, 1, 0),
            Tour(TRUE, TRUE, 3, 3, 2, 1, 0), Tour(TRUE, FALSE, 3, 3, 0, 2, 1),
            Tour(FALSE, TRUE, 2, 2, 2, 1, 1)}

Plan(t, w, o, f, p, k, r) ==
  [taps |-> t, own |-> w, others |-> o, faults |-> f, toPage |-> p, toKiosk |-> k, polls |-> r]
NoPlan == Plan(0, 0, 0, 0, 0, 0, 0)
\* The page with its own signals, a failure, the kiosk's taps or another administrator;
\* the kiosk with another administrator, a failure, or two signals.
MCPlans == {NoPlan, Plan(4, 0, 0, 0, 1, 0, 1), Plan(3, 0, 0, 1, 1, 0, 0), Plan(2, 1, 0, 0, 1, 1, 0),
            Plan(3, 0, 1, 0, 1, 0, 0), Plan(0, 2, 1, 0, 0, 1, 1), Plan(0, 2, 0, 1, 0, 0, 1),
            Plan(0, 0, 2, 1, 0, 2, 1)}

MCInit ==
  /\ Init /\ Sc!Init /\ K!Init
  /\ part \in {"page", "scanner", "kiosks"}
  /\ part = "page" <=> budget # NoBudget
  /\ part = "scanner" <=> tour # NoTour
  /\ part = "kiosks" <=> left # NoPlan
  /\ part = "kiosks" \/ row.menu = {}
MCNext ==
  /\ UNCHANGED part
  /\ \/ part = "page" /\ Next /\ UNCHANGED <<scannerVars, kioskVars>>
     \/ part = "scanner" /\ Sc!ScanNext /\ UNCHANGED <<vars, kioskVars>>
     \/ part = "kiosks" /\ K!SettingsNext /\ UNCHANGED <<vars, scannerVars>>
MCSpec == MCInit /\ [][MCNext]_<<part, vars, scannerVars, kioskVars>>

===============================================================================
