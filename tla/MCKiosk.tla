-------------------------------- MODULE MCKiosk --------------------------------
(***************************************************************************)
(* Small kiosks: two products, the first of which is the default even when *)
(* it is taken off the menu.                                               *)
(***************************************************************************)
EXTENDS KioskScreen

CONSTANTS p1, p2

BothProducts == [default |-> p1, items |-> {p1, p2}]
OnlySecond == [default |-> p1, items |-> {p2}]

TwoMenus == {BothProducts, OnlySecond}
OneMenu == {BothProducts}

===============================================================================
