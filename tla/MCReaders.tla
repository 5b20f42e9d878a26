------------------------------- MODULE MCReaders -------------------------------
(***************************************************************************)
(* A kiosk with one USB device of each kind.                               *)
(***************************************************************************)
EXTENDS CardReaders

CONSTANTS c, v, h

DeviceKind(d) == IF d = c THEN "CCID" ELSE IF d = v THEN "VENDOR" ELSE "KEYBOARD"

===============================================================================
