------------------------------- MODULE MemberApp -------------------------------
(***************************************************************************)
(* The member's page: the activation of an account before the login        *)
(* (AccountActivation), the first page behind it (MemberHome) and the lists*)
(* of what happened (HistoryPages), which the administrator's page has too.*)
(* They share the login and nothing else.                                  *)
(***************************************************************************)
EXTENDS AccountActivation

CONSTANTS
  Members, Deposits, Owner, Linked, Sockets, Plans,
  Kinds, Owners, Rows, Of, Table, Time, Day, First, Limit, Draws, Faults
VARIABLES
  ui, dialog, requests, socks, ref, timer, status, plan, asked, late,
  kind, owner, box, cursor, more, loading, last, call, rows, draws, faults, calm

homeVars == <<ui, dialog, requests, socks, ref, timer, status, plan, asked, late>>
listVars == <<kind, owner, box, cursor, more, loading, last, call, rows, draws, faults, calm>>

H == INSTANCE MemberHome WITH calls <- requests
L == INSTANCE HistoryPages

ASSUME AppAssumption == H!HomeConstants /\ L!HistoryConstants

\* The order of a list (HistoryPages).
ReadsInOrder == L!ReadsInOrder
\* A list shows its owner's rows (HistoryPages).
OwnRows == L!OwnRows
\* A list has no gaps (HistoryPages).
NothingLeftOut == L!NothingLeftOut
\* Whoever scrolls comes to the end (HistoryPages).
EndIsReached == L!EndIsReached
\* What is confirmed is what the first tap asked for (MemberHome).
ConfirmsTheAsked == H!ConfirmsTheAsked
\* One line to the server (MemberHome).
OneLine == H!OneLine
\* The page comes to show what is (MemberHome).
CatchesUp == H!CatchesUp

===============================================================================
