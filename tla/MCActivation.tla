----------------------------- MODULE MCActivation -----------------------------
(***************************************************************************)
(* Two members and up to three numbers. Each budget lets the page meet     *)
(* some of: changes of the number, requests, guesses, faults, logouts.     *)
(***************************************************************************)
EXTENDS AccountActivation

CONSTANTS kim, lee

MCJoined == {{}, {kim}}
Budget(e, a, g, f, l, x) ==
  [edits |-> e, asks |-> a, guesses |-> g, faults |-> f, logouts |-> l, crossings |-> x]
MCBudgets == {Budget(2, 2, 1, 0, 0, 0), Budget(1, 2, 1, 1, 0, 0), Budget(1, 2, 3, 0, 0, 0),
              Budget(3, 2, 0, 0, 1, 0), Budget(1, 3, 1, 0, 0, 0), Budget(1, 2, 1, 0, 0, 1)}

===============================================================================
