-------------------------------- MODULE MCPush --------------------------------
(***************************************************************************)
(* One device and three addresses. Each budget lets the page meet some of  *)
(* the disturbances: uses of the switch, views, choices, logouts, wakes of *)
(* the worker, expiries, faults, changes of a member's status.             *)
(***************************************************************************)
EXTENDS PushSubscription

CONSTANTS kim, lee, first, second

Left(t, v, c, l, w, x, f, s) ==
  [e \in Events |-> CASE e = "toggles" -> t [] e = "views" -> v [] e = "choices" -> c
     [] e = "logouts" -> l [] e = "wakes" -> w [] e = "expiries" -> x
     [] e = "faults" -> f [] OTHER -> s]
User(l) == [app |-> "user", left |-> l]
Manager(l) == [app |-> "admin", left |-> l]
MCBudgets == {User(Left(2, 0, 0, 0, 1, 0, 0, 0)), User(Left(2, 0, 0, 0, 0, 0, 1, 0)),
              User(Left(1, 0, 0, 0, 1, 1, 0, 0)), User(Left(1, 0, 0, 1, 0, 0, 1, 0)),
              User(Left(1, 0, 0, 1, 1, 0, 0, 0)),
              User(Left(1, 0, 0, 1, 0, 0, 0, 1)),
              Manager(Left(1, 1, 0, 0, 0, 0, 1, 0)), Manager(Left(2, 0, 1, 0, 0, 0, 0, 0)),
              Manager(Left(2, 1, 0, 0, 0, 0, 0, 0))}

===============================================================================
