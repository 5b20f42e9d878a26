--------------------------------- MODULE MCSms ---------------------------------
(***************************************************************************)
(* The text messages in four small settings, by scene:                     *)
(*   faults  one message and one phone; requests and answers get lost, the *)
(*           phone restarts, and one claim is under way at a time          *)
(*   late    one message and one phone, which gives up on its claims and   *)
(*           asks again while they are still in the server                 *)
(*   phones  one message and two phones, nothing is lost                   *)
(*   batch   two messages, claimed together by one phone, nothing is lost  *)
(* None is an activation code (codes only rule out a retry).               *)
(***************************************************************************)
EXTENDS SmsOutbox

CONSTANTS Scenes, First, Slot   \* the scenes of a run; its first phone and claim

VARIABLE scene
mcVars == <<vars, scene>>

MCInit == Init /\ scene \in Scenes
OneMessage == \A m \in Messages \ {1} : row'[m].st = "NONE" /\ m \in active'
OnePhone == \A d \in Devices \ {First} : phone'[d] = Idle
OneClaim == \A r \in Requests \ {Slot} : claim'[r] = NoClaim
MCNext ==
  /\ \/ scene = "faults" /\ Next /\ OneMessage /\ OnePhone /\ OneClaim
     \/ scene = "late" /\ (Calm \/ PollTimeout(First)) /\ OneMessage /\ OnePhone
     \/ scene = "phones" /\ Calm /\ OneMessage
     \/ scene = "batch" /\ Calm /\ OnePhone
  /\ UNCHANGED scene

MCSpec == MCInit /\ [][MCNext]_mcVars /\ Fairness

===============================================================================
