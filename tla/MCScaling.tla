----------------------------- MODULE MCScaling -----------------------------
(***************************************************************************)
(* TLC instance of Scaling: the fraud service, which chaos.sh kills, with  *)
(* the high-priority policies up to three tasks, and the analytics service *)
(* with the low-priority policies, whose five periods of scaling in are    *)
(* cut to three.  The depths lie below, between and above the thresholds,  *)
(* those of fraud also where two tasks are added.                          *)
(***************************************************************************)
EXTENDS Scaling, TLC

MCAlarm  == "fraud" :> HighPriorityAlarm
         @@ "analytics" :> [LowPriorityAlarm EXCEPT !.inPeriods = 3]
MCPolicy == "fraud" :> [HighPriorityPolicy EXCEPT !.max = 3]
         @@ "analytics" :> [LowPriorityPolicy EXCEPT !.inCooldown = 3]
MCDepths == "fraud" :> {0, 7, 50} @@ "analytics" :> {0, 60}
MCKillList == <<"fraud">>
=============================================================================
