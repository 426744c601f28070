------------------------------ MODULE Scaling ------------------------------
(***************************************************************************)
(* How many tasks a queue consumer has: CloudWatch alarms on the depth of  *)
(* its queue drive step scaling policies (terraform/modules/autoscaling),  *)
(* while scripts/chaos.sh, the chaos endpoints of the dashboard and        *)
(* terraform set the number of tasks, or take the policies away, behind    *)
(* their back.                                                             *)
(*                                                                         *)
(* Time is counted in alarm periods of 60 seconds, one at a time for each  *)
(* service.  Once a period the alarms of a service are evaluated on the    *)
(* maximum depth of its queue, and an alarm acts in every period it is in  *)
(* ALARM.  ECS reaches the number of tasks it is told before the period    *)
(* ends; nobody takes messages from the queue of a service without tasks.  *)
(***************************************************************************)
EXTENDS Integers, Sequences

CONSTANTS
  Services,  \* services that scale on the depth of a queue
  Alarm,     \* Alarm[s]: thresholds and evaluation periods
  Policy,    \* Policy[s]: bounds of the target, steps and cooldowns
  Depths,    \* bound: Depths[s], the depths of its queue
  KillList,  \* HIGH_PRIORITY_SERVICES, the services chaos.sh kills
  MaxOps,    \* bound: commands given by operators
  Faults     \* "throttled": a deregistration is refused

\* Thresholds (messages) and evaluation periods of the two alarms of a service.
HighPriorityAlarm == [out |-> 10, outPeriods |-> 1, in |-> 5,  inPeriods |-> 3]
LowPriorityAlarm  == [out |-> 50, outPeriods |-> 2, in |-> 10, inPeriods |-> 5]
AlertAlarm        == [out |-> 5,  outPeriods |-> 1, in |-> 2,  inPeriods |-> 3]
ReviewAlarm       == [out |-> 1,  outPeriods |-> 1, in |-> 1,  inPeriods |-> 5]

\* Bounds of the target; how far above the threshold two tasks are added instead
\* of one; cooldowns in periods.
HighPriorityPolicy == [min |-> 1, max |-> 5, step |-> 40,  outCooldown |-> 1, inCooldown |-> 2]
LowPriorityPolicy  == [min |-> 1, max |-> 3, step |-> 150, outCooldown |-> 2, inCooldown |-> 5]
AlertPolicy        == [min |-> 1, max |-> 5, step |-> 15,  outCooldown |-> 1, inCooldown |-> 2]
ReviewPolicy       == [min |-> 0, max |-> 3, step |-> 9,   outCooldown |-> 1, inCooldown |-> 5]

ASSUME ScalingAssumption ==
  /\ Alarm \in [Services -> [out : Nat, outPeriods : Nat \ {0}, in : Nat, inPeriods : Nat \ {0}]]
  /\ Policy \in [Services -> [min : Nat, max : Nat \ {0}, step : Nat \ {0},
                              outCooldown : Nat \ {0}, inCooldown : Nat \ {0}]]
  /\ \A s \in Services :
       /\ Alarm[s].in <= Alarm[s].out
       /\ Policy[s].min <= Policy[s].max
       /\ Depths[s] \subseteq Nat
       /\ 0 \in Depths[s]
  /\ KillList \in Seq(Services)
  /\ MaxOps \in Nat
  /\ Faults \subseteq {"throttled"}

VARIABLES
  depth,       \* depth[s]: the maximum depth of its queue in the last period
  desired,     \* desired[s]: the desired count of the ECS service
  registered,  \* registered[s]: it is a scalable target, with its policies
  high, low,   \* for how many periods the thresholds have been crossed
  cooldown,    \* cooldown[s]: periods left, and tasks added if it is one of scaling out
  script,      \* the command of chaos.sh that runs and the calls it has still to make
  ops,         \* commands given so far
  announced,   \* ghost: the last kill said that all services are killed
  off,         \* ghost: services a kill deregistered and nobody touched since
  calm         \* ghost: calm[s], periods since a policy last added a task

targetVars == <<desired, registered, cooldown>>
alarmVars  == <<depth, high, low>>
vars == <<alarmVars, targetVars, script, ops, announced, off, calm>>

AtLeast(a, b) == IF a < b THEN b ELSE a
AtMost(a, b)  == IF a > b THEN b ELSE a

NoCooldown == [left |-> 0, added |-> 0]
NoScript   == [name |-> "none", calls |-> <<>>]

\* Mutant: the services are stopped before they are deregistered.
KillCalls_StopsFirst ==
  [i \in 1..Len(KillList) |-> [op |-> "zero", service |-> KillList[i]]]
    \o [i \in 1..Len(KillList) |-> [op |-> "deregister", service |-> KillList[i]]]

\* The calls of `chaos.sh kill`: all services are deregistered before one is stopped.
KillCalls ==
  [i \in 1..Len(KillList) |-> [op |-> "deregister", service |-> KillList[i]]]
    \o [i \in 1..Len(KillList) |-> [op |-> "zero", service |-> KillList[i]]]

\* The calls of `chaos.sh restore`, none of which registers anything.
RestoreCalls == [i \in 1..Len(KillList) |-> [op |-> "one", service |-> KillList[i]]]

Init ==
  /\ depth = [s \in Services |-> 0]
  /\ desired = [s \in Services |-> 1]
  /\ registered = [s \in Services |-> TRUE]
  /\ high = [s \in Services |-> 0]
  /\ low = [s \in Services |-> 0]
  /\ cooldown = [s \in Services |-> NoCooldown]
  /\ script = NoScript
  /\ ops = 0
  /\ announced = FALSE
  /\ off = {}
  /\ calm = [s \in Services |-> Alarm[s].inPeriods]

-----------------------------------------------------------------------------
(* One period of the alarms and policies of a service.                       *)

\* Mutant: a deeper queue does not end the run of the scale-in alarm.
LowRun_NotReset(s, d) ==
  IF d < Alarm[s].in THEN AtMost(low[s] + 1, Alarm[s].inPeriods) ELSE low[s]

\* For how many periods, of those that count, the alarms' conditions have held
\* when the depth is now d.
HighRun(s, d) == IF d >= Alarm[s].out THEN AtMost(high[s] + 1, Alarm[s].outPeriods) ELSE 0
LowRun(s, d)  == IF d < Alarm[s].in THEN AtMost(low[s] + 1, Alarm[s].inPeriods) ELSE 0

ScaleOutAlarm(s, d) == HighRun(s, d) = Alarm[s].outPeriods
ScaleInAlarm(s, d)  == LowRun(s, d) = Alarm[s].inPeriods

\* Mutant: the maximum of the target is forgotten.
Goal_NoMaximum(s, d) ==
  LET adjustment == IF d >= Alarm[s].out + Policy[s].step THEN 2 ELSE 1
  IN  AtLeast(desired[s] - cooldown[s].added + adjustment, Policy[s].min)

\* What the scale-out policy asks for: one task more, or two if the depth is far
\* above the threshold; tasks added within its cooldown count towards them, and
\* the bounds of the target hold, for a service below its minimum too.
Goal(s, d) ==
  LET adjustment == IF d >= Alarm[s].out + Policy[s].step THEN 2 ELSE 1
  IN  AtMost(AtLeast(desired[s] - cooldown[s].added + adjustment, Policy[s].min), Policy[s].max)

\* The scale-in policy rests for its cooldown after it has removed a task.
CoolingIn(s) == cooldown[s].left > 0 /\ cooldown[s].added = 0

\* Mutant: a service that was brought below its minimum is not scaled.
MayScaleOut_FromMinimum(s, d) ==
  /\ registered[s] /\ desired[s] >= Policy[s].min
  /\ ScaleOutAlarm(s, d) /\ Goal(s, d) > desired[s]

MayScaleOut(s, d) == registered[s] /\ ScaleOutAlarm(s, d) /\ Goal(s, d) > desired[s]
MayScaleIn(s, d) ==
  registered[s] /\ ScaleInAlarm(s, d) /\ ~CoolingIn(s) /\ desired[s] > Policy[s].min

\* A cooldown of n periods, at the end of the first of them.
Cooldown(n, added) == IF n = 1 THEN NoCooldown ELSE [left |-> n - 1, added |-> added]

\* What is left of a cooldown after one more period.
Elapsed(c) == IF c.left = 0 THEN NoCooldown ELSE Cooldown(c.left, c.added)

ScaleOut(s, d) ==
  /\ MayScaleOut(s, d)
  /\ desired' = [desired EXCEPT ![s] = Goal(s, d)]
  /\ cooldown' = [cooldown EXCEPT ![s] =
       Cooldown(Policy[s].outCooldown, @.added + Goal(s, d) - desired[s])]
  /\ calm' = [calm EXCEPT ![s] = 0]

ScaleIn(s, d) ==
  /\ MayScaleIn(s, d)
  /\ desired' = [desired EXCEPT ![s] = @ - 1]
  /\ cooldown' = [cooldown EXCEPT ![s] = Cooldown(Policy[s].inCooldown, 0)]
  /\ calm' = [calm EXCEPT ![s] = AtMost(@ + 1, Alarm[s].inPeriods)]

Hold(s, d) ==
  /\ ~MayScaleOut(s, d) /\ ~MayScaleIn(s, d)
  /\ cooldown' = [cooldown EXCEPT ![s] = Elapsed(@)]
  /\ calm' = [calm EXCEPT ![s] = AtMost(@ + 1, Alarm[s].inPeriods)]
  /\ UNCHANGED desired

Period(s) ==
  \E d \in Depths[s] :
    /\ desired[s] = 0 => d >= depth[s]
    /\ depth' = [depth EXCEPT ![s] = d]
    /\ high' = [high EXCEPT ![s] = HighRun(s, d)]
    /\ low' = [low EXCEPT ![s] = LowRun(s, d)]
    /\ ScaleOut(s, d) \/ ScaleIn(s, d) \/ Hold(s, d)
    /\ UNCHANGED <<registered, script, ops, announced, off>>

-----------------------------------------------------------------------------
(* scripts/chaos.sh, one command at a time.                                  *)

Command == ops < MaxOps /\ ops' = ops + 1

StartKill ==
  /\ script = NoScript
  /\ Command
  /\ script' = [name |-> "kill", calls |-> KillCalls]
  /\ announced' = FALSE
  /\ off' = {}
  /\ UNCHANGED <<alarmVars, targetVars, calm>>

StartRestore ==
  /\ script = NoScript
  /\ Command
  /\ script' = [name |-> "restore", calls |-> RestoreCalls]
  /\ announced' = FALSE
  /\ UNCHANGED <<alarmVars, targetVars, off, calm>>

\* The script goes on to its next call; after the last one a kill announces that
\* all services are killed and only watches the queues.
Returns ==
  LET rest == Tail(script.calls) IN
  /\ script' = IF rest = <<>> THEN NoScript ELSE [script EXCEPT !.calls = rest]
  /\ announced' = (announced \/ (rest = <<>> /\ script.name = "kill"))

NextCall(op, s) == script.calls # <<>> /\ Head(script.calls) = [op |-> op, service |-> s]

\* deregister-scalable-target takes the policies away; any error of it is taken
\* for a target that was not registered.
Deregister(s) ==
  /\ NextCall("deregister", s)
  /\ \/ /\ registered' = [registered EXCEPT ![s] = FALSE]
        /\ cooldown' = [cooldown EXCEPT ![s] = NoCooldown]
        /\ off' = off \cup {s}
     \/ /\ "throttled" \in Faults
        /\ UNCHANGED <<registered, cooldown, off>>
  /\ Returns
  /\ UNCHANGED <<alarmVars, desired, ops, calm>>

SetDesired(s, n) == desired' = [desired EXCEPT ![s] = n]

UpdateService(op, s, n) ==
  /\ NextCall(op, s)
  /\ SetDesired(s, n)
  /\ Returns
  /\ UNCHANGED <<alarmVars, registered, cooldown, ops, off, calm>>

Zero(s)    == UpdateService("zero", s, 0)
Restore(s) == UpdateService("one", s, 1)

\* update-service fails and `set -e` ends the script, or somebody interrupts it.
Abort ==
  /\ script # NoScript
  /\ script' = NoScript
  /\ UNCHANGED <<alarmVars, targetVars, ops, announced, off, calm>>

-----------------------------------------------------------------------------
(* The dashboard, whose view of a service may be old, and terraform, which    *)
(* ignores the desired count of the ECS services.                            *)

KillService(s) ==
  /\ Command
  /\ SetDesired(s, 0)
  /\ UNCHANGED <<alarmVars, registered, cooldown, script, announced, off, calm>>

RestartService(s) ==
  /\ Command
  /\ SetDesired(s, 1)
  /\ off' = off \ {s}
  /\ UNCHANGED <<alarmVars, registered, cooldown, script, announced, calm>>

\* Registering a target may bring a service that is below the minimum up to it.
TerraformApply(s) ==
  /\ ~registered[s]
  /\ Command
  /\ registered' = [registered EXCEPT ![s] = TRUE]
  /\ desired' \in {desired, [desired EXCEPT ![s] = AtLeast(@, Policy[s].min)]}
  /\ off' = off \ {s}
  /\ UNCHANGED <<alarmVars, cooldown, script, announced, calm>>

Next ==
  \/ \E s \in Services :
       \/ Period(s)
       \/ Deregister(s) \/ Zero(s) \/ Restore(s)
       \/ KillService(s) \/ RestartService(s) \/ TerraformApply(s)
  \/ StartKill \/ StartRestore \/ Abort

Spec == Init /\ [][Next]_vars

\* Periods do not end: unless a period at the depth the queue has would change
\* nothing, there is another one, at this or at another depth.  Weak fairness of
\* Period itself would ask that depths change for ever.
Steady(s) == Period(s) /\ depth' = depth

PeriodsGoOn(s) ==
  []<>(~ENABLED <<Steady(s)>>_vars) \/ []<><<Period(s)>>_vars

FairSpec == Spec /\ \A s \in Services : PeriodsGoOn(s)

-----------------------------------------------------------------------------
TypeOK ==
  /\ depth \in [Services -> Nat] /\ \A s \in Services : depth[s] \in Depths[s]
  /\ desired \in [Services -> Nat] /\ \A s \in Services : desired[s] <= Policy[s].max
  /\ registered \in [Services -> BOOLEAN]
  /\ high \in [Services -> Nat] /\ \A s \in Services : high[s] <= Alarm[s].outPeriods
  /\ low \in [Services -> Nat] /\ \A s \in Services : low[s] <= Alarm[s].inPeriods
  /\ cooldown \in [Services -> [left : Nat, added : Nat]]
  /\ script \in [name : {"none", "kill", "restore"},
                 calls : Seq([op : {"deregister", "zero", "one"}, service : Services])]
  /\ ops \in 0..MaxOps
  /\ announced \in BOOLEAN
  /\ off \subseteq Services
  /\ calm \in [Services -> Nat]

\* A kill that said that all services are killed has left every service it did
\* deregister without tasks, and no alarm brings one back, whatever its backlog,
\* before an operator restores, restarts or registers it (chaos.sh:54-80).
AnnouncedKillHolds == announced => \A s \in off : desired[s] = 0

\* A policy takes no task away within the evaluation periods of the scale-in
\* alarm after one was added, whatever the queue, the cooldowns and the operators
\* do in between (autoscaling main.tf:153: "to avoid flapping").
NoFlapping ==
  [][\A s \in Services :
       Period(s) /\ desired'[s] < desired[s] => calm[s] + 1 >= Alarm[s].inPeriods]_vars

\* A backlog that stays while the policies are registered brings a service to its
\* maximum, also from the 0 tasks of the dashboard's kill, the 1 of its restart,
\* and after a kill that was restored and registered again.
BacklogReachesMax ==
  \A s \in Services :
    <>[](registered[s] /\ depth[s] >= Alarm[s].out) => <>[](desired[s] = Policy[s].max)

=============================================================================
