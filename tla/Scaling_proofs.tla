--------------------------- MODULE Scaling_proofs ---------------------------
(***************************************************************************)
(* Proofs about Scaling: for any services, thresholds, policies and kill   *)
(* list, and any number of commands.                                       *)
(***************************************************************************)
EXTENDS Scaling, TLAPS

-----------------------------------------------------------------------------
(* The calls of the two commands.                                            *)

Ops   == {"deregister", "zero", "one"}
Calls == Seq([op : Ops, service : Services])

\* Both commands make calls that there are.
LEMMA CallsTyped == KillCalls \in Calls /\ RestoreCalls \in Calls
<1> DEFINE d == [i \in 1..Len(KillList) |-> [op |-> "deregister", service |-> KillList[i]]]
<1> DEFINE z == [i \in 1..Len(KillList) |-> [op |-> "zero", service |-> KillList[i]]]
<1>1. Len(KillList) \in Nat /\ \A i \in 1..Len(KillList) : KillList[i] \in Services
  BY ScalingAssumption
<1>2. d \in Calls
  BY <1>1 DEF Calls, Ops
<1>3. z \in Calls
  BY <1>1 DEF Calls, Ops
<1>4. RestoreCalls \in Calls
  BY <1>1 DEF RestoreCalls, Calls, Ops
<1> QED
  BY <1>2, <1>3, <1>4 DEF KillCalls, Calls

\* A kill stops, later on, every service it deregisters, and starts none.
StopsLater(calls) ==
  /\ \A i \in 1..Len(calls) : calls[i].op # "one"
  /\ \A i \in 1..Len(calls) : calls[i].op = "deregister" =>
       \E j \in (i + 1)..Len(calls) :
         calls[j].op = "zero" /\ calls[j].service = calls[i].service

\* The kill script asks for desired 0 of what it deregistered.
LEMMA KillStopsLater == StopsLater(KillCalls)
<1> DEFINE n == Len(KillList)
<1>1. n \in Nat
  BY ScalingAssumption
<1>2. Len(KillCalls) = n + n
  BY <1>1 DEF KillCalls
<1>3. ASSUME NEW i \in 1..n
      PROVE  KillCalls[i].op = "deregister" /\ KillCalls[i].service = KillList[i]
  BY <1>1 DEF KillCalls
<1>4. ASSUME NEW i \in 1..n
      PROVE  KillCalls[n + i].op = "zero" /\ KillCalls[n + i].service = KillList[i]
  BY <1>1 DEF KillCalls
<1> HIDE DEF n
<1>5. ASSUME NEW i \in 1..(n + n)
      PROVE  KillCalls[i].op # "one" /\ (KillCalls[i].op = "deregister" => i \in 1..n)
  <2>1. CASE i \in 1..n
    BY <1>3, <2>1
  <2>2. CASE i \in (n + 1)..(n + n)
    <3>1. i - n \in 1..n /\ n + (i - n) = i
      BY <1>1, <2>2
    <3>2. KillCalls[n + (i - n)].op = "zero"
      BY <1>4, <3>1
    <3> QED
      BY <3>1, <3>2
  <2> QED
    BY <1>1, <2>1, <2>2
<1>6. ASSUME NEW i \in 1..n
      PROVE  \E j \in (i + 1)..(n + n) :
               KillCalls[j].op = "zero" /\ KillCalls[j].service = KillCalls[i].service
  <2>1. n + i \in (i + 1)..(n + n)
    BY <1>1
  <2> QED
    BY <1>3, <1>4, <2>1
<1> QED
  BY <1>2, <1>5, <1>6 DEF StopsLater

\* Making the first call leaves calls of the same kind.
LEMMA TailOfCalls ==
  ASSUME NEW calls \in Calls, calls # <<>>
  PROVE  /\ Tail(calls) \in Calls
         /\ Len(Tail(calls)) = Len(calls) - 1
         /\ Len(calls) \in Nat \ {0}
         /\ Head(calls) = calls[1]
         /\ calls[1] \in [op : Ops, service : Services]
         /\ \A i \in 1..Len(Tail(calls)) : Tail(calls)[i] = calls[i + 1]
<1> DEFINE R == [op : Ops, service : Services]
<1>1. calls \in Seq(R)
  BY DEF Calls
<1> HIDE DEF R
<1>2. /\ Tail(calls) \in Seq(R)
      /\ Len(Tail(calls)) = Len(calls) - 1
      /\ Len(calls) \in Nat \ {0}
      /\ Head(calls) = calls[1]
      /\ \A i \in 1..Len(Tail(calls)) : Tail(calls)[i] = calls[i + 1]
  BY <1>1
<1>3. calls[1] \in R
  BY <1>1, <1>2
<1> QED
  BY <1>2, <1>3 DEF R, Calls

\* What is left of a kill still stops what it deregisters.
LEMMA TailStopsLater ==
  ASSUME NEW calls \in Calls, calls # <<>>, StopsLater(calls)
  PROVE  StopsLater(Tail(calls))
<1>1. Len(Tail(calls)) = Len(calls) - 1 /\ Len(calls) \in Nat \ {0}
      /\ \A i \in 1..Len(Tail(calls)) : Tail(calls)[i] = calls[i + 1]
  BY TailOfCalls
<1> DEFINE rest == Tail(calls)
<1> HIDE DEF rest
<1>0. Len(rest) = Len(calls) - 1 /\ \A i \in 1..Len(rest) : rest[i] = calls[i + 1]
  BY <1>1 DEF rest
<1>2. ASSUME NEW i \in 1..Len(rest) PROVE rest[i].op # "one"
  <2>1. i + 1 \in 1..Len(calls)
    BY <1>0, <1>1
  <2> QED
    BY <1>0, <2>1 DEF StopsLater
<1>3. ASSUME NEW i \in 1..Len(rest), rest[i].op = "deregister"
      PROVE  \E j \in (i + 1)..Len(rest) :
               rest[j].op = "zero" /\ rest[j].service = rest[i].service
  <2>1. i + 1 \in 1..Len(calls) /\ calls[i + 1].op = "deregister"
    BY <1>0, <1>1, <1>3
  <2>2. PICK j \in ((i + 1) + 1)..Len(calls) :
               calls[j].op = "zero" /\ calls[j].service = calls[i + 1].service
    BY <2>1 DEF StopsLater
  <2>3. j - 1 \in (i + 1)..Len(rest) /\ j - 1 \in 1..Len(rest) /\ (j - 1) + 1 = j
    BY <1>0, <1>1, <2>2
  <2>4. rest[j - 1] = calls[j] /\ rest[i] = calls[i + 1]
    BY <1>0, <2>3
  <2> QED
    BY <2>2, <2>3, <2>4
<1> QED
  BY <1>2, <1>3 DEF StopsLater, rest

-----------------------------------------------------------------------------
(* Types and bounds.                                                         *)

Cooldowns == [left : Nat, added : Nat]

\* The constants, service by service.
LEMMA Constants ==
  ASSUME NEW s \in Services
  PROVE  /\ Alarm[s].out \in Nat /\ Alarm[s].in \in Nat /\ Alarm[s].in <= Alarm[s].out
         /\ Alarm[s].outPeriods \in Nat \ {0} /\ Alarm[s].inPeriods \in Nat \ {0}
         /\ Policy[s].min \in Nat /\ Policy[s].max \in Nat \ {0} /\ Policy[s].min <= Policy[s].max
         /\ Policy[s].step \in Nat
         /\ Policy[s].outCooldown \in Nat \ {0} /\ Policy[s].inCooldown \in Nat \ {0}
         /\ Depths[s] \subseteq Nat /\ 0 \in Depths[s]
BY ScalingAssumption

\* The commands are bounded by MaxOps.
LEMMA OpsBound == MaxOps \in Nat /\ (Command /\ ops \in 0..MaxOps => ops' \in 0..MaxOps)
<1>1. MaxOps \in Nat
  BY ScalingAssumption
<1> QED
  BY <1>1 DEF Command

\* The state in which no script runs is well typed.
LEMMA NoScriptTyped == NoScript \in [name : {"none", "kill", "restore"}, calls : Calls]
BY DEF NoScript, Calls

\* The alarms count up to their evaluation periods.
LEMMA Runs ==
  ASSUME TypeOK, NEW s \in Services, NEW d \in Depths[s]
  PROVE  /\ HighRun(s, d) \in Nat /\ HighRun(s, d) <= Alarm[s].outPeriods
         /\ LowRun(s, d) \in Nat /\ LowRun(s, d) <= Alarm[s].inPeriods
<1>1. /\ high[s] \in Nat /\ low[s] \in Nat /\ d \in Nat
  BY Constants DEF TypeOK
<1> QED
  BY <1>1, Constants DEF HighRun, LowRun, AtMost

\* Scaling out stays within the bounds of the target.
LEMMA GoalBounds ==
  ASSUME TypeOK, NEW s \in Services, NEW d \in Depths[s]
  PROVE  Goal(s, d) \in Nat /\ Policy[s].min <= Goal(s, d) /\ Goal(s, d) <= Policy[s].max
<1>1. desired[s] \in Nat /\ cooldown[s].added \in Nat
  BY DEF TypeOK
<1> QED
  BY <1>1, Constants DEF Goal, AtLeast, AtMost

\* Cooldowns are counted in periods.
LEMMA CooldownTyped ==
  ASSUME NEW n \in Nat \ {0}, NEW added \in Nat
  PROVE  Cooldown(n, added) \in Cooldowns
BY DEF Cooldown, Cooldowns, NoCooldown

\* A cooldown that runs down is still a cooldown.
LEMMA ElapsedTyped ==
  ASSUME NEW c \in Cooldowns
  PROVE  Elapsed(c) \in Cooldowns
<1>1. CASE c.left = 0
  BY <1>1 DEF Elapsed, Cooldowns, NoCooldown
<1>2. CASE c.left # 0
  <2>1. c.left \in Nat \ {0} /\ c.added \in Nat
    BY <1>2 DEF Cooldowns
  <2> QED
    BY <1>2, <2>1, CooldownTyped DEF Elapsed
<1> QED
  BY <1>1, <1>2

\* A period keeps the types.
LEMMA PeriodTyped ==
  ASSUME TypeOK, NEW s \in Services, Period(s)
  PROVE  TypeOK'
<1>1. PICK d \in Depths[s] :
        /\ depth' = [depth EXCEPT ![s] = d]
        /\ high' = [high EXCEPT ![s] = HighRun(s, d)]
        /\ low' = [low EXCEPT ![s] = LowRun(s, d)]
        /\ ScaleOut(s, d) \/ ScaleIn(s, d) \/ Hold(s, d)
        /\ UNCHANGED <<registered, script, ops, announced, off>>
  BY DEF Period
<1>2. d \in Nat
  BY Constants
<1>3. depth' \in [Services -> Nat] /\ \A t \in Services : depth'[t] \in Depths[t]
  BY <1>1, <1>2 DEF TypeOK
<1>4. high' \in [Services -> Nat] /\ \A t \in Services : high'[t] <= Alarm[t].outPeriods
  <2>1. HighRun(s, d) \in Nat /\ HighRun(s, d) <= Alarm[s].outPeriods
    BY Runs
  <2> QED
    BY <1>1, <2>1 DEF TypeOK
<1>5. low' \in [Services -> Nat] /\ \A t \in Services : low'[t] <= Alarm[t].inPeriods
  <2>1. LowRun(s, d) \in Nat /\ LowRun(s, d) <= Alarm[s].inPeriods
    BY Runs
  <2> QED
    BY <1>1, <2>1 DEF TypeOK
<1>6. /\ desired' \in [Services -> Nat] /\ \A t \in Services : desired'[t] <= Policy[t].max
      /\ cooldown' \in [Services -> Cooldowns]
      /\ calm' \in [Services -> Nat]
  <2>0. /\ desired \in [Services -> Nat] /\ \A t \in Services : desired[t] <= Policy[t].max
        /\ cooldown \in [Services -> Cooldowns]
        /\ calm \in [Services -> Nat]
    BY DEF TypeOK, Cooldowns
  <2>1. CASE ScaleOut(s, d)
    <3>1. Goal(s, d) \in Nat /\ Goal(s, d) <= Policy[s].max
      BY GoalBounds
    <3>2. cooldown[s].added + Goal(s, d) - desired[s] \in Nat
      <4>1. cooldown[s].added \in Nat /\ desired[s] \in Nat
        BY <2>0 DEF Cooldowns
      <4>2. Goal(s, d) > desired[s]
        BY <2>1 DEF ScaleOut, MayScaleOut
      <4> QED
        BY <3>1, <4>1, <4>2
    <3>3. Cooldown(Policy[s].outCooldown, cooldown[s].added + Goal(s, d) - desired[s]) \in Cooldowns
      BY <3>2, CooldownTyped, Constants
    <3> QED
      BY <2>0, <2>1, <3>1, <3>3 DEF ScaleOut
  <2>2. CASE ScaleIn(s, d)
    <3>1. desired[s] - 1 \in Nat /\ desired[s] - 1 <= Policy[s].max
      <4>1. desired[s] > Policy[s].min /\ desired[s] \in Nat /\ desired[s] <= Policy[s].max
        BY <2>0, <2>2 DEF ScaleIn, MayScaleIn
      <4> QED
        BY <4>1, Constants
    <3>2. Cooldown(Policy[s].inCooldown, 0) \in Cooldowns
      BY CooldownTyped, Constants
    <3>3. AtMost(calm[s] + 1, Alarm[s].inPeriods) \in Nat
      BY <2>0, Constants DEF AtMost
    <3> QED
      BY <2>0, <2>2, <3>1, <3>2, <3>3 DEF ScaleIn
  <2>3. CASE Hold(s, d)
    <3>1. Elapsed(cooldown[s]) \in Cooldowns
      BY <2>0, ElapsedTyped
    <3>2. AtMost(calm[s] + 1, Alarm[s].inPeriods) \in Nat
      BY <2>0, Constants DEF AtMost
    <3> QED
      BY <2>0, <2>3, <3>1, <3>2 DEF Hold
  <2> QED
    BY <1>1, <2>1, <2>2, <2>3
<1> QED
  BY <1>1, <1>3, <1>4, <1>5, <1>6 DEF TypeOK, Cooldowns

Scripts == [name : {"none", "kill", "restore"}, calls : Calls]

\* A script goes on within its calls.
LEMMA ReturnsTyped ==
  ASSUME TypeOK, script.calls # <<>>, Returns
  PROVE  script' \in Scripts /\ announced' \in BOOLEAN
<1>1. script \in Scripts /\ announced \in BOOLEAN
  BY DEF TypeOK, Scripts, Calls, Ops
<1>2. script.calls \in Calls /\ script.name \in {"none", "kill", "restore"}
  BY <1>1 DEF Scripts
<1>3. Tail(script.calls) \in Calls
  BY <1>2, TailOfCalls
<1>4. NoScript \in Scripts
  BY NoScriptTyped DEF Scripts
<1>5. [script EXCEPT !.calls = Tail(script.calls)] \in Scripts
  BY <1>1, <1>3 DEF Scripts
<1> QED
  BY <1>1, <1>4, <1>5 DEF Returns

\* Every step keeps the types.
LEMMA TypeStep ==
  ASSUME TypeOK, [Next]_vars
  PROVE  TypeOK'
<1> USE DEF TypeOK
<1>1. ASSUME NEW s \in Services, Period(s) PROVE TypeOK'
  <2> HIDE DEF TypeOK
  <2> QED
    BY <1>1, PeriodTyped
<1>2. ASSUME NEW s \in Services, Deregister(s) PROVE TypeOK'
  <2>1. script' \in Scripts /\ announced' \in BOOLEAN
    BY <1>2, ReturnsTyped DEF Deregister, NextCall
  <2>2. cooldown' \in [Services -> [left : Nat, added : Nat]]
    <3>1. cooldown \in [Services -> [left : Nat, added : Nat]] /\ NoCooldown \in [left : Nat, added : Nat]
      BY DEF NoCooldown
    <3>2. UNCHANGED cooldown \/ cooldown' = [cooldown EXCEPT ![s] = NoCooldown]
      BY <1>2 DEF Deregister
    <3> HIDE DEF TypeOK
    <3> QED
      BY <3>1, <3>2
  <2> QED
    BY <1>2, <2>1, <2>2 DEF Deregister, alarmVars, Scripts, Calls, Ops
<1>3. ASSUME NEW s \in Services, Zero(s) \/ Restore(s) PROVE TypeOK'
  <2>1. PICK op \in {"zero", "one"}, n \in {0, 1} : UpdateService(op, s, n)
    BY <1>3 DEF Zero, Restore
  <2>2. script' \in Scripts /\ announced' \in BOOLEAN
    BY <2>1, ReturnsTyped DEF UpdateService, NextCall
  <2>3. desired' \in [Services -> Nat] /\ \A t \in Services : desired'[t] <= Policy[t].max
    <3>1. desired \in [Services -> Nat] /\ \A t \in Services : desired[t] <= Policy[t].max
      OBVIOUS
    <3>2. n \in Nat /\ n <= Policy[s].max
      BY Constants
    <3>3. desired' = [desired EXCEPT ![s] = n]
      BY <2>1 DEF UpdateService, SetDesired
    <3> HIDE DEF TypeOK
    <3> QED
      BY <3>1, <3>2, <3>3
  <2> QED
    BY <2>1, <2>2, <2>3 DEF UpdateService, alarmVars, Scripts, Calls, Ops
<1>4. ASSUME NEW s \in Services, KillService(s) \/ RestartService(s) PROVE TypeOK'
  <2>1. PICK n \in {0, 1} : SetDesired(s, n)
    BY <1>4 DEF KillService, RestartService
  <2>2. desired' \in [Services -> Nat] /\ \A t \in Services : desired'[t] <= Policy[t].max
    <3>1. desired \in [Services -> Nat] /\ \A t \in Services : desired[t] <= Policy[t].max
      OBVIOUS
    <3>2. n \in Nat /\ n <= Policy[s].max
      BY Constants
    <3> HIDE DEF TypeOK
    <3> QED
      BY <2>1, <3>1, <3>2 DEF SetDesired
  <2>3. ops' \in 0..MaxOps
    BY <1>4, OpsBound DEF KillService, RestartService
  <2> QED
    BY <1>4, <2>2, <2>3 DEF KillService, RestartService, alarmVars
<1>5. ASSUME NEW s \in Services, TerraformApply(s) PROVE TypeOK'
  <2>1. desired' \in [Services -> Nat] /\ \A t \in Services : desired'[t] <= Policy[t].max
    <3>1. desired \in [Services -> Nat] /\ \A t \in Services : desired[t] <= Policy[t].max
      OBVIOUS
    <3>2. AtLeast(desired[s], Policy[s].min) \in Nat /\ AtLeast(desired[s], Policy[s].min) <= Policy[s].max
      BY <3>1, Constants DEF AtLeast
    <3>3. UNCHANGED desired \/ desired' = [desired EXCEPT ![s] = AtLeast(desired[s], Policy[s].min)]
      BY <1>5 DEF TerraformApply
    <3> DEFINE n == AtLeast(desired[s], Policy[s].min)
    <3> HIDE DEF TypeOK, n
    <3>4. CASE UNCHANGED desired
      BY <3>1, <3>4
    <3>5. CASE desired' = [desired EXCEPT ![s] = n]
      <4>1. n \in Nat /\ n <= Policy[s].max
        BY <3>2 DEF n
      <4> QED
        BY <3>1, <3>5, <4>1
    <3> QED
      BY <3>3, <3>4, <3>5 DEF n
  <2>2. ops' \in 0..MaxOps
    BY <1>5, OpsBound DEF TerraformApply
  <2> QED
    BY <1>5, <2>1, <2>2 DEF TerraformApply, alarmVars
<1>6. CASE StartKill \/ StartRestore
  <2>1. script' \in Scripts
    BY <1>6, CallsTyped DEF StartKill, StartRestore, Scripts
  <2>2. ops' \in 0..MaxOps
    BY <1>6, OpsBound DEF StartKill, StartRestore
  <2> QED
    BY <1>6, <2>1, <2>2 DEF StartKill, StartRestore, alarmVars, targetVars, Scripts, Calls, Ops
<1>7. CASE Abort
  <2>1. script' \in Scripts
    BY <1>7, NoScriptTyped DEF Abort, Scripts
  <2> QED
    BY <1>7, <2>1 DEF Abort, Scripts, Calls, Ops, alarmVars, targetVars
<1>8. CASE UNCHANGED vars
  BY <1>8 DEF vars, alarmVars, targetVars
<1> HIDE DEF TypeOK
<1> QED
  BY <1>1, <1>2, <1>3, <1>4, <1>5, <1>6, <1>7, <1>8 DEF Next

\* The initial states are well typed.
LEMMA TypeInit == Init => TypeOK
<1> SUFFICES ASSUME Init PROVE TypeOK
  OBVIOUS
<1>1. desired \in [Services -> Nat] /\ \A s \in Services : desired[s] <= Policy[s].max
  BY Constants DEF Init
<1>2. cooldown \in [Services -> [left : Nat, added : Nat]]
  BY DEF Init, NoCooldown
<1>3. /\ depth \in [Services -> Nat] /\ \A s \in Services : depth[s] \in Depths[s]
      /\ high \in [Services -> Nat] /\ \A s \in Services : high[s] <= Alarm[s].outPeriods
      /\ low \in [Services -> Nat] /\ \A s \in Services : low[s] <= Alarm[s].inPeriods
      /\ calm \in [Services -> Nat]
  BY Constants DEF Init
<1> QED
  <2>1. script \in Scripts /\ ops \in 0..MaxOps
    BY NoScriptTyped, OpsBound DEF Init, Scripts
  <2>2. registered \in [Services -> BOOLEAN] /\ announced \in BOOLEAN /\ off \subseteq Services
    BY DEF Init
  <2> QED
    BY <1>1, <1>2, <1>3, <2>1, <2>2 DEF TypeOK, Scripts, Calls, Ops

\* Types, and with them the bounds of a scalable target: nobody, policies,
\* scripts and dashboard together, brings a service above its maximum.
THEOREM ScalingTypeCorrect == Spec => []TypeOK
BY TypeInit, TypeStep, PTL DEF Spec

-----------------------------------------------------------------------------
(* An announced kill.                                                        *)

\* Whatever a kill has deregistered and not yet stopped, it still has to stop.
ToStop(s, calls) == \E j \in 1..Len(calls) : calls[j].op = "zero" /\ calls[j].service = s

KillInv ==
  /\ \A s \in off : ~registered[s]
  /\ announced => script = NoScript
  /\ announced => \A s \in off : desired[s] = 0
  /\ script.name = "kill" =>
       /\ StopsLater(script.calls)
       /\ \A s \in off : desired[s] = 0 \/ ToStop(s, script.calls)

\* A service without policies keeps its tasks.
LEMMA PeriodKeepsOff ==
  ASSUME TypeOK, KillInv, NEW s \in Services, Period(s)
  PROVE  \A t \in off : desired'[t] = desired[t]
<1>1. desired \in [Services -> Nat] /\ off \subseteq Services /\ \A t \in off : ~registered[t]
  BY DEF TypeOK, KillInv
<1>2. PICK d \in Depths[s] : ScaleOut(s, d) \/ ScaleIn(s, d) \/ Hold(s, d)
  BY DEF Period
<1>3. CASE s \in off
  BY <1>1, <1>2, <1>3 DEF ScaleOut, ScaleIn, Hold, MayScaleOut, MayScaleIn
<1>4. CASE s \notin off
  BY <1>1, <1>2, <1>4 DEF ScaleOut, ScaleIn, Hold
<1> QED
  BY <1>3, <1>4

\* A call that a kill makes, other than the last, leaves the rest of it to do.
LEMMA KillGoesOn ==
  ASSUME TypeOK, KillInv, script.calls # <<>>, Returns, script.name = "kill",
         NEW s \in Services, ToStop(s, script.calls),
         script.calls[1].op # "zero" \/ script.calls[1].service # s
  PROVE  Tail(script.calls) # <<>> /\ ToStop(s, Tail(script.calls))
<1> DEFINE calls == script.calls
<1>1. calls \in Calls
  BY DEF TypeOK, Calls, Ops
<1> HIDE DEF calls
<1>2. calls # <<>> /\ ToStop(s, calls) /\ (calls[1].op # "zero" \/ calls[1].service # s)
  BY DEF calls
<1>3. /\ Tail(calls) \in Calls
      /\ Len(Tail(calls)) = Len(calls) - 1 /\ Len(calls) \in Nat \ {0}
      /\ \A i \in 1..Len(Tail(calls)) : Tail(calls)[i] = calls[i + 1]
  BY <1>1, <1>2, TailOfCalls
<1>4. PICK j \in 1..Len(calls) : calls[j].op = "zero" /\ calls[j].service = s
  BY <1>2 DEF ToStop
<1>5. j # 1
  BY <1>2, <1>4
<1>6. j - 1 \in 1..Len(Tail(calls)) /\ (j - 1) + 1 = j
  BY <1>3, <1>4, <1>5
<1>7. Tail(calls)[j - 1] = calls[j]
  BY <1>3, <1>6
<1>8. ToStop(s, Tail(calls))
  BY <1>4, <1>6, <1>7 DEF ToStop
<1>9. Tail(calls) # <<>>
  BY <1>3, <1>6
<1> QED
  BY <1>8, <1>9 DEF calls

\* A call that is returned: the script that made it was no longer announced.
LEMMA ReturnsAnnounces ==
  ASSUME TypeOK, KillInv, script.calls # <<>>, Returns
  PROVE  /\ ~announced
         /\ announced' => script.name = "kill" /\ Tail(script.calls) = <<>> /\ script' = NoScript
         /\ script'.name = "kill" => script.name = "kill" /\ script'.calls = Tail(script.calls)
<1>1. ~announced
  BY DEF KillInv, NoScript
<1>2. announced \in BOOLEAN /\ script \in Scripts
  BY DEF TypeOK, Scripts, Calls, Ops
<1>3. CASE Tail(script.calls) = <<>>
  BY <1>1, <1>2, <1>3 DEF Returns, NoScript
<1>4. CASE Tail(script.calls) # <<>>
  BY <1>1, <1>2, <1>4 DEF Returns, Scripts
<1> QED
  BY <1>1, <1>3, <1>4

\* Deregistering takes the policies first and leaves the stop to a later call.
LEMMA DeregisterKeepsKill ==
  ASSUME TypeOK, KillInv, NEW s \in Services, Deregister(s)
  PROVE  KillInv'
<1>1. /\ script.calls # <<>> /\ Head(script.calls) = [op |-> "deregister", service |-> s]
      /\ Returns /\ UNCHANGED desired
      /\ off' \subseteq off \cup {s}
      /\ \A t \in off' : ~registered'[t]
  BY DEF Deregister, NextCall, KillInv, TypeOK
<1>2. script.calls \in Calls
  BY DEF TypeOK, Calls, Ops
<1>3. script.calls[1].op = "deregister" /\ script.calls[1].service = s
  BY <1>1, <1>2, TailOfCalls
<1>4. ASSUME script.name = "kill" PROVE ToStop(s, script.calls)
  <2>1. 1 \in 1..Len(script.calls) /\ Len(script.calls) \in Nat
    BY <1>1, <1>2, TailOfCalls
  <2>2. StopsLater(script.calls)
    BY <1>4 DEF KillInv
  <2>3. PICK j \in (1 + 1)..Len(script.calls) :
               script.calls[j].op = "zero" /\ script.calls[j].service = s
    BY <1>3, <2>1, <2>2 DEF StopsLater
  <2>4. j \in 1..Len(script.calls)
    BY <2>1, <2>3
  <2> QED
    BY <2>3, <2>4 DEF ToStop
<1>5. ASSUME script.name = "kill", NEW t \in off' \cup {s}
      PROVE  desired[t] = 0 \/ (Tail(script.calls) # <<>> /\ ToStop(t, Tail(script.calls)))
  <2>1. t \in Services
    BY <1>1, <1>5 DEF TypeOK
  <2>2. desired[t] = 0 \/ ToStop(t, script.calls)
    BY <1>1, <1>4, <1>5 DEF KillInv
  <2> QED
    BY <1>1, <1>3, <1>5, <2>1, <2>2, KillGoesOn
<1>6. script.name = "kill" => Tail(script.calls) # <<>>
  BY <1>1, <1>3, <1>4, KillGoesOn
<1>7. ~announced'
  BY <1>6, <1>1, ReturnsAnnounces DEF TypeOK
<1>8. ASSUME script'.name = "kill"
      PROVE  StopsLater(script'.calls)
             /\ \A t \in off' : desired'[t] = 0 \/ ToStop(t, script'.calls)
  <2>1. script.name = "kill" /\ script'.calls = Tail(script.calls)
    BY <1>1, <1>8, ReturnsAnnounces
  <2>2. StopsLater(Tail(script.calls))
    BY <1>1, <1>2, <2>1, TailStopsLater DEF KillInv
  <2> QED
    BY <1>1, <1>5, <2>1, <2>2
<1> QED
  BY <1>1, <1>7, <1>8 DEF KillInv, StopsLater, ToStop

\* Stopping a service settles what was left to do for it; restore only works
\* when no kill is announced.
LEMMA UpdateKeepsKill ==
  ASSUME TypeOK, KillInv, NEW s \in Services, Zero(s) \/ Restore(s)
  PROVE  KillInv'
<1>1. PICK op \in {"zero", "one"}, n \in {0, 1} :
        UpdateService(op, s, n) /\ (op = "zero" => n = 0)
  BY DEF Zero, Restore
<1>2. /\ script.calls # <<>> /\ Head(script.calls) = [op |-> op, service |-> s]
      /\ Returns /\ UNCHANGED <<registered, off>>
      /\ desired' = [desired EXCEPT ![s] = n]
  BY <1>1 DEF UpdateService, NextCall, SetDesired
<1>3. script.calls \in Calls /\ desired \in [Services -> Nat] /\ off \subseteq Services
  BY DEF TypeOK, Calls, Ops
<1>4. script.calls[1].op = op /\ script.calls[1].service = s /\ 1 \in 1..Len(script.calls)
  BY <1>2, <1>3, TailOfCalls
<1>5. ASSUME script.name = "kill", NEW t \in off
      PROVE  desired'[t] = 0 \/ (Tail(script.calls) # <<>> /\ ToStop(t, Tail(script.calls)))
  <2>1. StopsLater(script.calls) /\ (desired[t] = 0 \/ ToStop(t, script.calls))
    BY <1>5 DEF KillInv
  <2>2. n = 0
    <3>1. op # "one"
      BY <1>4, <2>1 DEF StopsLater
    <3> QED
      BY <1>1, <3>1
  <2>3. CASE t = s
    BY <1>2, <1>3, <2>2, <2>3
  <2>4. CASE t # s
    <3>1. desired'[t] = desired[t] /\ t \in Services
      BY <1>2, <1>3, <1>5, <2>4
    <3>2. script.calls[1].service # t
      BY <1>4, <2>4
    <3> QED
      BY <1>2, <1>5, <2>1, <3>1, <3>2, KillGoesOn
  <2> QED
    BY <2>3, <2>4
<1>6. announced' => script' = NoScript /\ \A t \in off' : desired'[t] = 0
  BY <1>2, <1>5, ReturnsAnnounces
<1>7. ASSUME script'.name = "kill"
      PROVE  StopsLater(script'.calls)
             /\ \A t \in off' : desired'[t] = 0 \/ ToStop(t, script'.calls)
  <2>1. script.name = "kill" /\ script'.calls = Tail(script.calls)
    BY <1>2, <1>7, ReturnsAnnounces
  <2>2. StopsLater(Tail(script.calls))
    BY <1>2, <1>3, <2>1, TailStopsLater DEF KillInv
  <2> QED
    BY <1>2, <1>5, <2>1, <2>2
<1>8. \A t \in off' : ~registered'[t]
  BY <1>2 DEF KillInv
<1> QED
  BY <1>6, <1>7, <1>8 DEF KillInv, StopsLater, ToStop

\* Every step keeps the promise of a kill.
LEMMA KillStep ==
  ASSUME TypeOK, KillInv, [Next]_vars
  PROVE  KillInv'
<1>1. ASSUME NEW s \in Services, Period(s) PROVE KillInv'
  <2>1. UNCHANGED <<registered, script, announced, off>>
    BY <1>1 DEF Period
  <2>2. \A t \in off : desired'[t] = desired[t]
    BY <1>1, PeriodKeepsOff
  <2> QED
    BY <2>1, <2>2 DEF KillInv, StopsLater, ToStop
<1>2. ASSUME NEW s \in Services, KillService(s) PROVE KillInv'
  <2>1. /\ UNCHANGED <<registered, script, announced, off>>
        /\ \A t \in off : desired[t] = 0 => desired'[t] = 0
    BY <1>2 DEF KillService, SetDesired, TypeOK
  <2> QED
    BY <2>1 DEF KillInv, StopsLater, ToStop
<1>3. ASSUME NEW s \in Services, RestartService(s) PROVE KillInv'
  <2>1. /\ UNCHANGED <<registered, script, announced>>
        /\ off' \subseteq off
        /\ \A t \in off' : desired'[t] = desired[t]
    BY <1>3 DEF RestartService, SetDesired, TypeOK
  <2> QED
    BY <2>1 DEF KillInv, StopsLater, ToStop
<1>4. ASSUME NEW s \in Services, TerraformApply(s) PROVE KillInv'
  <2>1. /\ UNCHANGED <<script, announced>>
        /\ off' \subseteq off
        /\ \A t \in off' : desired'[t] = desired[t] /\ registered'[t] = registered[t]
    BY <1>4 DEF TerraformApply, TypeOK
  <2> QED
    BY <2>1 DEF KillInv, StopsLater, ToStop
<1>5. CASE StartKill
  <2>1. ~announced' /\ off' = {} /\ script'.calls = KillCalls
    BY <1>5 DEF StartKill
  <2>2. StopsLater(script'.calls)
    BY <2>1, KillStopsLater
  <2> QED
    BY <2>1, <2>2 DEF KillInv, StopsLater, ToStop
<1>6. CASE StartRestore
  <2>1. /\ ~announced' /\ UNCHANGED <<off, registered>>
        /\ script'.name = "restore"
    BY <1>6 DEF StartRestore, targetVars
  <2> QED
    BY <2>1 DEF KillInv
<1>7. CASE Abort
  <2>1. /\ UNCHANGED <<registered, desired, announced, off>>
        /\ script' = NoScript /\ script'.name # "kill"
    BY <1>7 DEF Abort, targetVars, NoScript
  <2> QED
    BY <2>1 DEF KillInv
<1>8. CASE UNCHANGED vars
  BY <1>8 DEF vars, targetVars, KillInv, StopsLater, ToStop
<1> QED
  BY <1>1, <1>2, <1>3, <1>4, <1>5, <1>6, <1>7, <1>8, DeregisterKeepsKill, UpdateKeepsKill DEF Next

\* No script runs at first.
LEMMA KillInit == Init => KillInv
BY DEF Init, KillInv, NoScript

\* For any kill list, whatever calls fail and whatever alarms, dashboard and
\* terraform do in between: what an announced kill deregistered has no tasks.
THEOREM AnnouncedKillsHold == Spec => []AnnouncedKillHolds
<1>1. Init => TypeOK /\ KillInv
  BY TypeInit, KillInit
<1>2. TypeOK /\ KillInv /\ [Next]_vars => (TypeOK /\ KillInv)'
  BY TypeStep, KillStep
<1>3. KillInv => AnnouncedKillHolds
  BY DEF KillInv, AnnouncedKillHolds
<1> QED
  BY <1>1, <1>2, <1>3, PTL DEF Spec

-----------------------------------------------------------------------------
(* No flapping.                                                              *)

\* The scale-in alarm has not run for longer than nothing was added.
CalmInv == \A s \in Services : low[s] <= calm[s]

\* Adding a task takes a depth that ends the run of the scale-in alarm.
LEMMA PeriodKeepsCalm ==
  ASSUME TypeOK, CalmInv, NEW s \in Services, Period(s)
  PROVE  /\ CalmInv'
         /\ desired'[s] < desired[s] => calm[s] + 1 >= Alarm[s].inPeriods
<1>1. PICK d \in Depths[s] :
        /\ low' = [low EXCEPT ![s] = LowRun(s, d)]
        /\ ScaleOut(s, d) \/ ScaleIn(s, d) \/ Hold(s, d)
  BY DEF Period
<1>2. /\ low \in [Services -> Nat] /\ calm \in [Services -> Nat] /\ desired \in [Services -> Nat]
      /\ low[s] <= calm[s] /\ d \in Nat /\ high[s] \in Nat
  BY Constants DEF TypeOK, CalmInv
<1>3. LowRun(s, d) = 0 \/ LowRun(s, d) = AtMost(low[s] + 1, Alarm[s].inPeriods)
  BY DEF LowRun
<1>4. LowRun(s, d) <= AtMost(calm[s] + 1, Alarm[s].inPeriods)
  BY <1>2, <1>3, Constants DEF AtMost
<1>5. CASE ScaleOut(s, d)
  <2>1. HighRun(s, d) = Alarm[s].outPeriods /\ Goal(s, d) > desired[s]
    BY <1>5 DEF ScaleOut, MayScaleOut, ScaleOutAlarm
  <2>2. d >= Alarm[s].out
    BY <1>2, <2>1, Constants DEF HighRun
  <2>3. LowRun(s, d) = 0
    BY <1>2, <2>2, Constants DEF LowRun
  <2>4. calm' = [calm EXCEPT ![s] = 0] /\ desired'[s] = Goal(s, d) /\ Goal(s, d) \in Nat
    BY <1>2, <1>5, GoalBounds DEF ScaleOut
  <2>5. CalmInv'
    BY <1>1, <1>2, <2>3, <2>4 DEF CalmInv
  <2> QED
    BY <1>2, <2>1, <2>4, <2>5
<1>6. CASE ScaleIn(s, d) \/ Hold(s, d)
  <2>1. calm' = [calm EXCEPT ![s] = AtMost(calm[s] + 1, Alarm[s].inPeriods)]
    BY <1>6 DEF ScaleIn, Hold
  <2>2. CalmInv'
    BY <1>1, <1>2, <1>4, <2>1 DEF CalmInv
  <2>3. desired'[s] < desired[s] => LowRun(s, d) = Alarm[s].inPeriods
    BY <1>2, <1>6 DEF ScaleIn, MayScaleIn, ScaleInAlarm, Hold
  <2>4. LowRun(s, d) = Alarm[s].inPeriods => calm[s] + 1 >= Alarm[s].inPeriods
    BY <1>2, <1>4, Constants DEF AtMost
  <2> QED
    BY <2>2, <2>3, <2>4
<1> QED
  BY <1>1, <1>5, <1>6

\* Every step keeps the count of low periods within that of calm ones.
LEMMA CalmStep ==
  ASSUME TypeOK, CalmInv, [Next]_vars
  PROVE  CalmInv'
<1>1. ASSUME NEW s \in Services, Period(s) PROVE CalmInv'
  BY <1>1, PeriodKeepsCalm
<1>2. ASSUME ~\E s \in Services : Period(s) PROVE UNCHANGED <<low, calm>>
  BY <1>2 DEF Next, vars, alarmVars, Deregister, Zero, Restore, UpdateService, KillService,
              RestartService, TerraformApply, StartKill, StartRestore, Abort
<1> QED
  BY <1>1, <1>2 DEF CalmInv

\* No low period has been counted at first.
LEMMA CalmInit == Init => CalmInv
<1> SUFFICES ASSUME Init, NEW s \in Services PROVE low[s] <= calm[s]
  BY DEF CalmInv
<1>1. low[s] = 0 /\ calm[s] = Alarm[s].inPeriods
  BY DEF Init
<1> QED
  BY <1>1, Constants

\* With any thresholds of which the lower is for scaling in, and any evaluation
\* periods: no policy takes a task away that soon after one was added.
THEOREM PoliciesDoNotFlap == Spec => NoFlapping
<1> DEFINE Paced ==
      \A s \in Services : Period(s) /\ desired'[s] < desired[s] => calm[s] + 1 >= Alarm[s].inPeriods
<1>1. Init => TypeOK /\ CalmInv
  BY TypeInit, CalmInit
<1>2. TypeOK /\ CalmInv /\ [Next]_vars => (TypeOK /\ CalmInv)'
  BY TypeStep, CalmStep
<1>3. TypeOK /\ CalmInv => Paced
  BY PeriodKeepsCalm
<1>4. NoFlapping <=> [][Paced]_vars
  BY DEF NoFlapping
<1> QED
  BY <1>1, <1>2, <1>3, <1>4, PTL DEF Spec
=============================================================================
