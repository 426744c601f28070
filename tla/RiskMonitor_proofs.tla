------------------------ MODULE RiskMonitor_proofs ------------------------
(***************************************************************************)
(* Proofs about RiskMonitor, for every number of tasks, transactions,      *)
(* users, regions and expiries, every set of faults and every limit.       *)
(***************************************************************************)
EXTENDS RiskMonitor, SqsConsumer_proofs

\* What ties a running handler to the consumer that runs it.
TaskInv ==
  \A t \in Tasks :
    /\ step[t] # "idle" => pc[t] = "handle"
    /\ Reserved(t) => slice[t] \in Slices /\ slice[t].tx = Tx(t)

\* The invariant every proof below starts from.
RiskInv == SqsTypeOK /\ RiskTypeOK /\ TaskInv

\* A handler works on a transaction of some user, counted in some Redis.
LEMMA TaskFacts ==
  ASSUME RiskInv, NEW t \in Tasks, step[t] # "idle"
  PROVE  /\ pc[t] = "handle" /\ cur[t] \in Receipts
         /\ Tx(t) \in Messages /\ User(t) \in Users /\ Amt(t) \in Nat /\ Amt(t) > 0
         /\ Home(t) \in Queues /\ Peer[Home(t)] \in Queues
<1>1. pc[t] = "handle" /\ cur[t] \in Receipts
  BY DEF RiskInv, TaskInv, SqsTypeOK
<1>2. Tx(t) \in Messages
  BY <1>1 DEF Receipts, Tx
<1> QED BY <1>1, <1>2, QueueAssumption, RiskAssumption DEF User, Amt, Home

\* Every step of the risk service is a step of the consumer, or leaves it alone.
LEMMA RiskStepIsSqsStep == [Next]_vars => [SqsNext]_sqsVars
<1> SUFFICES ASSUME [Next]_vars PROVE SqsNext \/ UNCHANGED sqsVars
  OBVIOUS
<1>1. ASSUME NEW m \in Messages, TimesOut(m) \/ DeadLetters(m) \/ Retires(m)
      PROVE  SqsNext
  BY <1>1 DEF TimesOut, DeadLetters, Retires, SqsNext, QueueStep
<1>2. ASSUME NEW t \in Tasks,
             \/ Receives(t) \/ Begin(t) \/ Deletes(t)
             \/ Cancels(t) \/ Stops(t) \/ Kill(t) \/ Restarts(t)
      PROVE  SqsNext
  BY <1>2 DEF Receives, Begin, Deletes, Cancels, Stops, Kill, Restarts, SqsNext, TaskStep
<1>3. ASSUME NEW t \in Tasks, Handle(t) PROVE SqsNext \/ UNCHANGED sqsVars
  <2>1. CASE HandleErr(t) \/ HandleOk(t)
    BY <2>1 DEF SqsNext, TaskStep
  <2>2. HandleErr(t) \/ HandleOk(t) \/ UNCHANGED sqsVars
    BY <1>3 DEF Handle, IncrPrimary, IncrPrimaryFails, ExpirePrimary, IncrSecondary,
                IncrSecondaryFails, ExpireSecondary, Get, GetFails, SetPrimary,
                SetPrimaryFails, SetSecondary, SetSecondaryFails, Approve, Block,
                Publish, PublishFails
  <2> QED BY <2>1, <2>2
<1>4. ASSUME NEW r \in Queues, NEW u \in Users, KeyExpires(r, u) PROVE UNCHANGED sqsVars
  BY <1>4 DEF KeyExpires
<1>5. CASE UNCHANGED vars
  BY <1>5 DEF vars
<1> QED BY <1>1, <1>2, <1>3, <1>4, <1>5 DEF Next

\* The risk service is a consumer: what SqsConsumer promises of queues and
\* tasks holds of it.
THEOREM RiskImplementsSqs == Spec => SqsSpec
<1>1. Init => SqsInit
  BY DEF Init
<1> QED BY <1>1, RiskStepIsSqsStep, PTL DEF Spec, SqsSpec

\* So its messages are deleted only when handled and retried only by the queue.
COROLLARY RiskIsASoundConsumer ==
  Spec => [](DeletedOnlyIfHandled /\ OneAttemptPerReceive)
BY RiskImplementsSqs, DeletionFollowsHandling, RedeliveryIsTheOnlyRetry, PTL

-----------------------------------------------------------------------------
(* Type correctness.                                                       *)

\* The slice updateRisk returns is a slice of the task's transaction.
LEMMA SliceTyped ==
  ASSUME RiskInv, NEW t \in Tasks, step[t] # "idle", NEW lo \in Nat
  PROVE  SliceOf(t, lo) \in Slices /\ SliceOf(t, lo).tx = Tx(t)
<1>1. epoch[Home(t)][User(t)] \in 0..MaxEpoch
  BY TaskFacts DEF RiskInv, RiskTypeOK
<1> QED BY <1>1, TaskFacts DEF SliceOf, Slices

\* No step of the consumer changes what a running handler works on, except
\* the steps that start or end the handler.
LEMMA CurStable ==
  ASSUME RiskInv, NEW t \in Tasks,
         \/ \E m \in Messages : TimesOut(m) \/ DeadLetters(m) \/ Retires(m)
         \/ Receives(t) \/ Deletes(t) \/ Cancels(t) \/ Stops(t) \/ Restarts(t)
  PROVE  /\ UNCHANGED riskVars
         /\ \A u \in Tasks : step[u] # "idle" => pc'[u] = pc[u] /\ cur'[u] = cur[u]
<1>1. UNCHANGED riskVars
  BY DEF TimesOut, DeadLetters, Retires, Receives, Deletes, Cancels, Stops, Restarts
<1>2. \A u \in Tasks : step[u] # "idle" => pc[u] = "handle"
  BY DEF RiskInv, TaskInv
<1> QED
  BY <1>1, <1>2 DEF RiskInv, SqsTypeOK, TimesOut, DeadLetters, Retires, Receives, Deletes,
     Cancels, Stops, Restarts, VisibilityTimeout, Redrive, RetentionExpiry, Receive, Delete,
     Cancel, Stop, Down, Restart, taskVars, queueVars

\* A task that leaves its handler keeps the invariant when the Redis state,
\* the marks and the approvals it leaves behind are well typed.
LEMMA LeaveTyped ==
  ASSUME RiskInv, SqsTypeOK', NEW t \in Tasks, Leave(t),
         \A u \in Tasks : u # t => pc'[u] = pc[u] /\ cur'[u] = cur[u],
         total' \in [Queues -> [Users -> Nat]],
         ttl' \in [Queues -> [Users -> BOOLEAN]],
         epoch' = epoch,
         status' \in [Messages -> {"pending", "blocked"}],
         breached' \in SUBSET Messages,
         approved' \in SUBSET Slices
  PROVE  RiskInv'
BY DEF Leave, RiskInv, RiskTypeOK, TaskInv, Reserved, Tx

\* A task that goes on to the next call keeps it, when the slice it goes on
\* with is one of its transaction.
LEMMA AdvanceTyped ==
  ASSUME RiskInv, SqsTypeOK', NEW t \in Tasks, UNCHANGED sqsVars, step[t] # "idle",
         NEW next \in {"set", "expire", "secondary", "expireSecondary", "check", "publish"},
         step' = [step EXCEPT ![t] = next],
         \/ slice' = slice /\ (Reserved(t) \/ next = "set")
         \/ \E lo \in Nat : slice' = [slice EXCEPT ![t] = SliceOf(t, lo)],
         total' \in [Queues -> [Users -> Nat]],
         ttl' \in [Queues -> [Users -> BOOLEAN]],
         epoch' = epoch,
         prev' \in [Tasks -> Nat],
         status' \in [Messages -> {"pending", "blocked"}],
         breached' \in SUBSET Messages,
         approved' \in SUBSET Slices
  PROVE  RiskInv'
<1>1. slice' \in [Tasks -> Slices \cup {NoSlice}]
  <2>1. slice \in [Tasks -> Slices \cup {NoSlice}]
    BY DEF RiskInv, RiskTypeOK
  <2>2. CASE \E lo \in Nat : slice' = [slice EXCEPT ![t] = SliceOf(t, lo)]
    <3>1. PICK lo \in Nat : slice' = [slice EXCEPT ![t] = SliceOf(t, lo)]
      BY <2>2
    <3>2. SliceOf(t, lo) \in Slices
      BY SliceTyped
    <3> QED BY <2>1, <3>1, <3>2
  <2> QED BY <2>1, <2>2
<1>2. RiskTypeOK'
  BY <1>1 DEF RiskInv, RiskTypeOK
<1>3. TaskInv'
  <2>1. pc' = pc /\ cur' = cur
    BY DEF sqsVars
  <2> SUFFICES ASSUME NEW u \in Tasks
               PROVE  /\ step'[u] # "idle" => pc'[u] = "handle"
                      /\ Reserved(u)' => slice'[u] \in Slices /\ slice'[u].tx = Tx(u)'
    BY DEF TaskInv
  <2>2. CASE u = t
    <3>1. pc[t] = "handle" /\ step'[t] = next
      BY TaskFacts DEF RiskInv, RiskTypeOK
    <3>2. CASE slice' = slice /\ (Reserved(t) \/ next = "set")
      BY <2>1, <2>2, <3>1, <3>2 DEF RiskInv, TaskInv, Reserved, Tx
    <3>3. CASE \E lo \in Nat : slice' = [slice EXCEPT ![t] = SliceOf(t, lo)]
      BY <2>1, <2>2, <3>1, <3>3, SliceTyped DEF RiskInv, RiskTypeOK, Tx
    <3> QED BY <3>2, <3>3
  <2>3. CASE u # t
    <3>1. step'[u] = step[u] /\ slice'[u] = slice[u]
      BY <2>3 DEF RiskInv, RiskTypeOK
    <3> QED BY <2>1, <3>1 DEF RiskInv, TaskInv, Reserved, Tx
  <2> QED BY <2>2, <2>3
<1> QED BY <1>2, <1>3 DEF RiskInv

\* Adding to one total, or overwriting one, leaves totals well typed.
LEMMA TotalTyped ==
  ASSUME RiskTypeOK, NEW r \in Queues, NEW u \in Users, NEW n \in Nat
  PROVE  /\ [total EXCEPT ![r][u] = n] \in [Queues -> [Users -> Nat]]
         /\ [total EXCEPT ![r][u] = @ + n] \in [Queues -> [Users -> Nat]]
         /\ total[r][u] \in Nat
BY DEF RiskTypeOK

\* So does setting or clearing one expiry.
LEMMA TtlTyped ==
  ASSUME RiskTypeOK, NEW r \in Queues, NEW u \in Users, NEW b \in BOOLEAN
  PROVE  [ttl EXCEPT ![r][u] = b] \in [Queues -> [Users -> BOOLEAN]]
BY Zenon DEF RiskTypeOK

\* Every step of the risk service preserves the typing invariant.
LEMMA RiskInvStep == ASSUME RiskInv, [Next]_vars PROVE RiskInv'
<1>1. SqsTypeOK'
  BY RiskStepIsSqsStep, SqsTypeStep DEF RiskInv
<1>2. RiskTypeOK
  BY DEF RiskInv
<1>3. ASSUME NEW t \in Tasks, HandleErr(t) \/ HandleOk(t)
      PROVE  \A u \in Tasks : u # t => pc'[u] = pc[u] /\ cur'[u] = cur[u]
  BY <1>3 DEF HandleErr, HandleOk, RiskInv, SqsTypeOK
<1>4. ASSUME UNCHANGED riskVars,
             \A u \in Tasks : step[u] # "idle" => pc'[u] = pc[u] /\ cur'[u] = cur[u]
      PROVE  RiskInv'
  BY <1>1, <1>4 DEF RiskInv, RiskTypeOK, TaskInv, Reserved, Tx, riskVars
<1>5. ASSUME NEW m \in Messages, TimesOut(m) \/ DeadLetters(m) \/ Retires(m)
      PROVE  RiskInv'
  <2>1. UNCHANGED riskVars /\ pc' = pc /\ cur' = cur
    BY <1>5 DEF TimesOut, DeadLetters, Retires, VisibilityTimeout, Redrive,
                RetentionExpiry, taskVars
  <2> QED BY <1>4, <2>1
<1>6. ASSUME NEW t \in Tasks,
             Receives(t) \/ Deletes(t) \/ Cancels(t) \/ Stops(t) \/ Restarts(t)
      PROVE  RiskInv'
  BY <1>4, <1>6, CurStable
<1>7. ASSUME NEW t \in Tasks, Begin(t) PROVE RiskInv'
  <2>1. /\ pc' = [pc EXCEPT ![t] = "handle"]
        /\ \E r \in batch[t] : cur' = [cur EXCEPT ![t] = r]
        /\ step' = [step EXCEPT ![t] = "update"]
        /\ UNCHANGED <<redisVars, prev, slice, status, breached, approved>>
    BY <1>7 DEF Begin, Process
  <2>2. RiskTypeOK'
    BY <1>2, <2>1 DEF RiskTypeOK, redisVars
  <2>3. TaskInv'
    BY <2>1 DEF RiskInv, RiskTypeOK, SqsTypeOK, TaskInv, Reserved, Tx
  <2> QED BY <1>1, <2>2, <2>3 DEF RiskInv
<1>8. ASSUME NEW t \in Tasks, Kill(t) PROVE RiskInv'
  <2>1. \A u \in Tasks : u # t => pc'[u] = pc[u] /\ cur'[u] = cur[u]
    BY <1>8 DEF Kill, Crash, Down, RiskInv, SqsTypeOK
  <2> QED BY <1>1, <1>2, <1>8, <2>1, LeaveTyped DEF Kill, redisVars, RiskTypeOK
<1>9. ASSUME NEW t \in Tasks, Handle(t) PROVE RiskInv'
  <2>1. step[t] # "idle"
    BY <1>9 DEF Handle, IncrPrimary, IncrPrimaryFails, ExpirePrimary, IncrSecondary,
                IncrSecondaryFails, ExpireSecondary, Get, GetFails, SetPrimary,
                SetPrimaryFails, SetSecondary, SetSecondaryFails, Approve, Block,
                Publish, PublishFails
  <2> USE <1>1, <1>2, <2>1, TaskFacts
  <2>2. CASE IncrPrimary(t)
    <3>1. PICK resent \in {0, Amt(t)} :
            LET lo == total[Home(t)][User(t)] + resent IN
            /\ total' = [total EXCEPT ![Home(t)][User(t)] = lo + Amt(t)]
            /\ slice' = [slice EXCEPT ![t] = SliceOf(t, lo)]
            /\ step' = [step EXCEPT ![t] = IF lo = 0 THEN "expire" ELSE AfterPrimary]
      BY <2>2 DEF IncrPrimary
    <3> DEFINE lo == total[Home(t)][User(t)] + resent
    <3>2. lo \in Nat /\ total' \in [Queues -> [Users -> Nat]]
      BY <3>1, TotalTyped
    <3>3. \E next \in {"expire", "secondary", "check"} :
            step' = [step EXCEPT ![t] = next]
      BY <3>1 DEF AfterPrimary
    <3> QED BY <2>2, <3>1, <3>2, <3>3, AdvanceTyped DEF IncrPrimary, RiskTypeOK
  <2>3. CASE IncrPrimaryFails(t)
    <3>1. PICK counted \in {0, Amt(t)} :
            total' = [total EXCEPT ![Home(t)][User(t)] = @ + counted]
      BY <2>3 DEF IncrPrimaryFails
    <3>2. total' \in [Queues -> [Users -> Nat]]
      BY <3>1, TotalTyped
    <3> QED BY <1>3, <2>3, <3>2, LeaveTyped DEF IncrPrimaryFails, RiskTypeOK
  <2>4. CASE ExpirePrimary(t)
    <3>1. ttl' \in [Queues -> [Users -> BOOLEAN]]
      <4>1. (total[Home(t)][User(t)] > 0) \in BOOLEAN
        BY TotalTyped
      <4> DEFINE new == [ttl EXCEPT ![Home(t)][User(t)] = total[Home(t)][User(t)] > 0]
      <4>2. new \in [Queues -> [Users -> BOOLEAN]]
        BY <4>1, TtlTyped
      <4>3. ttl' = new \/ ttl' = ttl
        BY <2>4 DEF ExpirePrimary
      <4> HIDE DEF new
      <4> QED BY <4>2, <4>3 DEF RiskTypeOK
    <3>2. \E next \in {"secondary", "check"} : step' = [step EXCEPT ![t] = next]
      BY <2>4 DEF ExpirePrimary, AfterPrimary
    <3> QED BY <2>4, <3>1, <3>2, AdvanceTyped DEF ExpirePrimary, RiskTypeOK, Reserved
  <2>5. CASE IncrSecondary(t)
    <3>1. total' \in [Queues -> [Users -> Nat]]
      BY <2>5, TotalTyped DEF IncrSecondary
    <3>2. \E next \in {"expireSecondary", "check"} : step' = [step EXCEPT ![t] = next]
      BY <2>5 DEF IncrSecondary
    <3> QED BY <2>5, <3>1, <3>2, AdvanceTyped DEF IncrSecondary, RiskTypeOK, Reserved
  <2>6. CASE IncrSecondaryFails(t)
    <3>1. PICK counted \in {0, Amt(t)} :
            total' = [total EXCEPT ![Peer[Home(t)]][User(t)] = @ + counted]
      BY <2>6 DEF IncrSecondaryFails
    <3>2. total' \in [Queues -> [Users -> Nat]]
      BY <3>1, TotalTyped
    <3> QED BY <1>3, <2>6, <3>2, LeaveTyped DEF IncrSecondaryFails, RiskTypeOK
  <2>7. CASE ExpireSecondary(t)
    <3>1. ttl' \in [Queues -> [Users -> BOOLEAN]]
      <4>1. (total[Peer[Home(t)]][User(t)] > 0) \in BOOLEAN
        BY TotalTyped
      <4> DEFINE new == [ttl EXCEPT ![Peer[Home(t)]][User(t)] = total[Peer[Home(t)]][User(t)] > 0]
      <4>2. new \in [Queues -> [Users -> BOOLEAN]]
        BY <4>1, TtlTyped
      <4>3. ttl' = new \/ ttl' = ttl
        BY <2>7 DEF ExpireSecondary
      <4> HIDE DEF new
      <4> QED BY <4>2, <4>3 DEF RiskTypeOK
    <3> QED BY <2>7, <3>1, AdvanceTyped DEF ExpireSecondary, RiskTypeOK, Reserved
  <2>8. CASE Get(t)
    <3>1. prev' \in [Tasks -> Nat]
      BY <2>8, TotalTyped DEF Get, RiskTypeOK
    <3> QED BY <2>8, <3>1, AdvanceTyped DEF Get, RiskTypeOK, redisVars
  <2>9. CASE GetFails(t)
    BY <1>3, <2>9, LeaveTyped DEF GetFails, RiskTypeOK, redisVars
  <2>10. ASSUME NEW r \in Queues, SetTotal(t, r)
         PROVE  /\ total' \in [Queues -> [Users -> Nat]]
                /\ ttl' \in [Queues -> [Users -> BOOLEAN]]
    <3>1. prev[t] + Amt(t) \in Nat
      BY DEF RiskTypeOK
    <3> QED BY <2>10, <3>1, TotalTyped DEF SetTotal, RiskTypeOK
  <2>11. CASE SetPrimary(t)
    <3>1. \E next \in {"secondary", "check"} : step' = [step EXCEPT ![t] = next]
      BY <2>11 DEF SetPrimary, AfterPrimary
    <3>2. prev[t] \in Nat
      BY DEF RiskTypeOK
    <3> QED BY <2>10, <2>11, <3>1, <3>2, AdvanceTyped DEF SetPrimary, RiskTypeOK
  <2>12. CASE SetPrimaryFails(t)
    BY <1>3, <2>10, <2>12, LeaveTyped DEF SetPrimaryFails, RiskTypeOK
  <2>13. CASE SetSecondary(t)
    BY <2>10, <2>13, AdvanceTyped DEF SetSecondary, RiskTypeOK, Reserved
  <2>14. CASE SetSecondaryFails(t)
    BY <1>3, <2>10, <2>14, LeaveTyped DEF SetSecondaryFails, RiskTypeOK
  <2>15. CASE Approve(t)
    <3>1. slice[t] \in Slices
      BY <2>15 DEF Approve, RiskInv, TaskInv, Reserved
    <3> QED BY <1>3, <2>15, <3>1, LeaveTyped DEF Approve, RiskTypeOK, redisVars
  <2>16. CASE Block(t)
    <3>1. status' \in [Messages -> {"pending", "blocked"}]
      BY <2>16 DEF Block, RiskTypeOK
    <3> QED BY <2>16, <3>1, AdvanceTyped DEF Block, RiskTypeOK, Reserved, redisVars
  <2>17. CASE Publish(t)
    BY <1>3, <2>17, LeaveTyped DEF Publish, RiskTypeOK, redisVars
  <2>18. CASE PublishFails(t)
    BY <1>3, <2>18, LeaveTyped DEF PublishFails, RiskTypeOK, redisVars
  <2> QED
    BY <1>9, <2>2, <2>3, <2>4, <2>5, <2>6, <2>7, <2>8, <2>9, <2>11, <2>12, <2>13, <2>14,
       <2>15, <2>16, <2>17, <2>18 DEF Handle
<1>10. ASSUME NEW r \in Queues, NEW u \in Users, KeyExpires(r, u) PROVE RiskInv'
  <2>1. pc' = pc /\ cur' = cur
    BY <1>10 DEF KeyExpires, sqsVars
  <2>2. epoch' \in [Queues -> [Users -> 0..MaxEpoch]]
    BY <1>2, <1>10, RiskAssumption DEF KeyExpires, RiskTypeOK
  <2>3. RiskTypeOK'
    BY <1>2, <1>10, <2>2 DEF KeyExpires, RiskTypeOK
  <2>4. TaskInv'
    BY <1>10, <2>1 DEF KeyExpires, RiskInv, TaskInv, Reserved, Tx
  <2> QED BY <1>1, <2>3, <2>4 DEF RiskInv
<1>11. CASE UNCHANGED vars
  <2>1. UNCHANGED riskVars /\ pc' = pc /\ cur' = cur
    BY <1>11 DEF vars, sqsVars
  <2> QED BY <1>4, <2>1
<1> QED BY <1>5, <1>6, <1>7, <1>8, <1>9, <1>10, <1>11 DEF Next

\* The invariant holds at the start.
LEMMA RiskInvInit == Init => RiskInv
<1> SUFFICES ASSUME Init PROVE RiskInv
  OBVIOUS
<1>1. SqsTypeOK
  BY SqsInvInit DEF Init, SqsInv
<1>2. RiskTypeOK /\ TaskInv
  BY RiskAssumption DEF Init, RiskInit, RiskTypeOK, TaskInv, Reserved
<1> QED BY <1>1, <1>2 DEF RiskInv

\* The state of the risk service is well typed in every run.
THEOREM TypeCorrect == Spec => []TypeOK
<1>1. RiskInv => TypeOK
  BY DEF RiskInv, TypeOK
<1> QED BY <1>1, RiskInvInit, RiskInvStep, PTL DEF Spec

-----------------------------------------------------------------------------
(* The daily limit, in atomic check mode.                                  *)

\* A slice lies where its total has been: below the total, if the key has not
\* expired since.
Counted(s) ==
  /\ s.hi = s.lo + Amount[s.tx]
  /\ s.epoch <= epoch[s.region][s.user]
  /\ s.epoch = epoch[s.region][s.user] => s.hi <= total[s.region][s.user]

\* ApprovalsShareNothing says nothing of the transactions a task has counted
\* but not yet decided; an approval adds one of those, so the invariant keeps
\* their slices apart too, and below the total of a Redis some task counts in.
SlicesInv ==
  /\ \A a \in approved : /\ a.hi <= DailyLimit /\ Counted(a)
                         /\ \E t \in Tasks : a.region = Home(t)
  /\ \A t \in Tasks : Reserved(t) => Counted(slice[t]) /\ slice[t].region = Home(t)
  /\ \A a, b \in approved : SameWindow(a, b) /\ a # b => Disjoint(a, b)
  /\ \A t \in Tasks, a \in approved :
       Reserved(t) /\ SameWindow(slice[t], a) => Disjoint(slice[t], a)
  /\ \A t, u \in Tasks :
       t # u /\ Reserved(t) /\ Reserved(u) /\ SameWindow(slice[t], slice[u])
         => Disjoint(slice[t], slice[u])

\* In the atomic mode no task writes back a total it has read.
AllowanceInv == SlicesInv /\ \A t \in Tasks : step[t] # "set"

\* Raising one total shrinks none.
LEMMA RaisingGrows ==
  ASSUME RiskTypeOK, NEW r \in Queues, NEW u \in Users, NEW n \in Nat,
         n >= total[r][u], total' = [total EXCEPT ![r][u] = n]
  PROVE  \A q \in Queues, v \in Users : total'[q][v] >= total[q][v]
<1> SUFFICES ASSUME NEW q \in Queues, NEW v \in Users
             PROVE  total'[q][v] >= total[q][v]
  OBVIOUS
<1>1. total[q][v] \in Nat /\ total \in [Queues -> [Users -> Nat]]
  BY DEF RiskTypeOK
<1>2. CASE q = r /\ v = u
  BY <1>1, <1>2
<1>3. CASE ~(q = r /\ v = u)
  <2>1. total'[q][v] = total[q][v]
    BY <1>1, <1>3
  <2> QED BY <1>1, <2>1
<1> QED BY <1>2, <1>3

\* The total of v in q shrinks only if it expires.
GrowsAt(q, v) == /\ epoch'[q][v] >= epoch[q][v]
                 /\ epoch'[q][v] = epoch[q][v] => total'[q][v] >= total[q][v]

\* In atomic mode a total shrinks only when its key expires.
LEMMA TotalsGrow ==
  ASSUME RiskInv, \A t \in Tasks : step[t] # "set", CheckMode # "non-atomic", [Next]_vars
  PROVE  \A q \in Queues, v \in Users : GrowsAt(q, v)
<1> USE DEF GrowsAt
<1> DEFINE Grows == /\ epoch' = epoch
                   /\ \A q \in Queues, v \in Users : total'[q][v] >= total[q][v]
<1> USE DEF RiskInv
<1>1. ASSUME total' = total, epoch' = epoch PROVE Grows
  BY <1>1 DEF RiskTypeOK
<1>2. ASSUME NEW t \in Tasks, Handle(t) PROVE Grows
  <2>1. CASE IncrPrimary(t)
    <3>1. step[t] # "idle" /\ epoch' = epoch
      BY <2>1 DEF IncrPrimary
    <3>2. PICK resent \in {0, Amt(t)} :
            LET lo == total[Home(t)][User(t)] + resent IN
            total' = [total EXCEPT ![Home(t)][User(t)] = lo + Amt(t)]
      BY <2>1 DEF IncrPrimary
    <3> DEFINE n == total[Home(t)][User(t)] + resent + Amt(t)
    <3>3. /\ Home(t) \in Queues /\ User(t) \in Users
          /\ resent \in Nat /\ Amt(t) \in Nat
      BY <3>1, TaskFacts
    <3>4. n \in Nat /\ n >= total[Home(t)][User(t)]
      BY <3>3, TotalTyped
    <3> QED BY <3>1, <3>2, <3>3, <3>4, RaisingGrows
  <2>2. CASE IncrPrimaryFails(t)
    <3>1. step[t] # "idle" /\ epoch' = epoch
      BY <2>2 DEF IncrPrimaryFails
    <3>2. PICK counted \in {0, Amt(t)} :
            total' = [total EXCEPT ![Home(t)][User(t)] = @ + counted]
      BY <2>2 DEF IncrPrimaryFails
    <3> DEFINE n == total[Home(t)][User(t)] + counted
    <3>3. Home(t) \in Queues /\ User(t) \in Users /\ counted \in Nat
      BY <3>1, TaskFacts
    <3>4. n \in Nat /\ n >= total[Home(t)][User(t)]
      BY <3>3, TotalTyped
    <3> QED BY <3>1, <3>2, <3>3, <3>4, RaisingGrows
  <2>3. CASE IncrSecondary(t)
    <3>1. step[t] # "idle" /\ epoch' = epoch
      BY <2>3 DEF IncrSecondary
    <3>2. PICK counted \in {0, Amt(t)} :
            total' = [total EXCEPT ![Peer[Home(t)]][User(t)] = @ + counted]
      BY <2>3 DEF IncrSecondary
    <3> DEFINE n == total[Peer[Home(t)]][User(t)] + counted
    <3>3. Peer[Home(t)] \in Queues /\ User(t) \in Users /\ counted \in Nat
      BY <3>1, TaskFacts
    <3>4. n \in Nat /\ n >= total[Peer[Home(t)]][User(t)]
      BY <3>3, TotalTyped
    <3> QED BY <3>1, <3>2, <3>3, <3>4, RaisingGrows
  <2>4. CASE IncrSecondaryFails(t)
    <3>1. step[t] # "idle" /\ epoch' = epoch
      BY <2>4 DEF IncrSecondaryFails
    <3>2. PICK counted \in {0, Amt(t)} :
            total' = [total EXCEPT ![Peer[Home(t)]][User(t)] = @ + counted]
      BY <2>4 DEF IncrSecondaryFails
    <3> DEFINE n == total[Peer[Home(t)]][User(t)] + counted
    <3>3. Peer[Home(t)] \in Queues /\ User(t) \in Users /\ counted \in Nat
      BY <3>1, TaskFacts
    <3>4. n \in Nat /\ n >= total[Peer[Home(t)]][User(t)]
      BY <3>3, TotalTyped
    <3> QED BY <3>1, <3>2, <3>3, <3>4, RaisingGrows
  <2>5. CASE \/ ExpirePrimary(t) \/ ExpireSecondary(t) \/ Approve(t) \/ Block(t)
             \/ Publish(t) \/ PublishFails(t)
    BY <1>1, <2>5 DEF ExpirePrimary, ExpireSecondary, Approve, Block, Publish,
                      PublishFails, redisVars
  <2>6. ~(\/ Get(t) \/ GetFails(t) \/ SetPrimary(t) \/ SetPrimaryFails(t)
          \/ SetSecondary(t) \/ SetSecondaryFails(t))
    BY DEF Get, GetFails, SetPrimary, SetPrimaryFails, SetSecondary, SetSecondaryFails
  <2> QED BY <1>2, <2>1, <2>2, <2>3, <2>4, <2>5, <2>6 DEF Handle
<1>3. ASSUME NEW r \in Queues, NEW u \in Users, KeyExpires(r, u)
      PROVE  \A q \in Queues, v \in Users :
               /\ epoch'[q][v] >= epoch[q][v]
               /\ epoch'[q][v] = epoch[q][v] => total'[q][v] >= total[q][v]
  <2>1. /\ total' = [total EXCEPT ![r][u] = 0]
        /\ epoch' = [epoch EXCEPT ![r][u] = @ + 1]
    BY <1>3 DEF KeyExpires
  <2>2. \A q \in Queues, v \in Users : epoch[q][v] \in Nat /\ total[q][v] \in Nat
    BY RiskAssumption DEF RiskTypeOK
  <2> QED BY <2>1, <2>2 DEF RiskTypeOK
<1>4. ASSUME \/ \E m \in Messages : TimesOut(m) \/ DeadLetters(m) \/ Retires(m)
             \/ \E t \in Tasks : \/ Receives(t) \/ Begin(t) \/ Deletes(t)
                                 \/ Cancels(t) \/ Stops(t) \/ Kill(t) \/ Restarts(t)
             \/ UNCHANGED vars
      PROVE  Grows
  BY <1>1, <1>4 DEF TimesOut, DeadLetters, Retires, Receives, Begin, Deletes, Cancels,
                    Stops, Kill, Restarts, riskVars, redisVars, vars
<1>5. Grows => \A q \in Queues, v \in Users :
                 /\ epoch'[q][v] >= epoch[q][v]
                 /\ epoch'[q][v] = epoch[q][v] => total'[q][v] >= total[q][v]
  BY RiskAssumption DEF RiskTypeOK
<1> QED BY <1>2, <1>3, <1>4, <1>5 DEF Next

\* A step that counts nothing and approves nothing keeps the slices apart, if
\* no total that tasks count in shrinks.
LEMMA SlicesFramed ==
  ASSUME RiskInv, RiskInv', SlicesInv, approved' = approved,
         \A t \in Tasks, v \in Users : GrowsAt(Home(t), v),
         \A t \in Tasks : Reserved(t)' => Reserved(t) /\ slice'[t] = slice[t]
  PROVE  SlicesInv'
<1>1. ASSUME NEW s \in Slices, Counted(s), NEW t \in Tasks, s.region = Home(t)
      PROVE  Counted(s)'
  <2>1. s.region \in Queues /\ s.user \in Users /\ s.hi \in Nat /\ s.epoch \in Int
    BY RiskAssumption DEF Slices
  <2>2. /\ epoch[s.region][s.user] \in Int /\ epoch'[s.region][s.user] \in Int
        /\ total[s.region][s.user] \in Int /\ total'[s.region][s.user] \in Int
    BY <2>1, RiskAssumption DEF RiskInv, RiskTypeOK
  <2>3. GrowsAt(s.region, s.user)
    BY <1>1, <2>1
  <2> QED BY <1>1, <2>1, <2>2, <2>3 DEF Counted, GrowsAt
<1>2. approved \in SUBSET Slices /\ \A t \in Tasks : Reserved(t) => slice[t] \in Slices
  BY DEF RiskInv, RiskTypeOK, TaskInv
<1> QED BY <1>1, <1>2 DEF SlicesInv, Home

\* A task that counts its transaction on top of its total takes a slice no
\* other task and no approval has a part of.
LEMMA SliceAdded ==
  ASSUME RiskInv, RiskInv', SlicesInv, NEW t \in Tasks, step[t] # "idle", ~Reserved(t),
         NEW lo \in Nat, lo >= total[Home(t)][User(t)],
         total' = [total EXCEPT ![Home(t)][User(t)] = lo + Amt(t)],
         slice' = [slice EXCEPT ![t] = SliceOf(t, lo)],
         NEW next, step' = [step EXCEPT ![t] = next],
         epoch' = epoch, approved' = approved,
         \A u \in Tasks, v \in Users : GrowsAt(Home(u), v)
  PROVE  SlicesInv'
<1> DEFINE new == SliceOf(t, lo)
<1>1. RiskTypeOK /\ RiskTypeOK'
  BY DEF RiskInv
<1>2. /\ Home(t) \in Queues /\ User(t) \in Users /\ Tx(t) \in Messages
      /\ Amt(t) \in Nat /\ total[Home(t)][User(t)] \in Nat
  BY <1>1, TaskFacts, TotalTyped
<1>3. /\ new.tx = Tx(t) /\ new.user = User(t) /\ new.region = Home(t)
      /\ new.epoch = epoch[Home(t)][User(t)] /\ new.lo = lo /\ new.hi = lo + Amt(t)
      /\ new \in Slices
  BY SliceTyped DEF SliceOf
<1>4. total'[Home(t)][User(t)] = lo + Amt(t)
  BY <1>1, <1>2 DEF RiskTypeOK
<1>5. slice'[t] = new
  BY <1>1 DEF RiskTypeOK
<1>6. Counted(slice[t])'
  <2>1. epoch[Home(t)][User(t)] \in Int
    BY <1>1, <1>2, RiskAssumption DEF RiskTypeOK
  <2>2. new.hi = new.lo + Amount[new.tx]
    BY <1>3 DEF Amt
  <2> HIDE DEF new
  <2> QED BY <1>2, <1>3, <1>4, <1>5, <2>1, <2>2 DEF Counted
<1>7. ASSUME NEW s \in Slices, Counted(s), NEW u \in Tasks, s.region = Home(u)
      PROVE  Counted(s)' /\ (SameWindow(new, s) => Disjoint(new, s))
  <2>1. s.region \in Queues /\ s.user \in Users /\ s.hi \in Nat /\ s.epoch \in Int
    BY RiskAssumption DEF Slices
  <2>2. /\ epoch[s.region][s.user] \in Int
        /\ total[s.region][s.user] \in Int /\ total'[s.region][s.user] \in Int
    BY <1>1, <2>1, RiskAssumption DEF RiskTypeOK
  <2>3. total'[s.region][s.user] >= total[s.region][s.user]
    BY <1>7, <2>1 DEF GrowsAt
  <2>4. Counted(s)'
    BY <1>7, <2>1, <2>2, <2>3 DEF Counted
  <2>5. SameWindow(new, s) => s.hi <= new.lo
    BY <1>2, <1>3, <1>7, <2>1, <2>2 DEF SameWindow, Counted
  <2> QED BY <2>4, <2>5 DEF Disjoint
<1>8. \A u \in Tasks : u # t => step'[u] = step[u] /\ slice'[u] = slice[u]
  BY <1>1 DEF RiskTypeOK
<1>9. approved \in SUBSET Slices /\ \A u \in Tasks : Reserved(u) => slice[u] \in Slices
  BY <1>1 DEF RiskInv, RiskTypeOK, TaskInv
<1> HIDE DEF new
<1> QED
  BY <1>3, <1>5, <1>6, <1>7, <1>8, <1>9
  DEF SlicesInv, Reserved, SameWindow, Disjoint, Home

\* An approval hands the slice of its task over to the approvals.
LEMMA SliceApproved ==
  ASSUME RiskInv, SlicesInv, NEW t \in Tasks, Approve(t)
  PROVE  SlicesInv'
<1>1. /\ Reserved(t) /\ slice[t].hi <= DailyLimit
      /\ approved' = approved \cup {slice[t]}
      /\ UNCHANGED redisVars
      /\ Leave(t)
  BY DEF Approve, Reserved
<1>2. \A u \in Tasks : Reserved(u)' => u # t /\ Reserved(u) /\ slice'[u] = slice[u]
  BY <1>1 DEF Leave, RiskInv, RiskTypeOK, Reserved
<1>3. total' = total /\ epoch' = epoch
  BY <1>1 DEF redisVars
<1>4. SameWindow(slice[t], slice[t]) /\ \A a, b : SameWindow(a, b) => SameWindow(b, a)
  BY DEF SameWindow
<1>5. \A a, b : Disjoint(a, b) => Disjoint(b, a)
  BY DEF Disjoint
<1>6. \A a \in approved' : /\ a.hi <= DailyLimit /\ Counted(a)'
                           /\ \E u \in Tasks : a.region = Home(u)
  BY <1>1, <1>3 DEF SlicesInv, Counted
<1>7. \A a, b \in approved' : SameWindow(a, b) /\ a # b => Disjoint(a, b)
  BY <1>1, <1>4, <1>5 DEF SlicesInv
<1>8. \A u \in Tasks, a \in approved' :
        Reserved(u)' /\ SameWindow(slice'[u], a) => Disjoint(slice'[u], a)
  BY <1>1, <1>2 DEF SlicesInv
<1>9. \A u, w \in Tasks :
        u # w /\ Reserved(u)' /\ Reserved(w)' /\ SameWindow(slice'[u], slice'[w])
          => Disjoint(slice'[u], slice'[w])
  BY <1>2 DEF SlicesInv
<1>10. \A u \in Tasks : Reserved(u)' => Counted(slice[u])' /\ slice'[u].region = Home(u)
  BY <1>2, <1>3 DEF SlicesInv, Counted
<1> QED
  BY <1>6, <1>7, <1>8, <1>9, <1>10 DEF SlicesInv, SameWindow, Disjoint, Home

\* What no step but counting and approving does to the handlers: it lets one
\* go on with the slice it has, lets one leave, or leaves them alone.
SlicesKept ==
  /\ approved' = approved
  /\ \A t \in Tasks : Reserved(t)' => Reserved(t) /\ slice'[t] = slice[t]

\* Leaving the handler is such a step.
LEMMA LeavingKeepsSlices ==
  ASSUME RiskTypeOK, NEW t \in Tasks, Leave(t), approved' = approved
  PROVE  SlicesKept
BY DEF Leave, RiskTypeOK, Reserved, SlicesKept

\* So is every step that no handler takes.
LEMMA OthersKeepSlices ==
  ASSUME RiskTypeOK,
         \/ \E m \in Messages : TimesOut(m) \/ DeadLetters(m) \/ Retires(m)
         \/ \E t \in Tasks : \/ Receives(t) \/ Begin(t) \/ Deletes(t)
                             \/ Cancels(t) \/ Stops(t) \/ Kill(t) \/ Restarts(t)
         \/ \E r \in Queues, u \in Users : KeyExpires(r, u)
         \/ UNCHANGED vars
  PROVE  SlicesKept
<1>1. ASSUME NEW t \in Tasks, Begin(t) PROVE SlicesKept
  BY <1>1 DEF Begin, RiskTypeOK, Reserved, SlicesKept
<1>2. ASSUME NEW t \in Tasks, Kill(t) PROVE SlicesKept
  BY <1>2, LeavingKeepsSlices DEF Kill
<1>3. ASSUME UNCHANGED <<step, slice, approved>> PROVE SlicesKept
  BY <1>3 DEF Reserved, SlicesKept
<1>4. CASE \/ \E m \in Messages : TimesOut(m) \/ DeadLetters(m) \/ Retires(m)
           \/ \E t \in Tasks : \/ Receives(t) \/ Deletes(t)
                               \/ Cancels(t) \/ Stops(t) \/ Restarts(t)
           \/ \E r \in Queues, u \in Users : KeyExpires(r, u)
           \/ UNCHANGED vars
  BY <1>3, <1>4 DEF TimesOut, DeadLetters, Retires, Receives, Deletes, Cancels, Stops,
                    Restarts, KeyExpires, riskVars, vars
<1> QED BY <1>1, <1>2, <1>4

\* So do the steps of a handler.
LEMMA HandlerKeepsSlices ==
  ASSUME RiskTypeOK, NEW t \in Tasks, Handle(t),
         ~IncrPrimary(t), ~SetPrimary(t), ~Approve(t)
  PROVE  SlicesKept
<1>1. ASSUME Reserved(t), slice' = slice, approved' = approved,
             \A u \in Tasks : u # t => step'[u] = step[u]
      PROVE  SlicesKept
  BY <1>1 DEF Reserved, SlicesKept
<1>2. ASSUME NEW next, step' = [step EXCEPT ![t] = next], slice' = slice, approved' = approved,
             Reserved(t) \/ next = "set"
      PROVE  SlicesKept
  BY <1>1, <1>2 DEF RiskTypeOK, Reserved, SlicesKept
<1>3. CASE \/ IncrPrimaryFails(t) \/ IncrSecondaryFails(t) \/ GetFails(t)
           \/ SetPrimaryFails(t) \/ SetSecondaryFails(t)
           \/ Publish(t) \/ PublishFails(t)
  BY <1>3, LeavingKeepsSlices DEF IncrPrimaryFails, IncrSecondaryFails, GetFails,
     SetPrimaryFails, SetSecondaryFails, Publish, PublishFails
<1>4. CASE ExpirePrimary(t)
  BY <1>2, <1>4 DEF ExpirePrimary, Reserved
<1>5. CASE IncrSecondary(t) \/ ExpireSecondary(t) \/ Get(t) \/ SetSecondary(t) \/ Block(t)
  BY <1>2, <1>5 DEF IncrSecondary, ExpireSecondary, Get, SetSecondary, Block, Reserved
<1> QED BY <1>3, <1>4, <1>5 DEF Handle

\* Every step of the risk service in atomic mode preserves AllowanceInv.
LEMMA AllowanceStep ==
  ASSUME RiskInv, AllowanceInv, CheckMode # "non-atomic", [Next]_vars
  PROVE  AllowanceInv'
<1>1. RiskInv' /\ RiskTypeOK /\ SlicesInv /\ \A t \in Tasks : step[t] # "set"
  BY RiskInvStep DEF RiskInv, AllowanceInv
<1>2. \A t \in Tasks, v \in Users : GrowsAt(Home(t), v)
  BY <1>1, TotalsGrow, QueueAssumption DEF Home
<1>3. \A t \in Tasks : ~(Get(t) \/ SetPrimary(t))
  BY <1>1 DEF Get, SetPrimary
<1>4. SlicesKept => SlicesInv'
  BY <1>1, <1>2, SlicesFramed DEF SlicesKept
<1>5. SlicesInv'
  <2>1. ASSUME NEW t \in Tasks, IncrPrimary(t) PROVE SlicesInv'
    <3>1. PICK resent \in {0, Amt(t)} :
            LET lo == total[Home(t)][User(t)] + resent IN
            /\ total' = [total EXCEPT ![Home(t)][User(t)] = lo + Amt(t)]
            /\ slice' = [slice EXCEPT ![t] = SliceOf(t, lo)]
            /\ step' = [step EXCEPT ![t] = IF lo = 0 THEN "expire" ELSE AfterPrimary]
      BY <2>1 DEF IncrPrimary
    <3>2. step[t] # "idle" /\ ~Reserved(t) /\ approved' = approved /\ epoch' = epoch
      BY <2>1 DEF IncrPrimary, Reserved
    <3> DEFINE lo == total[Home(t)][User(t)] + resent
    <3>3. lo \in Nat /\ lo >= total[Home(t)][User(t)]
      <4>1. /\ Home(t) \in Queues /\ User(t) \in Users
            /\ resent \in Nat
        BY <1>1, <3>2, TaskFacts
      <4>2. total[Home(t)][User(t)] \in Nat
        BY <1>1, <4>1, TotalTyped
      <4> QED BY <4>1, <4>2
    <3> QED BY <1>1, <1>2, <3>1, <3>2, <3>3, SliceAdded
  <2>2. ASSUME NEW t \in Tasks, Handle(t), ~IncrPrimary(t) PROVE SlicesInv'
    BY <1>1, <1>3, <1>4, <2>2, HandlerKeepsSlices, SliceApproved
  <2> QED BY <1>1, <1>4, <2>1, <2>2, OthersKeepSlices DEF Next
<1>6. \A t \in Tasks : step'[t] # "set"
  <2>1. ASSUME NEW t \in Tasks, NEW next, next # "set",
               step' = [step EXCEPT ![t] = next] \/ step' = step
        PROVE  \A u \in Tasks : step'[u] # "set"
    BY <1>1, <2>1 DEF RiskTypeOK
  <2>2. ASSUME NEW t \in Tasks, Handle(t) PROVE \A u \in Tasks : step'[u] # "set"
    <3>1. \E next : next # "set" /\ step' = [step EXCEPT ![t] = next]
      BY <1>3, <2>2 DEF Handle, IncrPrimary, IncrPrimaryFails, ExpirePrimary, IncrSecondary,
         IncrSecondaryFails, ExpireSecondary, GetFails, SetPrimaryFails, SetSecondary,
         SetSecondaryFails, Approve, Block, Publish, PublishFails, Leave, AfterPrimary
    <3> QED BY <2>1, <3>1
  <2>3. ASSUME NEW t \in Tasks, Begin(t) \/ Kill(t) PROVE \A u \in Tasks : step'[u] # "set"
    BY <2>1, <2>3 DEF Begin, Kill, Leave
  <2>4. CASE \/ \E m \in Messages : TimesOut(m) \/ DeadLetters(m) \/ Retires(m)
             \/ \E t \in Tasks : \/ Receives(t) \/ Deletes(t)
                                 \/ Cancels(t) \/ Stops(t) \/ Restarts(t)
             \/ \E r \in Queues, u \in Users : KeyExpires(r, u)
             \/ UNCHANGED vars
    <3>1. step' = step
      BY <2>4 DEF TimesOut, DeadLetters, Retires, Receives, Deletes, Cancels, Stops,
                  Restarts, KeyExpires, riskVars, vars
    <3> QED BY <1>1, <3>1
  <2> QED BY <2>2, <2>3, <2>4 DEF Next
<1> QED BY <1>5, <1>6 DEF AllowanceInv

\* At first no slice is held.
LEMMA AllowanceInit == Init => AllowanceInv
BY DEF Init, RiskInit, AllowanceInv, SlicesInv, Reserved

\* The invariant says of approvals what ApprovalsShareNothing asks.
LEMMA SlicesShareNothing == SlicesInv => ApprovalsShareNothing
BY DEF SlicesInv, ApprovalsShareNothing, Counted

\* In atomic check mode, for any number of tasks and regions, in any sync mode
\* and under any faults: the approvals of a window own disjoint parts of the
\* limit, so that together they never exceed it.
THEOREM AtomicModeEnforcesLimit ==
  ASSUME CheckMode # "non-atomic" PROVE Spec => []ApprovalsShareNothing
<1>1. RiskInv /\ AllowanceInv /\ [Next]_vars => AllowanceInv'
  BY AllowanceStep
<1>2. AllowanceInv => ApprovalsShareNothing
  BY SlicesShareNothing DEF AllowanceInv
<1> QED BY <1>1, <1>2, AllowanceInit, RiskInvInit, RiskInvStep, PTL DEF Spec

\* In atomic check mode no interleaving loses a count: until it expires, the
\* total of a user never shrinks.
THEOREM AtomicModeLosesNoCount ==
  ASSUME CheckMode # "non-atomic" PROVE Spec => TotalNeverShrinks
<1>1. RiskInv /\ AllowanceInv /\ [Next]_vars => AllowanceInv'
  BY AllowanceStep
<1>2. RiskInv /\ AllowanceInv /\ [Next]_vars =>
        [\A r \in Queues, u \in Users :
           epoch'[r][u] = epoch[r][u] => total'[r][u] >= total[r][u]]_vars
  BY TotalsGrow DEF AllowanceInv, GrowsAt
<1> QED BY <1>1, <1>2, AllowanceInit, RiskInvInit, RiskInvStep, PTL DEF Spec, TotalNeverShrinks

-----------------------------------------------------------------------------
(* The ledger, in atomic check mode.                                       *)

\* No two tasks hold the same slice.
LEMMA SlicesApart ==
  ASSUME RiskInv, SlicesInv, NEW t \in Tasks, NEW v \in Tasks, t # v, Reserved(t), Reserved(v)
  PROVE  slice[t] # slice[v]
<1>1. /\ slice[t] \in Slices /\ slice[t].hi = slice[t].lo + Amount[slice[t].tx]
      /\ Amount[slice[t].tx] \in Nat \ {0} /\ slice[t].lo \in Nat
  BY RiskAssumption DEF RiskInv, TaskInv, SlicesInv, Counted, Slices
<1>2. ~Disjoint(slice[t], slice[t])
  BY <1>1 DEF Disjoint
<1>3. slice[t] = slice[v] => Disjoint(slice[t], slice[t])
  BY DEF SlicesInv, SameWindow
<1> QED BY <1>2, <1>3

\* A step that lets every handler keep its slice, or go without one, leaves the
\* undecided ones as they are.
LEMMA UndecidedStays ==
  ASSUME \A t \in Tasks : /\ Reserved(t)' <=> Reserved(t)
                          /\ Reserved(t) => slice'[t] = slice[t]
  PROVE  Undecided' = Undecided
BY DEF Undecided

\* A handler that is left gives up its slice, and no other one has it.
LEMMA UndecidedFalls ==
  ASSUME RiskInv, SlicesInv, NEW t \in Tasks, Leave(t)
  PROVE  Undecided' = IF Reserved(t) THEN Undecided \ {slice[t]} ELSE Undecided
<1>1. ~Reserved(t)'
  BY DEF Leave, Reserved, RiskInv, RiskTypeOK
<1>2. \A v \in Tasks \ {t} : (Reserved(v)' <=> Reserved(v)) /\ slice'[v] = slice[v]
  BY DEF Leave, Reserved, RiskInv, RiskTypeOK
<1>3. CASE Reserved(t)
  BY <1>1, <1>2, <1>3, SlicesApart DEF Undecided
<1>4. CASE ~Reserved(t)
  BY <1>1, <1>2, <1>4, UndecidedStays
<1> QED BY <1>3, <1>4

\* Where a total is raised, or left alone, part of the line is wasted.
LEMMA RaisingWastes ==
  ASSUME RiskTypeOK, NEW r \in Queues, NEW u \in Users, NEW n \in Nat,
         total' = [total EXCEPT ![r][u] = @ + n] \/ total' = total
  PROVE  L!Wastes
<1>1. total \in [Queues -> [Users -> Nat]]
  BY DEF RiskTypeOK
<1>2. /\ total'[r][u] \in Nat /\ total'[r][u] >= total[r][u]
      /\ total' = [total EXCEPT ![r][u] = total'[r][u]]
  BY <1>1
<1> QED BY <1>2 DEF L!Wastes

\* A handler that is left without an approval forfeits its slice, whatever it
\* has added to one total on its way.
LEMMA LeavingForfeits ==
  ASSUME RiskInv, SlicesInv, NEW t \in Tasks, step[t] # "idle", Leave(t),
         UNCHANGED <<epoch, approved>>,
         NEW r \in Queues, NEW n \in Nat,
         total' = [total EXCEPT ![r][User(t)] = @ + n] \/ total' = total
  PROVE  L!LedgerNext
<1>1. L!Wastes
  BY RaisingWastes, TaskFacts DEF RiskInv
<1>2. CASE Reserved(t)
  <2>1. slice[t] \in Undecided /\ Undecided' = Undecided \ {slice[t]}
    BY <1>2, UndecidedFalls DEF Undecided
  <2> QED BY <1>1, <2>1 DEF L!LedgerNext, L!Forfeit
<1>3. CASE ~Reserved(t)
  <2>1. Undecided' = Undecided
    BY <1>3, UndecidedFalls
  <2> QED BY <1>1, <2>1 DEF L!LedgerNext, L!Waste
<1> QED BY <1>2, <1>3

\* Counting a transaction claims a part above all that was counted before.
LEMMA IncrementClaims ==
  ASSUME RiskInv, RiskInv', SlicesInv, NEW t \in Tasks, IncrPrimary(t)
  PROVE  L!LedgerNext
<1>1. PICK resent \in {0, Amt(t)} :
        LET lo == total[Home(t)][User(t)] + resent IN
        /\ total' = [total EXCEPT ![Home(t)][User(t)] = lo + Amt(t)]
        /\ slice' = [slice EXCEPT ![t] = SliceOf(t, lo)]
        /\ step' = [step EXCEPT ![t] = IF lo = 0 THEN "expire" ELSE AfterPrimary]
  BY DEF IncrPrimary
<1> DEFINE lo == total[Home(t)][User(t)] + resent
           c  == SliceOf(t, lo)
<1>2. step[t] = "update" /\ UNCHANGED <<epoch, approved>>
  BY DEF IncrPrimary
<1>3. /\ Home(t) \in Queues /\ User(t) \in Users /\ Tx(t) \in Messages
      /\ Amt(t) \in Nat /\ Amt(t) > 0 /\ resent \in Nat
      /\ total[Home(t)][User(t)] \in Nat
  BY <1>2, TaskFacts DEF RiskInv, RiskTypeOK
<1>4. lo \in Nat /\ lo >= total[Home(t)][User(t)]
  BY <1>3
<1>5. /\ c.region = Home(t) /\ c.user = User(t) /\ c.tx = Tx(t)
      /\ c.epoch = epoch[Home(t)][User(t)] /\ c.lo = lo /\ c.hi = lo + Amt(t)
  BY DEF SliceOf
<1>6. /\ total' = [total EXCEPT ![Home(t)][User(t)] = lo + Amt(t)]
      /\ slice' = [slice EXCEPT ![t] = c]
      /\ step'[t] \in {"expire", "secondary", "check"}
      /\ \A v \in Tasks \ {t} : step'[v] = step[v]
  BY <1>1 DEF AfterPrimary, RiskInv, RiskTypeOK
<1> HIDE DEF c, lo
<1>7. slice'[t] = c /\ \A v \in Tasks \ {t} : slice'[v] = slice[v]
  BY <1>6 DEF RiskInv, RiskTypeOK
<1>8. ~Reserved(t) /\ Reserved(t)' /\ \A v \in Tasks \ {t} : Reserved(v)' <=> Reserved(v)
  BY <1>2, <1>6 DEF Reserved
<1>9. Undecided' = Undecided \cup {c}
  BY <1>7, <1>8 DEF Undecided
<1>10. c \notin Undecided
  <2> SUFFICES ASSUME NEW v \in Tasks, Reserved(v), slice[v] = c PROVE FALSE
    BY DEF Undecided
  <2>1. Counted(c)
    BY DEF SlicesInv
  <2> QED BY <1>3, <1>4, <1>5, <2>1 DEF Counted
<1>11. c \in Slices
  BY <1>7, <1>8 DEF RiskInv, TaskInv
<1>12. L!Claim(c)
  BY <1>2, <1>4, <1>5, <1>6, <1>9, <1>11 DEF L!Claim, Amt
<1> QED BY <1>9, <1>10, <1>12 DEF L!LedgerNext

\* What a handler does in atomic mode is a step of the ledger, or none.
LEMMA HandlerSimulates ==
  ASSUME RiskInv, RiskInv', AllowanceInv, CheckMode # "non-atomic", NEW t \in Tasks, Handle(t)
  PROVE  L!LedgerNext \/ UNCHANGED L!ledgerVars
<1>1. SlicesInv /\ RiskTypeOK
  BY DEF AllowanceInv, RiskInv
<1>2. ~(Get(t) \/ GetFails(t) \/ SetPrimary(t) \/ SetPrimaryFails(t) \/ SetSecondary(t) \/ SetSecondaryFails(t))
  BY DEF AllowanceInv, Get, GetFails, SetPrimary, SetPrimaryFails, SetSecondary, SetSecondaryFails
<1>3. CASE IncrPrimary(t)
  BY <1>1, <1>3, IncrementClaims
<1>4. CASE IncrPrimaryFails(t) \/ IncrSecondaryFails(t)
  <2>1. step[t] # "idle" /\ Leave(t) /\ UNCHANGED <<epoch, approved>>
    BY <1>4 DEF IncrPrimaryFails, IncrSecondaryFails
  <2>2. Home(t) \in Queues /\ Peer[Home(t)] \in Queues /\ Amt(t) \in Nat
    BY <2>1, TaskFacts
  <2>3. PICK r \in Queues, n \in Nat : total' = [total EXCEPT ![r][User(t)] = @ + n]
    BY <1>4, <2>2 DEF IncrPrimaryFails, IncrSecondaryFails
  <2> QED BY <1>1, <2>1, <2>3, LeavingForfeits
<1>5. CASE Publish(t) \/ PublishFails(t)
  <2>1. step[t] # "idle" /\ Leave(t) /\ UNCHANGED <<total, epoch, approved>>
    BY <1>5 DEF Publish, PublishFails, redisVars
  <2>2. Home(t) \in Queues /\ 0 \in Nat
    BY <2>1, TaskFacts
  <2> QED BY <1>1, <2>1, <2>2, LeavingForfeits
<1>6. CASE ExpirePrimary(t) \/ ExpireSecondary(t) \/ Block(t)
  <2>1. UNCHANGED <<total, epoch, approved, slice>>
    BY <1>6 DEF ExpirePrimary, ExpireSecondary, Block, redisVars
  <2>2. \A v \in Tasks : Reserved(v)' <=> Reserved(v)
    BY <1>1, <1>6 DEF ExpirePrimary, ExpireSecondary, Block, AfterPrimary, Reserved, RiskTypeOK
  <2> QED BY <2>1, <2>2, UndecidedStays DEF L!ledgerVars
<1>7. CASE IncrSecondary(t)
  <2>1. step[t] # "idle" /\ UNCHANGED <<epoch, approved, slice>>
    BY <1>7 DEF IncrSecondary
  <2>2. \A v \in Tasks : Reserved(v)' <=> Reserved(v)
    BY <1>1, <1>7 DEF IncrSecondary, Reserved, RiskTypeOK
  <2>3. /\ Peer[Home(t)] \in Queues /\ User(t) \in Users /\ Amt(t) \in Nat
        /\ total' = [total EXCEPT ![Peer[Home(t)]][User(t)] = @ + Amt(t)]
    BY <1>1, <1>7, <2>1, TaskFacts DEF IncrSecondary, RiskTypeOK
  <2>4. L!Wastes
    BY <1>1, <2>3, RaisingWastes
  <2> QED BY <2>1, <2>2, <2>4, UndecidedStays DEF L!LedgerNext, L!Waste
<1>8. CASE Approve(t)
  <2>1. /\ Reserved(t) /\ slice[t].hi <= DailyLimit /\ Leave(t)
        /\ approved' = approved \cup {slice[t]} /\ UNCHANGED <<total, epoch>>
    BY <1>8 DEF Approve, Reserved, redisVars
  <2>2. slice[t] \in Undecided /\ Undecided' = Undecided \ {slice[t]}
    BY <1>1, <2>1, UndecidedFalls DEF Undecided
  <2> QED BY <2>1, <2>2 DEF L!LedgerNext, L!Approve
<1> QED BY <1>2, <1>3, <1>4, <1>5, <1>6, <1>7, <1>8 DEF Handle

\* So is every other step: a handler that is killed forfeits its slice, a key
\* that expires starts a new window.
LEMMA StepSimulatesLedger ==
  ASSUME RiskInv, AllowanceInv, CheckMode # "non-atomic", [Next]_vars
  PROVE  L!LedgerNext \/ UNCHANGED L!ledgerVars
<1>1. RiskInv' /\ SlicesInv /\ RiskTypeOK
  BY RiskInvStep DEF AllowanceInv, RiskInv
<1>2. ASSUME NEW t \in Tasks, Handle(t) PROVE L!LedgerNext \/ UNCHANGED L!ledgerVars
  BY <1>1, <1>2, HandlerSimulates
<1>3. ASSUME NEW t \in Tasks, Kill(t) PROVE L!LedgerNext \/ UNCHANGED L!ledgerVars
  <2>1. Leave(t) /\ UNCHANGED <<total, epoch, approved>>
    BY <1>3 DEF Kill, redisVars
  <2>2. CASE step[t] # "idle"
    <3>1. Home(t) \in Queues /\ 0 \in Nat
      BY <2>2, TaskFacts
    <3> QED BY <1>1, <2>1, <2>2, <3>1, LeavingForfeits
  <2>3. CASE step[t] = "idle"
    BY <1>1, <2>1, <2>3, UndecidedFalls DEF Reserved, L!ledgerVars
  <2> QED BY <2>2, <2>3
<1>4. ASSUME NEW t \in Tasks, Begin(t) PROVE UNCHANGED L!ledgerVars
  <2>1. UNCHANGED <<total, epoch, approved, slice>> /\ step[t] = "idle" /\ step' = [step EXCEPT ![t] = "update"]
    BY <1>4 DEF Begin, Process, redisVars, RiskInv, TaskInv
  <2>2. \A v \in Tasks : Reserved(v)' <=> Reserved(v)
    BY <1>1, <2>1 DEF Reserved, RiskTypeOK
  <2> QED BY <2>1, <2>2, UndecidedStays DEF L!ledgerVars
<1>5. ASSUME NEW r \in Queues, NEW u \in Users, KeyExpires(r, u) PROVE L!LedgerNext
  <2>1. Undecided' = Undecided
    BY <1>5, UndecidedStays DEF KeyExpires, Reserved
  <2> QED BY <1>5, <2>1 DEF KeyExpires, L!LedgerNext, L!Expire
<1>6. ASSUME UNCHANGED riskVars PROVE UNCHANGED L!ledgerVars
  BY <1>6, UndecidedStays DEF riskVars, Reserved, L!ledgerVars
<1>7. CASE \/ \E m \in Messages : TimesOut(m) \/ DeadLetters(m) \/ Retires(m)
           \/ \E t \in Tasks : \/ Receives(t) \/ Deletes(t)
                               \/ Cancels(t) \/ Stops(t) \/ Restarts(t)
           \/ UNCHANGED vars
  <2>1. UNCHANGED riskVars
    BY <1>7 DEF TimesOut, DeadLetters, Retires, Receives, Deletes, Cancels, Stops, Restarts, vars
  <2> QED BY <1>6, <2>1
<1> QED BY <1>2, <1>3, <1>4, <1>5, <1>7 DEF Next

\* In atomic check mode, for any tasks, regions, users, amounts and faults and in any
\* sync mode, the totals in Redis are a ledger: INCRBYFLOAT claims a part for each
\* transaction above all others, Handle approves that part or forfeits it, and what
\* is counted without being claimed is only wasted.
THEOREM AtomicModeImplementsLedger ==
  ASSUME CheckMode # "non-atomic" PROVE Spec => ImplementsLedger
<1>1. Init => L!LedgerInit
  BY DEF Init, RiskInit, L!LedgerInit, Undecided, Reserved
<1>2. RiskInv /\ AllowanceInv /\ [Next]_vars => [L!LedgerNext]_(L!ledgerVars)
  BY StepSimulatesLedger
<1>3. RiskInv /\ AllowanceInv /\ [Next]_vars => AllowanceInv'
  BY AllowanceStep
<1> QED BY <1>1, <1>2, <1>3, AllowanceInit, RiskInvInit, RiskInvStep, PTL
        DEF Spec, ImplementsLedger, L!LedgerSpec

\* What a ledger keeps to: every claim, decided or not, lies below the present total of
\* its window, and no two of a window overlap.
LedgerInv ==
  /\ total \in [Queues -> [Users -> Nat]] /\ epoch \in [Queues -> [Users -> Nat]]
  /\ \A c \in Undecided \cup approved : c \in Slices /\ Counted(c)
  /\ \A a \in approved : a.hi <= DailyLimit
  /\ \A a, b \in Undecided \cup approved : SameWindow(a, b) /\ a # b => Disjoint(a, b)

\* A step after which the totals of the claims still cover them, and which makes no
\* new one, keeps it.
LEMMA LedgerFramed ==
  ASSUME LedgerInv, total' \in [Queues -> [Users -> Nat]], epoch' \in [Queues -> [Users -> Nat]],
         \A c \in Undecided \cup approved : Counted(c)',
         Undecided' \subseteq Undecided, approved' \subseteq Undecided \cup approved,
         \A a \in approved' : a.hi <= DailyLimit
  PROVE  LedgerInv'
<1>1. /\ Undecided' \cup approved' \subseteq Undecided \cup approved
      /\ \A a, b : SameWindow(a, b)' = SameWindow(a, b) /\ Disjoint(a, b)' = Disjoint(a, b)
  BY DEF SameWindow, Disjoint
<1> QED BY <1>1 DEF LedgerInv

\* Totals that only grow within their windows go on covering the claims.
LEMMA GrowthCovers ==
  ASSUME LedgerInv, total' \in [Queues -> [Users -> Nat]], epoch' \in [Queues -> [Users -> Nat]],
         \A r \in Queues, u \in Users : GrowsAt(r, u),
         NEW c \in Undecided \cup approved
  PROVE  Counted(c)'
<1>1. /\ c \in Slices /\ Counted(c) /\ c.region \in Queues /\ c.user \in Users
      /\ c.epoch \in Nat /\ c.hi \in Nat
  BY DEF LedgerInv, Slices
<1> DEFINE r == c.region
           u == c.user
<1>2. /\ total[r][u] \in Nat /\ total'[r][u] \in Nat /\ epoch[r][u] \in Nat /\ epoch'[r][u] \in Nat
      /\ epoch'[r][u] >= epoch[r][u]
      /\ epoch'[r][u] = epoch[r][u] => total'[r][u] >= total[r][u]
  BY <1>1 DEF LedgerInv, GrowsAt
<1>3. /\ c.hi = c.lo + Amount[c.tx] /\ c.epoch <= epoch[r][u]
      /\ c.epoch = epoch[r][u] => c.hi <= total[r][u]
  BY <1>1 DEF Counted
<1>4. c.epoch <= epoch'[r][u] /\ (c.epoch = epoch'[r][u] => c.hi <= total'[r][u])
  BY <1>1, <1>2, <1>3
<1> QED BY <1>3, <1>4 DEF Counted

\* Every step of a ledger keeps LedgerInv.
LEMMA LedgerStep ==
  ASSUME LedgerInv, L!LedgerNext \/ UNCHANGED L!ledgerVars
  PROVE  LedgerInv'
<1>0. total \in [Queues -> [Users -> Nat]] /\ epoch \in [Queues -> [Users -> Nat]]
  BY DEF LedgerInv
<1>1. ASSUME L!Wastes, epoch' = epoch
      PROVE  /\ total' \in [Queues -> [Users -> Nat]]
             /\ \A c \in Undecided \cup approved : Counted(c)'
  <2>1. PICK r \in Queues, u \in Users :
          /\ total'[r][u] \in Nat /\ total'[r][u] >= total[r][u]
          /\ total' = [total EXCEPT ![r][u] = total'[r][u]]
    BY <1>1 DEF L!Wastes
  <2>2. PICK n \in Nat : n >= total[r][u] /\ total' = [total EXCEPT ![r][u] = n]
    BY <2>1
  <2>3. /\ total' \in [Queues -> [Users -> Nat]]
        /\ \A p \in Queues, v \in Users : GrowsAt(p, v)
    BY <1>0, <1>1, <2>2 DEF GrowsAt
  <2> QED BY <1>0, <1>1, <2>3, GrowthCovers
<1>2. CASE L!Waste
  BY <1>0, <1>1, <1>2, LedgerFramed DEF L!Waste, LedgerInv
<1>3. ASSUME NEW c \in Undecided, L!Forfeit(c) PROVE LedgerInv'
  BY <1>0, <1>1, <1>3, LedgerFramed DEF L!Forfeit, LedgerInv
<1>4. ASSUME NEW c \in Undecided, L!Approve(c) PROVE LedgerInv'
  <2>1. /\ UNCHANGED <<total, epoch>> /\ c.hi <= DailyLimit
        /\ Undecided' = Undecided \ {c} /\ approved' = approved \cup {c}
    BY <1>4 DEF L!Approve
  <2>2. /\ \A a \in Undecided \cup approved : Counted(a)'
        /\ \A a \in approved' : a.hi <= DailyLimit
    BY <2>1 DEF LedgerInv, Counted
  <2> QED BY <1>0, <2>1, <2>2, LedgerFramed
<1>5. ASSUME NEW r \in Queues, NEW u \in Users, L!Expire(r, u) PROVE LedgerInv'
  <2>1. /\ total' = [total EXCEPT ![r][u] = 0] /\ epoch' = [epoch EXCEPT ![r][u] = @ + 1]
        /\ UNCHANGED <<Undecided, approved>>
    BY <1>5 DEF L!Expire
  <2>2. /\ total' \in [Queues -> [Users -> Nat]] /\ epoch' \in [Queues -> [Users -> Nat]]
        /\ \A p \in Queues, v \in Users : GrowsAt(p, v)
    BY <1>0, <2>1 DEF GrowsAt
  <2>3. \A c \in Undecided \cup approved : Counted(c)'
    BY <2>2, GrowthCovers
  <2> QED BY <2>1, <2>2, <2>3, LedgerFramed DEF LedgerInv
<1>6. ASSUME NEW c, L!Claim(c) PROVE LedgerInv'
  <2>1. /\ c \in Slices /\ c.hi = c.lo + Amount[c.tx]
        /\ c.epoch = epoch[c.region][c.user] /\ c.lo >= total[c.region][c.user]
        /\ total' = [total EXCEPT ![c.region][c.user] = c.hi]
        /\ Undecided' = Undecided \cup {c} /\ UNCHANGED <<epoch, approved>>
    BY <1>6 DEF L!Claim
  <2>2. /\ c.region \in Queues /\ c.user \in Users /\ c.lo \in Nat /\ c.hi \in Nat
        /\ Amount[c.tx] \in Nat
    BY <2>1, RiskAssumption DEF Slices
  <2>3. c.hi >= total[c.region][c.user]
    BY <1>0, <2>1, <2>2
  <2>4. /\ total' \in [Queues -> [Users -> Nat]] /\ epoch' \in [Queues -> [Users -> Nat]]
        /\ \A p \in Queues, v \in Users : GrowsAt(p, v)
    BY <1>0, <2>1, <2>2, <2>3 DEF GrowsAt
  <2>5. \A a \in Undecided \cup approved : Counted(a)'
    BY <2>4, GrowthCovers
  <2>6. Counted(c)'
    BY <1>0, <2>1, <2>2 DEF Counted
  <2>7. ASSUME NEW a \in Undecided \cup approved, SameWindow(a, c) PROVE a.hi <= c.lo
    <3>1. /\ a \in Slices /\ Counted(a) /\ a.region = c.region /\ a.user = c.user
          /\ a.epoch = c.epoch /\ a.hi \in Nat
      BY <2>7 DEF LedgerInv, SameWindow, Slices
    <3>2. a.hi <= total[c.region][c.user]
      BY <2>1, <3>1 DEF Counted
    <3> QED BY <1>0, <2>1, <2>2, <3>1, <3>2
  <2>8. \A a, b \in Undecided' \cup approved' : SameWindow(a, b) /\ a # b => Disjoint(a, b)
    BY <2>1, <2>7 DEF LedgerInv, SameWindow, Disjoint
  <2> QED BY <2>1, <2>4, <2>5, <2>6, <2>8 DEF LedgerInv, SameWindow, Disjoint
<1>7. CASE UNCHANGED L!ledgerVars
  BY <1>7 DEF L!ledgerVars, LedgerInv, Counted
<1> QED BY <1>2, <1>3, <1>4, <1>5, <1>6, <1>7 DEF L!LedgerNext

\* Being a ledger is enough: whatever counts, in whatever order claims are made, decided,
\* forfeited and expire, the approvals of a window own disjoint parts of the limit.
\* (AtomicModeEnforcesLimit follows from this and AtomicModeImplementsLedger as well.)
THEOREM LedgersEnforceLimit == ImplementsLedger => []ApprovalsShareNothing
<1>1. L!LedgerInit => LedgerInv
  BY DEF L!LedgerInit, LedgerInv
<1>2. LedgerInv /\ [L!LedgerNext]_(L!ledgerVars) => LedgerInv'
  BY LedgerStep
<1>3. LedgerInv => ApprovalsShareNothing
  BY DEF LedgerInv, ApprovalsShareNothing, Counted
<1> QED BY <1>1, <1>2, <1>3, PTL DEF ImplementsLedger, L!LedgerSpec

-----------------------------------------------------------------------------
(* No verdict is lost, in any mode.                                        *)

\* A handler that returned nil has left a verdict behind.
VerdictInv == \A m \in handled : m \in breached \/ \E a \in approved : a.tx = m

\* Every step keeps it.
LEMMA VerdictStep == ASSUME RiskInv, VerdictInv, [Next]_vars PROVE VerdictInv'
<1>1. ASSUME handled' = handled, breached \subseteq breached', approved' = approved
      PROVE  VerdictInv'
  BY <1>1 DEF VerdictInv
<1>2. ASSUME NEW m \in Messages, TimesOut(m) \/ DeadLetters(m) \/ Retires(m)
      PROVE  VerdictInv'
  BY <1>1, <1>2 DEF TimesOut, DeadLetters, Retires, VisibilityTimeout, Redrive,
                    RetentionExpiry, riskVars
<1>3. ASSUME NEW t \in Tasks,
             \/ Receives(t) \/ Begin(t) \/ Deletes(t)
             \/ Cancels(t) \/ Stops(t) \/ Kill(t) \/ Restarts(t)
      PROVE  VerdictInv'
  BY <1>1, <1>3 DEF Receives, Begin, Deletes, Cancels, Stops, Kill, Restarts, Receive,
     Process, Delete, Cancel, Stop, Crash, Down, Restart, riskVars
<1>4. ASSUME NEW t \in Tasks, Approve(t) PROVE VerdictInv'
  <2>1. slice[t].tx = cur[t].msg
    BY <1>4 DEF Approve, RiskInv, TaskInv, Reserved, Tx
  <2> QED BY <1>4, <2>1 DEF Approve, HandleOk, VerdictInv
<1>5. ASSUME NEW t \in Tasks, Publish(t) PROVE VerdictInv'
  BY <1>5 DEF Publish, HandleOk, VerdictInv, Tx
<1>6. ASSUME NEW t \in Tasks, Handle(t), ~Approve(t), ~Publish(t) PROVE VerdictInv'
  <2>1. /\ HandleErr(t) \/ UNCHANGED sqsVars
        /\ breached \subseteq breached' /\ approved' = approved
    BY <1>6 DEF Handle, IncrPrimary, IncrPrimaryFails, ExpirePrimary, IncrSecondary,
       IncrSecondaryFails, ExpireSecondary, Get, GetFails, SetPrimary, SetPrimaryFails,
       SetSecondary, SetSecondaryFails, Block, PublishFails
  <2> QED BY <1>1, <2>1 DEF HandleErr, sqsVars
<1>7. ASSUME NEW r \in Queues, NEW u \in Users, KeyExpires(r, u) PROVE VerdictInv'
  BY <1>1, <1>7 DEF KeyExpires, sqsVars
<1>8. CASE UNCHANGED vars
  BY <1>1, <1>8 DEF vars, sqsVars, riskVars
<1> QED BY <1>2, <1>3, <1>4, <1>5, <1>6, <1>7, <1>8 DEF Next

\* Whatever fails and in either check mode, a transaction is deleted from the
\* queue only after it was approved or its breach was published.
THEOREM EveryDeletionHasAVerdict == Spec => []NoVerdictLost
<1>1. Init => SqsInv /\ VerdictInv
  BY SqsInvInit DEF Init, SqsInit, VerdictInv
<1>2. SqsInv /\ [Next]_vars => SqsInv'
  BY SqsInvStep, RiskStepIsSqsStep
<1>3. RiskInv /\ VerdictInv /\ [Next]_vars => VerdictInv'
  BY VerdictStep
<1>4. SqsInv /\ VerdictInv => NoVerdictLost
  BY DEF SqsInv, DeletedOnlyIfHandled, VerdictInv, NoVerdictLost
<1> QED BY <1>1, <1>2, <1>3, <1>4, RiskInvInit, RiskInvStep, PTL DEF Spec
=============================================================================
