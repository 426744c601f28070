---------------------------- MODULE RiskMonitor ----------------------------
(***************************************************************************)
(* The risk service (src/services/risk): Handle counts each transaction    *)
(* into its user's daily total in Redis and, when the new total is above   *)
(* the limit, marks the transaction blocked in DynamoDB and publishes a    *)
(* RiskBreach.  Several tasks poll the queue of a region; every region has *)
(* its own primary Redis, and in sync mode dual-write the Redis of the     *)
(* peer region is its secondary.                                           *)
(*                                                                         *)
(* One action per remote call: between two of them other tasks run, the    *)
(* message may become visible again, a key may reach its TTL, the task may *)
(* be killed.  Amounts are whole cents.  A message of SqsConsumer is a     *)
(* transaction event and a queue is a region.                              *)
(***************************************************************************)
EXTENDS SqsConsumer, Functions

CONSTANTS
  Users,
  UserOf,      \* UserOf[m]: tx.UserID
  Amount,      \* Amount[m]: tx.Amount
  DailyLimit,  \* DAILY_LIMIT
  CheckMode,   \* RISK_CHECK_MODE: "non-atomic"; anything else is atomic
  SyncMode,    \* REDIS_SYNC_MODE: "dual-write"; anything else is primary only
  Peer,        \* Peer[r]: the region whose Redis is the secondary of r
  MaxEpoch,    \* bound: how often a key may reach its TTL
  Faults       \* which calls and processes may fail

FaultKinds == {"receive", "timeout", "retention", "delete", "crash", "shutdown",
               "redis", "secondary", "expire", "dynamo", "sns"}

ASSUME RiskAssumption ==
  /\ UserOf \in [Messages -> Users]
  /\ Amount \in [Messages -> Nat \ {0}]
  /\ DailyLimit \in Nat
  /\ Peer \in [Queues -> Queues]
  /\ MaxEpoch \in Nat
  /\ Faults \subseteq FaultKinds

VARIABLES
  total,     \* total[r][u]: key risk:user:<u>:daily in Redis r, 0 when absent
  ttl,       \* ttl[r][u]: the key has an expiry
  epoch,     \* ghost: how often that key has expired so far
  step,      \* the next remote call of the handler running in the task
  prev,      \* prevTotal read by the GET of the non-atomic path
  slice,     \* what updateRisk returned, with the key and epoch it came from
  status,    \* the risk service's mark on the transaction's DynamoDB row
  breached,  \* transactions with a RiskBreach on SNS
  approved   \* ghost: the slices on which Handle returned nil without a breach

redisVars == <<total, ttl, epoch>>
riskVars  == <<total, ttl, epoch, step, prev, slice, status, breached, approved>>
vars      == <<sqsVars, riskVars>>

\* The part ]lo, hi] of a user's daily total that counting one transaction took.
Slices == [tx : Messages, user : Users, region : Queues, epoch : 0..MaxEpoch,
           lo : Nat, hi : Nat]
NoSlice == [tx |-> "none"]

RiskTypeOK ==
  /\ total \in [Queues -> [Users -> Nat]]
  /\ ttl \in [Queues -> [Users -> BOOLEAN]]
  /\ epoch \in [Queues -> [Users -> 0..MaxEpoch]]
  /\ step \in [Tasks -> {"idle", "update", "set", "expire", "secondary",
                         "expireSecondary", "check", "publish"}]
  /\ prev \in [Tasks -> Nat]
  /\ slice \in [Tasks -> Slices \cup {NoSlice}]
  /\ status \in [Messages -> {"pending", "blocked"}]
  /\ breached \in SUBSET Messages
  /\ approved \in SUBSET Slices

RiskInit ==
  /\ total = [r \in Queues |-> [u \in Users |-> 0]]
  /\ ttl = [r \in Queues |-> [u \in Users |-> FALSE]]
  /\ epoch = [r \in Queues |-> [u \in Users |-> 0]]
  /\ step = [t \in Tasks |-> "idle"]
  /\ prev = [t \in Tasks |-> 0]
  /\ slice = [t \in Tasks |-> NoSlice]
  /\ status = [m \in Messages |-> "pending"]
  /\ breached = {}
  /\ approved = {}

Init == SqsInit /\ RiskInit

-----------------------------------------------------------------------------
Tx(t)   == cur[t].msg
User(t) == UserOf[Tx(t)]
Amt(t)  == Amount[Tx(t)]
Home(t) == Polls[t]

\* A call of task t may fail: the service behind it fails, or SIGTERM has
\* cancelled the context the call is made with.
MayFail(t, kind) == kind \in Faults \/ ctxDone[t]

\* Handle is over in task t.
Leave(t) ==
  /\ step' = [step EXCEPT ![t] = "idle"]
  /\ slice' = [slice EXCEPT ![t] = NoSlice]
  /\ prev' = [prev EXCEPT ![t] = 0]

\* What follows the primary in updateRisk.
AfterPrimary == IF SyncMode = "dual-write" THEN "secondary" ELSE "check"

SliceOf(t, lo) ==
  [tx |-> Tx(t), user |-> User(t), region |-> Home(t),
   epoch |-> epoch[Home(t)][User(t)], lo |-> lo, hi |-> lo + Amt(t)]

-----------------------------------------------------------------------------
(* Handle.                                                                 *)

\* The consumer hands a transaction to Handle.
Begin(t) ==
  /\ Process(t)
  /\ step' = [step EXCEPT ![t] = "update"]
  /\ UNCHANGED <<redisVars, prev, slice, status, breached, approved>>

\* Mutant: the total is read and compared, but counted nowhere.
IncrPrimary_ReadsOnly(t) ==
  /\ step[t] = "update" /\ CheckMode # "non-atomic" /\ ~ctxDone[t]
  /\ slice' = [slice EXCEPT ![t] = SliceOf(t, total[Home(t)][User(t)])]
  /\ step' = [step EXCEPT ![t] = AfterPrimary]
  /\ UNCHANGED <<sqsVars, redisVars, prev, status, breached, approved>>

\* updateRiskAtomic: INCRBYFLOAT on the primary.  The Redis client sends the
\* command again when the reply is late, so a faulty network may count the
\* amount once more before the call that is answered (one resend here).
IncrPrimary(t) ==
  /\ step[t] = "update" /\ CheckMode # "non-atomic" /\ ~ctxDone[t]
  /\ \E resent \in {0} \cup IF "redis" \in Faults THEN {Amt(t)} ELSE {} :
       LET lo == total[Home(t)][User(t)] + resent IN
       /\ total' = [total EXCEPT ![Home(t)][User(t)] = lo + Amt(t)]
       /\ slice' = [slice EXCEPT ![t] = SliceOf(t, lo)]
       /\ step' = [step EXCEPT ![t] = IF lo = 0 THEN "expire" ELSE AfterPrimary]
  /\ UNCHANGED <<sqsVars, ttl, epoch, prev, status, breached, approved>>

\* The INCRBYFLOAT is answered with an error or not at all; it may have run.
IncrPrimaryFails(t) ==
  /\ step[t] = "update" /\ CheckMode # "non-atomic" /\ MayFail(t, "redis")
  /\ \E counted \in {0, Amt(t)} :
       total' = [total EXCEPT ![Home(t)][User(t)] = @ + counted]
  /\ HandleErr(t) /\ Leave(t)
  /\ UNCHANGED <<ttl, epoch, status, breached, approved>>

\* EXPIRE on a key this task counted first; a failure is only logged.
ExpirePrimary(t) ==
  /\ step[t] = "expire"
  /\ \/ ttl' = [ttl EXCEPT ![Home(t)][User(t)] = total[Home(t)][User(t)] > 0]
     \/ MayFail(t, "expire") /\ UNCHANGED ttl
  /\ step' = [step EXCEPT ![t] = AfterPrimary]
  /\ UNCHANGED <<sqsVars, total, epoch, prev, slice, status, breached, approved>>

\* Mutant: the TTL of the secondary is forgotten.
IncrSecondary_NoTtl(t) ==
  /\ step[t] = "secondary" /\ CheckMode # "non-atomic" /\ ~ctxDone[t]
  /\ total' = [total EXCEPT ![Peer[Home(t)]][User(t)] = @ + Amt(t)]
  /\ step' = [step EXCEPT ![t] = "check"]
  /\ UNCHANGED <<sqsVars, ttl, epoch, prev, slice, status, breached, approved>>

\* The mirrored INCRBYFLOAT on the secondary.
IncrSecondary(t) ==
  /\ step[t] = "secondary" /\ CheckMode # "non-atomic" /\ ~ctxDone[t]
  /\ LET old == total[Peer[Home(t)]][User(t)] IN
       /\ total' = [total EXCEPT ![Peer[Home(t)]][User(t)] = old + Amt(t)]
       /\ step' = [step EXCEPT ![t] = IF old = 0 THEN "expireSecondary" ELSE "check"]
  /\ UNCHANGED <<sqsVars, ttl, epoch, prev, slice, status, breached, approved>>

\* Mutant: a failed secondary write is only logged.
IncrSecondaryFails_Ignored(t) ==
  /\ step[t] = "secondary" /\ CheckMode # "non-atomic" /\ MayFail(t, "secondary")
  /\ step' = [step EXCEPT ![t] = "check"]
  /\ UNCHANGED <<sqsVars, redisVars, prev, slice, status, breached, approved>>

\* It fails, having run or not: Handle returns the error although the primary
\* has counted the transaction, and nothing undoes that.
IncrSecondaryFails(t) ==
  /\ step[t] = "secondary" /\ CheckMode # "non-atomic" /\ MayFail(t, "secondary")
  /\ \E counted \in {0, Amt(t)} :
       total' = [total EXCEPT ![Peer[Home(t)]][User(t)] = @ + counted]
  /\ HandleErr(t) /\ Leave(t)
  /\ UNCHANGED <<ttl, epoch, status, breached, approved>>

ExpireSecondary(t) ==
  /\ step[t] = "expireSecondary"
  /\ LET r == Peer[Home(t)] IN
       \/ ttl' = [ttl EXCEPT ![r][User(t)] = total[r][User(t)] > 0]
       \/ MayFail(t, "expire") /\ UNCHANGED ttl
  /\ step' = [step EXCEPT ![t] = "check"]
  /\ UNCHANGED <<sqsVars, total, epoch, prev, slice, status, breached, approved>>

\* updateRiskNonAtomic: GET on the primary, then a sleep.
Get(t) ==
  /\ step[t] = "update" /\ CheckMode = "non-atomic" /\ ~ctxDone[t]
  /\ prev' = [prev EXCEPT ![t] = total[Home(t)][User(t)]]
  /\ step' = [step EXCEPT ![t] = "set"]
  /\ UNCHANGED <<sqsVars, redisVars, slice, status, breached, approved>>

\* Mutant: the GET is retried for ever inside the handler.
GetFails_RetriesForever(t) ==
  /\ step[t] = "update" /\ CheckMode = "non-atomic" /\ MayFail(t, "redis")
  /\ UNCHANGED vars

GetFails(t) ==
  /\ step[t] = "update" /\ CheckMode = "non-atomic" /\ MayFail(t, "redis")
  /\ HandleErr(t) /\ Leave(t)
  /\ UNCHANGED <<redisVars, status, breached, approved>>

\* Mutant: the amount is stored in place of the sum.
SetTotal_StoresAmount(t, r) ==
  /\ total' = [total EXCEPT ![r][User(t)] = Amt(t)]
  /\ ttl' = [ttl EXCEPT ![r][User(t)] = TRUE]

\* A SET of prev + amount with the TTL, on the Redis of region r.
SetTotal(t, r) ==
  /\ total' = [total EXCEPT ![r][User(t)] = prev[t] + Amt(t)]
  /\ ttl' = [ttl EXCEPT ![r][User(t)] = TRUE]

SetPrimary(t) ==
  /\ step[t] = "set" /\ ~ctxDone[t]
  /\ SetTotal(t, Home(t))
  /\ slice' = [slice EXCEPT ![t] = SliceOf(t, prev[t])]
  /\ step' = [step EXCEPT ![t] = AfterPrimary]
  /\ UNCHANGED <<sqsVars, epoch, prev, status, breached, approved>>

SetPrimaryFails(t) ==
  /\ step[t] = "set" /\ MayFail(t, "redis")
  /\ SetTotal(t, Home(t)) \/ UNCHANGED <<total, ttl>>
  /\ HandleErr(t) /\ Leave(t)
  /\ UNCHANGED <<epoch, status, breached, approved>>

SetSecondary(t) ==
  /\ step[t] = "secondary" /\ CheckMode = "non-atomic" /\ ~ctxDone[t]
  /\ SetTotal(t, Peer[Home(t)])
  /\ step' = [step EXCEPT ![t] = "check"]
  /\ UNCHANGED <<sqsVars, epoch, prev, slice, status, breached, approved>>

SetSecondaryFails(t) ==
  /\ step[t] = "secondary" /\ CheckMode = "non-atomic" /\ MayFail(t, "secondary")
  /\ SetTotal(t, Peer[Home(t)]) \/ UNCHANGED <<total, ttl>>
  /\ HandleErr(t) /\ Leave(t)
  /\ UNCHANGED <<epoch, status, breached, approved>>

\* allowed := newTotal <= dailyLimit.  Handle returns nil without a breach.
Approve(t) ==
  /\ step[t] = "check" /\ slice[t].hi <= DailyLimit
  /\ approved' = approved \cup {slice[t]}
  /\ HandleOk(t) /\ Leave(t)
  /\ UNCHANGED <<redisVars, status, breached>>

\* Mutant: a blocked transaction is refunded by writing prevTotal back.
Block_Refunds(t) ==
  /\ step[t] = "check" /\ slice[t].hi > DailyLimit
  /\ status' = [status EXCEPT ![Tx(t)] = "blocked"]
  /\ total' = [total EXCEPT ![Home(t)][User(t)] = slice[t].lo]
  /\ step' = [step EXCEPT ![t] = "publish"]
  /\ UNCHANGED <<sqsVars, ttl, epoch, prev, slice, breached, approved>>

\* blockTransaction; a failure is only logged.
Block(t) ==
  /\ step[t] = "check" /\ slice[t].hi > DailyLimit
  /\ \/ ~ctxDone[t] /\ status' = [status EXCEPT ![Tx(t)] = "blocked"]
     \/ MayFail(t, "dynamo") /\ UNCHANGED status
  /\ step' = [step EXCEPT ![t] = "publish"]
  /\ UNCHANGED <<sqsVars, redisVars, prev, slice, breached, approved>>

\* publishBreach.
Publish(t) ==
  /\ step[t] = "publish" /\ ~ctxDone[t]
  /\ breached' = breached \cup {Tx(t)}
  /\ HandleOk(t) /\ Leave(t)
  /\ UNCHANGED <<redisVars, status, approved>>

\* Mutant: a breach that could not be published is only logged.
PublishFails_Ignored(t) ==
  /\ step[t] = "publish" /\ MayFail(t, "sns")
  /\ HandleOk(t) /\ Leave(t)
  /\ UNCHANGED <<redisVars, status, breached, approved>>

PublishFails(t) ==
  /\ step[t] = "publish" /\ MayFail(t, "sns")
  /\ breached' \in {breached, breached \cup {Tx(t)}}
  /\ HandleErr(t) /\ Leave(t)
  /\ UNCHANGED <<redisVars, status, approved>>

Handle(t) ==
  \/ IncrPrimary(t)   \/ IncrPrimaryFails(t)   \/ ExpirePrimary(t)
  \/ IncrSecondary(t) \/ IncrSecondaryFails(t) \/ ExpireSecondary(t)
  \/ Get(t)           \/ GetFails(t)
  \/ SetPrimary(t)    \/ SetPrimaryFails(t)
  \/ SetSecondary(t)  \/ SetSecondaryFails(t)
  \/ Approve(t) \/ Block(t) \/ Publish(t) \/ PublishFails(t)

-----------------------------------------------------------------------------
(* What happens around the handler.                                        *)

\* Redis removes a key whose TTL has passed.
KeyExpires(r, u) ==
  /\ ttl[r][u] /\ epoch[r][u] < MaxEpoch
  /\ total' = [total EXCEPT ![r][u] = 0]
  /\ ttl' = [ttl EXCEPT ![r][u] = FALSE]
  /\ epoch' = [epoch EXCEPT ![r][u] = @ + 1]
  /\ UNCHANGED <<sqsVars, step, prev, slice, status, breached, approved>>

\* The actions of the queues and of the consumer that leave the handler alone.
TimesOut(m)  == /\ VisibilityTimeout(m) /\ (Held(m) => "timeout" \in Faults)
                /\ UNCHANGED riskVars
DeadLetters(m) == Redrive(m) /\ UNCHANGED riskVars
Retires(m)   == "retention" \in Faults /\ RetentionExpiry(m) /\ UNCHANGED riskVars
Receives(t)  == /\ Receive(t) /\ ("receive" \in Faults \/ batch'[t] # {})
                /\ UNCHANGED riskVars
Deletes(t)   == /\ Delete(t) /\ (MayFail(t, "delete") \/ mstate' = DeletedBy(cur[t]))
                /\ UNCHANGED riskVars
Cancels(t)   == "shutdown" \in Faults /\ Cancel(t) /\ UNCHANGED riskVars
Stops(t)     == Stop(t) /\ UNCHANGED riskVars
Restarts(t)  == Restart(t) /\ UNCHANGED riskVars

\* A task killed in the middle of Handle forgets where it was.
Kill(t) ==
  /\ "crash" \in Faults
  /\ Crash(t) /\ Leave(t)
  /\ UNCHANGED <<redisVars, status, breached, approved>>

Next ==
  \/ \E m \in Messages : TimesOut(m) \/ DeadLetters(m) \/ Retires(m)
  \/ \E t \in Tasks : \/ Receives(t) \/ Begin(t) \/ Handle(t) \/ Deletes(t)
                      \/ Cancels(t) \/ Stops(t) \/ Kill(t) \/ Restarts(t)
  \/ \E r \in Queues, u \in Users : KeyExpires(r, u)

Spec == Init /\ [][Next]_vars

\* SQS runs its timeouts and its redrive policy; a handler in the middle of a
\* call gets on with it (every remote call has a client timeout); a task that
\* keeps coming up gets to poll sometimes, even if it is killed again and
\* again; ECS replaces tasks.
Fairness ==
  /\ \A m \in Messages : WF_vars(TimesOut(m)) /\ WF_vars(DeadLetters(m))
  /\ \A t \in Tasks : /\ SF_vars(Receives(t)) /\ WF_vars(Restarts(t))
                       /\ WF_vars(Begin(t) \/ Handle(t) \/ Deletes(t) \/ Stops(t))

FairSpec == Spec /\ Fairness

-----------------------------------------------------------------------------
TypeOK == SqsTypeOK /\ RiskTypeOK

\* The spend of the transactions approved on u's key in region r during one epoch.
ApprovedTxs(r, u, e) ==
  {s.tx : s \in {a \in approved : a.region = r /\ a.user = u /\ a.epoch = e}}
SumOf(T) == FoldFunctionOnSet(+, 0, Amount, T)
ApprovedSpend(r, u, e) == SumOf(ApprovedTxs(r, u, e))
GlobalSpend(u) == SumOf({a.tx : a \in {b \in approved : b.user = u}})

\* What the service is for: between two expiries of a user's key, the
\* transactions approved in a region never add up to more than the limit.
DailySpendWithinLimit ==
  \A r \in Queues, u \in Users, e \in 0..MaxEpoch : ApprovedSpend(r, u, e) <= DailyLimit

Disjoint(a, b) == a.hi <= b.lo \/ b.hi <= a.lo
SameWindow(a, b) == a.region = b.region /\ a.user = b.user /\ a.epoch = b.epoch

\* Why it holds: every approval owns a part of [0, limit] as long as its amount
\* and no two approvals of one window share any of it, whichever tasks decided
\* them, with redelivery, lost replies and crashes in between.
ApprovalsShareNothing ==
  /\ \A a \in approved : a.hi <= DailyLimit /\ a.hi = a.lo + Amount[a.tx]
  /\ \A a, b \in approved : SameWindow(a, b) /\ a # b => Disjoint(a, b)

\* A transaction whose message was deleted was either approved or reported:
\* no failure of Redis, DynamoDB or SNS, no crash and no timeout swallows one.
NoVerdictLost ==
  \A m \in Messages : mstate[m] = "deleted" =>
    m \in breached \/ \E a \in approved : a.tx = m

\* Until the key expires the daily total never shrinks.
TotalNeverShrinks ==
  [][\A r \in Queues, u \in Users :
       epoch'[r][u] = epoch[r][u] => total'[r][u] >= total[r][u]]_vars

\* The handler of task t has counted its transaction and holds a slice for it.
Reserved(t) ==
  step[t] \in {"expire", "secondary", "expireSecondary", "check", "publish"}

Undecided == {slice[t] : t \in {u \in Tasks : Reserved(u)}}

\* The totals in Redis as the ledger they are meant to be.
L == INSTANCE Ledger WITH
       Regions <- Queues,  Claims <- Slices,  Limit <- DailyLimit,
       used    <- total,   window <- epoch,   held  <- Undecided

\* Every transaction is counted into a part of the total of its own and approved
\* for that part alone; until the key expires no total shrinks, and what a lost
\* reply, a redelivery or a killed handler has counted is approved for nobody.
ImplementsLedger == L!LedgerSpec

Idle == \A t \in Tasks : step[t] = "idle"

\* Every handler call so far returned nil and no message came twice.
NothingFailed ==
  \A m \in Messages : attempts[m] = IF m \in handled THEN 1 ELSE 0

\* In dual-write no region approves in ignorance of another: an approval is
\* returned only after both totals hold the transaction, whatever fails.  So
\* only transactions in flight at the same time can overspend together.
EveryReplicaCoversApprovals ==
  \A r \in Queues, u \in Users : GlobalSpend(u) <= total[r][u]

\* While nothing fails every total will expire, although only the task that
\* happened to count first sets the TTL.
EveryTotalExpires ==
  Idle /\ NothingFailed => \A r \in Queues, u \in Users : total[r][u] > 0 => ttl[r][u]

\* What the documents say of dual-write: one limit for both regions.
GlobalLimitEnforced ==
  \A u \in Users : GlobalSpend(u) <= DailyLimit
=============================================================================
