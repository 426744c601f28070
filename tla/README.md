# Distributed trading risk monitor: a TLA+ model

The repository is a pipeline of Go services on ECS that talk through SNS topics
and SQS queues and keep their state in DynamoDB, Redis and S3. This project
models the services and the queues between them, checks the models with TLC
and proves the central results with TLAPS.

## 1. Inventory

| Component | State | Operations | Talks to |
|---|---|---|---|
| `shared/sqsconsumer` | the batch in hand, the context | `Start`, `poll`, `process`, `deleteMessage` | SQS, the handler of the service |
| SQS queues (`terraform/modules/sqs`) | messages, receive counts, visibility | deliver, hide, show again, redrive, expire | SNS subscriptions with filters |
| Transaction | none (row and event are remote) | `ServeHTTP`, `derivePriority` | DynamoDB `PutItem`, SNS `Publish` |
| Fraud | none | `Handle`, `detectPatterns`, `resolveSeverity` | DynamoDB `UpdateItem`, SNS |
| Compliance | block lists | `Handle`, `checkRules`, `resolveSeverity` | DynamoDB `UpdateItem`, SNS |
| Risk | daily totals in Redis, one or two of them | `Handle`, `updateRiskAtomic`, `updateRiskNonAtomic`, `blockTransaction`, `publishBreach` | Redis, DynamoDB, SNS |
| Analytics | none | `Handle` | CloudWatch |
| Audit logging | a buffer in memory | `Handle`, `Start`, `flush` | S3 |
| Alert | none | `Handle`, `detectEventType`, `notify` | logs |
| Manual review | none | `Handle` on every dead-letter queue | DynamoDB, SNS |
| Auto-scaling (`terraform/modules/autoscaling`) | number of tasks | step policies on queue depth | CloudWatch alarms, ECS |
| Dashboard | upload sessions, event log, delays | upload, batch submit; kill, restart, delay; status, explorer, metrics | ECS, SQS, DynamoDB, the transaction service |
| `scripts/chaos.sh` | the calls still to make | `kill`, `restore`, `status` | Application Auto Scaling, ECS |
| `scripts/verify_system.py` | results of its checks | one check after another: post, sleep, read, probe | load balancer, ECS, SQS, DynamoDB, S3, CloudWatch Logs |
| `locust/audit_test.py`, `scripts/reconcile.py` | a CSV file; counts | submit; look up, count, read queues, scan, report | load balancer, DynamoDB, S3, SQS |
| `scripts/cascade_report.py` | counts | one look at everything | ECS, SQS, DynamoDB, S3 |
| `locust/staged_load.py`, `locustfile.py` | simulated users | `tick`, the users' tasks | load balancer |
| Experiment runners | none | terraform, load test, measurements | everything, from outside |

A transaction is validated, written to DynamoDB with status `pending` and
published. SNS copies it to the queue of every subscribed service (fraud, risk
and compliance only see `high` and `critical`). Each service works on its own
copy; three of them update the same row without a condition and publish what
they found. Two of those topics feed the alert service. What a service failed
to process often enough lands in its dead-letter queue, which manual review
reads.

What is hard here:

* at-least-once delivery: a message is handled again after an error, a crash, a
  failed delete or a visibility timeout, and sometimes by two tasks at once,
  while the handlers are not idempotent (the risk service counts again);
* several remote calls per handler, each of which may fail, be answered too late
  or be the last before a kill, with errors that are returned in some places and
  only logged in others;
* two Redis instances written one after the other by two regions at once;
* a buffer shared by two goroutines, and acknowledged before it is durable;
* SIGTERM, after which a batch is still handled, with a cancelled context;
* scaling to zero on the depth of one queue out of five;
* alarms and policies that work on the number of tasks while a script, the
  dashboard and terraform set it, or take the policies away, call by call;
* a stream of progress events that the browser may close, lose or reopen while
  the backend goes on submitting rows;
* scripts and views that put a verdict together from reads of queues, rows, logs
  and objects, one after another, of a system that moves between the reads.

What makes each component correct, and the property that says it, is in
section 3; `hazards` of `PROJECT.json` lists the hard places line by line.

## 2. Modules

| Module | Models | Notes |
|---|---|---|
| `SqsConsumer` | a queue with visibility timeout, redrive and retention; the polling loop; SIGTERM, kill, restart | extended by the two modules below |
| `RiskMonitor` | `services/risk` over `SqsConsumer` | both check modes, all sync modes, Redis keys with TTL |
| `Ledger` | what a daily total promises, whatever counts in it | abstract; implemented by the atomic mode of `RiskMonitor` |
| `AuditLog` | `services/audit-logging` over `SqsConsumer` | two goroutines per task, S3 |
| `Rules` | the pure decisions of all services | no state |
| `Flow` | what a transaction promises to whoever looks from outside | abstract; implemented by `Pipeline`, extended by `Deployment` |
| `Pipeline` | transaction, fraud, risk (its decision abstracted), compliance, analytics, manual review with its scaling, alert | over `Rules`; refines `Flow` |
| `BatchUpload` | the batch upload of the dashboard: upload tab and backend | sessions, event streams |
| `Scaling` | alarms and step policies of the queue consumers, `chaos.sh`, the dashboard's kill and restart, terraform | in alarm periods |
| `Deployment` | all that can be looked at: rows, queues, daily totals, alerts, audit objects, log lines, ECS tasks | over `Flow` and `Rules` |
| `Verify`, `Reconcile`, `CascadeReport`, `Dashboard` | the scripts and the dashboard's other endpoints, call by call | over `Deployment` |
| `LoadShape` | the staged load test | over `Rules` |
| `Observers` | one of the tools beside the deployment | composes the five above |
| `*_proofs` (`SqsConsumer`, `RiskMonitor`, `AuditLog`, `Pipeline`, `BatchUpload`, `Scaling`, `Observers`), `RiskLimits_proofs` | theorems | section 4 |
| `MC...` | instances for TLC | constants only |

### SqsConsumer

`mstate` and `receives` are the queue; `batch`, `cur`, `pc` and `ctxDone` are a
task: the rest of `out.Messages`, the message in `process`, the program counter
and the cancelled context. A receipt is a message with the receive count it was
handed out under. `Receive` is `ReceiveMessage` (whose reply may be lost),
`Process` one turn of the loop of `poll`, `HandleOk` and `HandleErr` the return
of the handler, `Delete` the call of `deleteMessage`, which may fail without
consequence for the task. `Process` does not look at `ctxDone`, because the loop
over the batch does not; `Delete` under a cancelled context never reaches SQS.
`Crash` and `Restart` are ECS. `attempts` and `handled` are ghosts. The order
within a batch and the bodies are left out: a batch is a set.

### RiskMonitor

`step[t]` is the next remote call of the handler in task `t`; every call is an
action, with an action for its failure, in which the command may have run or
not. `total[r][u]` and `ttl[r][u]` are the key `risk:user:<u>:daily` in the Redis
of region `r`. `Peer` is the wiring of `REDIS_SECONDARY_ADDR` that
`scripts/experiment5_cap_test.sh` prescribes. Where `updateRisk` returns
`(prevTotal, newTotal)` the model keeps the `slice` of the daily total that
the increment took, with the window (region, user, epoch) it belongs to; the
ghost `approved` collects the slices of approved transactions, `epoch` counts
expiries of a key, and `breached` holds what is on the breach topic. The go-redis
client resends a command whose reply is late, so `IncrPrimary` may count once
more than the call says. `Faults` chooses which calls and processes may fail,
so that the runs can look at one group of failures at a time. Amounts are whole
cents; the rounding of floating-point totals is not modelled.

`Ledger` is what a daily total promises, without tasks, calls and queues: each
transaction claims a part of a user's line above all earlier ones, claims below the
limit may be approved, the others are forfeited, part of a line may be wasted on
no claim at all, and an expiry starts a new one. `L` in `RiskMonitor` maps it: the
total is how far a line is used, the slices in the hands of handlers (`Undecided`)
are the claims not decided yet. Only the atomic mode implements it: a SET writes
a total back that others have moved on from.

### AuditLog

`buffer`, `hstep` (the consumer's goroutine), `tstep` (the goroutine of `Start`)
and `taken` (the batch each of them has swapped out). Every section under the
mutex and every `PutObject` is an action; a batch is a bag of messages. A failed
put may have stored its object. `MainReturns` is `consumer.Start` returning and
`main` ending with it, without waiting for `Start`; puts under way then arrive
or not. The queue's visibility timeout is five minutes, so messages in hand do
not time out in this module. The ghosts `appended`, `stored`, `lost` and `twice`
are kept per task, so that each process accounts for its own records.

### Rules, Flow and Pipeline

`Rules` holds the decisions as operators over amounts in cents. In `Pipeline`
a transaction has a request, a row (`status`), and for each service a message
(`q`, `receives`) with the handler working on it (`hstep`, `finding`).
Redelivery is whatever leaves a message in its queue; the timers and two tasks on
one message are in `SqsConsumer`, the counting behind the risk service's decision
is in `RiskMonitor`, and `Totals` stands for the totals it may find. `Mark` is
`markClean`, `flagTransaction` or `blockTransaction`; `Publishes` knows which
topics the alert queue subscribes to. `ScaleOut` and `ScaleIn` are the two alarms
of the manual-review service: both look at the visible messages of the fraud
dead-letter queue, and the last reviewer may be stopped in the middle of a
message. In the deployed task definition the fraud service's table does not
exist (`terraform/modules/ecs-services/main.tf:91`): its marks always fail there,
which is the `"dynamo"` fault.

`Flow` is the same system without its insides: the reply the client got, the
status of the row, and for each subscribed service where its message is and
whether the service has judged it. It allows a service to touch the row only
while its message is in its queue, an answer of 202 only for a row that exists,
and a message to leave its queue for good only when it was judged or goes to the
dead-letter queue; fairness says that none stays. `Pipeline` states the refinement
mapping (`F == INSTANCE Flow WITH ...`): `reply` is what the state of the request
means to the client (`ReplyOf`), `Routes` what the subscription filters let through,
and the other variables have the same names in both. All retries, partial failures
and kills of `Pipeline` map to steps of `Handle` and `Refuse`, or to stutters.

### BatchUpload

`upload[u]` follows one `POST /api/upload`; the sessions the backend holds are
`stored`. `stream[k]` is the k-th `GET /api/batch-submit`: its session, where the
generator of `batch_submit` stands, its counts, and in `chan` the events on their
way. `parsed`, `es`, `running`, `done`, `progress` and `summary` are the state of
the React component. A message is handled only while `es` is its stream, so
closing it drops what is on its way, while the backend submits rows until it
notices (`Abandon`). `Disconnected` includes what an EventSource does by itself:
unless `onerror` closes it, the request is sent again. A row is the POST to the
transaction service, which may create the transaction and still not be answered
with 202. `accepted` and `starts` are ghosts, `restarts` bounds the restarts. One
tab is modelled; the log, its export, rates, error messages and the badge in
`App.jsx` are left out.

### Scaling

`Period` is one evaluation period of a service: a new maximum depth of its queue,
the runs `high` and `low` of its two alarms, and what the policy of an alarm in
ALARM does (`ScaleOut`, `ScaleIn`) or does not (`Hold`). `Goal` is the step
adjustment within the bounds of the target; how Application Auto Scaling treats
cooldowns (tasks added within one count towards the next step, a scale-in rests),
a service below its minimum and a target that is registered again is not in the
repository and modelled as external. `script` is the command of `chaos.sh` that
runs, with the list of its remaining calls (`KillCalls`, `RestoreCalls`); each call
is an action, between which alarms, dashboard and terraform go on. `Deregister`
tolerates a refusal, `Abort` is `set -e` or Ctrl+C. Alarms and policies are
parameters; the four pairs of the repository are operators beside them. ECS is
instantaneous, a scaling activity is one step, cooldowns are whole periods;
target tracking of the transaction service is left out.

### Deployment

`Deployment` lets `Flow` move with what the operators' tools read: the reason and
the id attributes that `flagTransaction` and `blockTransaction` leave in a row
(`Finding`, decided by `Rules` from the request and, for risk, the total spent), the
daily totals, the places where events about a transaction wait for the alert service or
have ended (`alerts[x]`, a set: one event may be dispatched and another dead-lettered),
the buffer of audit-logging and the objects it has stored, and whether ECS runs a task. `Attempt` is one attempt of a
service or the part of it that was done: with or without the update, with or
without success. Everything that goes wrong (a lost reply, a partial or a repeated
attempt, a dead letter, a flush that fails, a task that is lost or scaled away)
costs one of `MaxHitches`. Which services are watched and whether manual review runs
are chosen by the initial state. How handlers work inside is the matter of the
modules above. `Deployment` takes the actions of `Flow` as its own, with every subset
of the services as a route, and `Pipeline` is shown to implement `Flow` under the
subscription filters.

### Verify, Reconcile, CascadeReport

`Verify` follows `main` of `verify_system.py` through a plan of checks. A check that
posts goes `post`/`sent` for each of its transactions, `wait` (the sleep), `fetch`
(`dynamo_get_with_retry`, with its bounded retries), `Evaluate` (the judgement over
the rows read) and `probe` (dead-letter queues and log streams). `fails` are the
results that did not pass, each one of `Findings`. `Dies` is an exception that nothing catches. The ghost
`calm` says that all sleeps and timeouts were long enough.

`Reconcile` is `audit_test.py` and then `reconcile.py`. Up to `LoadUsers` users claim
sequence numbers and post (`submit_audit_transaction`), and write the line of the CSV file
when the reply is there (`write_row`), in whatever order. The first one who finds no number
left stops all of them (`quit`), so that what is still in flight has been sent and has no
line. `reconcile.py` looks each accepted line up, counts audit objects, reads five
dead-letter queues and scans for duplicates. `pending` holds the numbers of the rows, or
queues, still to be looked up, which are taken in order; the count of the audit entries is
printed and goes nowhere, so `count_s3_audit_entries` changes nothing else.

`CascadeReport` is one look at five places and the comparison of what was found. Its
look-back window opens while the experiment goes on: from `RowsBegin` on the
rows that are written count (`older` are the transactions of before, among them some that
have their timestamp and no row yet), from `ObjectsBegin` on the objects (`olderObjects` is
how many there were). The two are apart because `LastModified` has whole seconds and `since`
is cut to the second for the rows alone; the clocks of the services and of S3 are taken to
agree otherwise. Of the six queue names only the alert queue and its dead-letter queue exist;
the others are errors, which the totals leave out (`check_queues`). The ghost `unaccounted` is
what the report claims to know: the rows it has counted that are in no object.
The time windows of the other two scripts are left out: all that they look at happened in them.

### Dashboard

The ghost `accepted` has the chaos requests whose `update_service` ECS accepted, and those that
have set the delay; what the text of their log entries claims is not modelled. The requests
run on FastAPI's pool of threads: `local[r]` is what the thread of
request `r` has read. `add_event` is two statements, each of which reads the list
`events` and assigns a new one (`Prepend`, `Assign`, `Trim`, `Assign`), so requests can
overwrite each other's list. The views are put together from calls to AWS:
`ScanPage` is one call to `scan`, with the filter and the limit of the explorer or
the whole table for the metrics; `AddDepth` reads one queue of a sum. `Ascending` puts the
rows of a page into the order of the table, and those of the explorer's reply into that of
their timestamps, newest first and equal ones in any order. The table is ordered by `Position`, so rows inserted behind a scan are not seen and rows inserted
before it are.

### LoadShape

`tick` is the shape's method and the second after it: users move towards the stage's
target at its rate. `_post_transaction` is a post of one user in one of the three
tasks, with an amount of the range that task draws from.

### Observers

`Init` chooses the tool, and for `verify_system.py` the plan, whose services it watches; for
the other tools `Watched` has the sets of services to choose from. The tool then steps
while the deployment moves (`Moves`), until the tool has ended. The load test and
the chaos requests look at nothing, so the deployment rests beside them.

Not modelled anywhere: bodies that cannot be parsed (the queues only hold what
the transaction service has marshalled), event ids, wording, the contents of
metrics.

## 3. Runs

`expect: violation` runs are disagreements between the code and what the
repository says of it; each is written up under `findings`.

| Run | Question | Bounds |
|---|---|---|
| `risk_atomic` | Are the totals a ledger, does the limit hold, and is redelivery the only retry, with two tasks, failures and expiry? | 1 region, 2 tasks, batches of 2; amounts 3 and 2, limit 4; 2 receives; 1 expiry; faults timeout, delete, redis, sns |
| `risk_single_task` | Is the racy mode safe with one task, through SIGTERM, kill, restart and retention, is every message settled, and none without a verdict? | 1 task, dual-write, batches of 2; faults receive, retention, sns, shutdown, crash; no expiry |
| `risk_dual_write` | What do two regions that mirror each other guarantee? | 3 messages, 2 regions, limit 5; faults timeout, secondary |
| `risk_global_limit` | Is there one limit for both regions? No. | as above, limit 4, no fault |
| `audit` | Do two goroutines conserve the records of one buffer, and do all get out? | 2 messages, batch size 2, 1 ambiguous put per record, kills |
| `audit_shutdown` | Does a shutdown flush everything? No. | the same without kills |
| `pipeline` | Is any finding lost, any event ahead of its row, any derived priority out of step with the patterns? | 1 transaction, 6 requests at the thresholds, all faults |
| `pipeline_settles` | Does the pipeline implement `Flow`, is every fraud dead letter reviewed, every alert dispatched? | fraud and risk, faults dynamo, redis, crash |
| `pipeline_blocked` | Does a breached transaction stay blocked? No. | risk and compliance, no fault |
| `batch` | Is a summary true, is a row submitted only by the user, are rows kept until sent, does a run end? | 2 uploads of 1 good row, of 2 rows with a bad one behind a preview of 1, or of none; 2 runs; 1 restart |
| `scaling` | Does an announced kill hold, does no policy flap, is a backlog scaled for? | fraud with high-priority policies up to 3 tasks, analytics with low-priority ones, scaling in after 3 periods instead of 5; 3 depths and 2; 3 commands, throttled calls |
| `observers` | What may the verdicts of the scripts, the dashboard's log and views and the load stages be relied on for, and does each end? | 5 transactions, 1 or 2 services watched (3 for the fraud check), 2 users of the audit load and 1 number for them, 1 hitch, 1 retry, pages of 1 row, a log of 1 entry, 3 chaos requests |

Why the bounds are enough to be interesting. Two messages with two receives make
redelivery, redrive and two tasks on one message happen. The amounts 3 and 2 against
a limit of 4 let each transaction pass alone and not both; either counted twice is
above it. One expiry separates two windows. With a limit of 5 the two regions of
`risk_dual_write` can approve two transactions and refuse the third. Two records
with a batch size of 2 make `Handle` flush while the ticker does. The transactions
of `Pipeline` share no row, no message and no handler, and the alert service treats
events one by one, so one transaction is enough; its six requests lie at the
thresholds of `derivePriority`, `detectPatterns` and `checkRules`. Two uploads let
the second be answered while the first is being submitted; two runs let a stopped
stream go on beside the next one. `receives` is bounded by `MaxReceive`, `epoch` by
`MaxEpoch` and the ambiguous puts by `MaxTwice`; `MaxStreams` and `MaxRestarts`
bound the runs and the restarts of `batch`, `MaxOps` the commands of `scaling`,
`MaxHitches` what goes wrong in `observers`; no other counter grows for ever. Three
commands are a kill, a restore and an apply, or a restart in the middle of a kill;
the depths lie below, between and above the thresholds and where two tasks are
added, and the low-priority policies have the cooldowns longer than a period. The
kill list has one service to keep the run small; the theorem has any. The consumer's
contract is checked inside `risk_atomic` and not on bare queues, so
that deletes and retries are those of a handler that has work to do; SIGTERM, kills, retention
and lost receives are left to `risk_single_task` to keep `risk_atomic` (1.2 million
states) small; with kills it has 3.4 million and holds as well, `NoVerdictLost` included.

`observers` posts the requests of `verify_system.py` itself; the risk check has two
transfers of $30,000 in place of five of $15,000 (the last one is above the limit of
$50,000 and the first is not), the polls one retry in place of three to six, which
is enough for a row that is late once and for one that never comes. One hitch lets
each single failure meet each read; with two the run no longer ends in time. One number and
two users of the audit load let the load be stopped over a transaction in flight; lines that
are written out of order need two numbers and are left to the proofs. Two transactions before
or after either edge of its window let the cascade report meet each reason of each warning:
each of them was seen to occur. The
explorer asks once for both transactions of the traffic, whose order in the table is not that of
their timestamps, and once for one type with a limit of one. Each
plan watches the services its check looks at; the proofs are for any. Pages of one row make every scan be interrupted
everywhere, a log of one entry makes every trim cut. The stages of the load test are
those of the file. Symmetry is used for the two tasks of `risk_atomic`, in which
nothing distinguishes them and no liveness is checked. Where `CHECK_DEADLOCK FALSE`
stands the system may come to rest: every message settled and nothing left that may
fail.

What the properties say.

* `OneAttemptPerReceive`, `DeletedOnlyIfHandled` and `EventuallySettled` are the contract of the consumer: the receive count bounds
  the work, and only a handler's success removes a message.
* `DailySpendWithinLimit` is what the risk service is for. `ApprovalsShareNothing`
  is why it holds: each approval owns a part of `[0, limit]`. `ImplementsLedger` is the
  refinement of `Ledger`, step by step: a redelivery, a resent command or a killed
  handler wastes part of the line and never gives any back, so that failures err
  towards blocking. `NoVerdictLost` says that no failure lets a
  transaction through unjudged.
* `EveryReplicaCoversApprovals` is what dual-write does guarantee: an approval is
  in both totals before it is given, so only transactions in flight at once can
  overspend together, which is what `GlobalLimitEnforced` fails on.
  `EveryTotalExpires` holds while nothing fails.
* `RecordsConserved` accounts for every audit record, process by process;
  `AppendedIsStored` says none waits for ever. `ShutdownLosesNothing` fails.
* `NoFindingLost`, `RowBeforeEvent` and `CleanOnlyByClientPriority` relate the
  services of the pipeline to each other. `ImplementsFlow` is the refinement: with
  its fairness it also says that every message leaves its queue.
  `FraudDeadLettersReviewed` and `AlertsDispatched` are further progress. The alert
  queue subscribes to the fraud and breach topics only, so `AlertsDispatched` says
  nothing of compliance violations, which reach nobody.
* `SummaryIsTrue` says that a summary without failures is the truth about every
  row, `OncePerSubmit` that nothing but the Submit button sends a row again,
  `KeptUntilSent` that no stop and no lost connection takes unsent rows away, and
  `RunsEnd` that a run that is shown ends. They do not say that a row reported as
  failed was not created (a reply may be late), nor that the summary stands
  beside the file it is about (a second upload may have replaced it).
* `AnnouncedKillHolds` rests on the order of the script's calls: a service that is
  stopped first may be scaled out before it is deregistered. It speaks of the
  services that were deregistered; a refusal is taken for a missing target, and
  such a service comes back with its backlog although the script says that all
  are killed. `NoFlapping` is what the two thresholds and the evaluation periods
  are for. `BacklogReachesMax` says that the policies undo the dashboard's kill;
  after `restore` it holds once somebody has registered the target again, which
  `restore` does not do.
* `NoFalseAlarm`: when nothing goes wrong and the sleeps are long enough,
  `verify_system.py` reports no failure, with one exception: `flagged_reason` of its
  fraud check, which compliance overwrites with a reason of its own for the same
  $50,000. `ExitZeroIsTrue`: exit code 0 means that everything the checks speak of has
  happened, however late and in whichever order they read it.
* `ReconcileVerdictIsTrue`: "fully reconciled" means that every accepted transaction
  has its row, and, if the services were through and all queues could be read, that
  each was judged by every service. It does not mean that a record is in S3: the
  count is printed and never compared. Dead letters that a reviewer has in hand are
  not counted, hence the condition.
* `CascadeWarningsAreTrue` names for each warning of `cascade_report.py` all the reasons it
  can have, and so what a reader may conclude from it. Dead letters are there. More
  objects than rows, when nothing was being worked on, mean a duplicate or a row from before
  the window with its object in it, as the report says. Rows "NOT yet in S3" are what it
  says only if no two records share an object and none is in an object of the second in which
  the window opens; section 6 comes back to this. The good news mean less: four of the
  six queue names belong to no queue, so "no dead letters" speaks of alerts alone, and
  "match" compares rows with objects, each of which may hold many records.
* `OnlyAcceptedAreLogged`: concurrent requests may lose entries of the event log, but none
  is there before ECS has accepted its request (or the delay is set), or twice, and the log
  is as short as it should be as soon as nobody writes it. It says nothing of what an entry
  claims beyond that (section 6). `ScansAreComplete`: what is inserted between two
  pages displaces nothing; if more rows match than the explorer's limit, which it shows
  is left to the table's order, although it calls them recent.
* `StagesReachTarget`: the ramp rates of the stages are enough. `OnlyHighValueIsFiltered`
  relates the ranges the load test draws from to `derivePriority`.
* `ToolsEnd`: every script ends and every view is answered.

Fairness. SQS runs its timers and its redrive policy; a handler that can take a
step takes one (every remote call has a client timeout, and a failure counts as
a step); ECS replaces tasks (`desired_count`). `Receive` is strongly fair: a task
that is killed again and again still polls sometimes. In `AuditLog` the
ticker's puts are strongly fair: S3 does not fail for ever; and `select` does not
prefer the ticker to a cancelled context for ever. In `Pipeline` the scale-out alarm fires
while its queue is not empty, and a review that is tried for ever succeeds at
last. In `BatchUpload` the backend works on its requests (a POST has a timeout),
and its events or the end of its response reach the tab; the user and the loss
of connections are free. In `Scaling` periods go on (`PeriodsGoOn`):
there is another one unless it would change nothing at the depth the queue has.
Weak fairness of `Period` would be too much, for a period may change the depth: it
would exclude every queue that comes to rest, and with them all that
`BacklogReachesMax` is about. In `Observers` a script makes its next call and a request
its next one, errors are not forced on them, and the clock of the load test goes on
(one condition for all, because one tool runs in a behaviour);
the deployment need not move at all, because no verdict waits for it without a bound.
In `Flow` messages leave their queues, which `Pipeline` shows of its own queues under
its own fairness. Nothing is assumed of requests, cancellations, kills or scaling in.

## 4. Proofs

All theorems are for arbitrary constants under the assumptions named in the
modules (`QueueAssumption`, `RiskAssumption`, `AuditAssumption`, `PipelineAssumption`,
`BatchAssumption`, `ScalingAssumption`, `DeploymentAssumption`, `VerifyAssumption`,
`PayloadsAssumption`, `ReconcileAssumption`, `CascadeAssumption`, `DashboardAssumption`,
`ObserversAssumption`), which the runs evaluate. They ask for types and for bounds that are numbers; for finite
sets of tasks and of transactions, because proofs count in them; for requests in
`Observers` that the transaction service accepts, which all its tools send; for rows at
different places of the table; and that each check of `verify_system.py` but the one of
the risk limit posts one transaction, as it does. `PayloadsAssumption` says what the
constants in `verify_system.py` are made for: the low-value payload is routed past the
filtered services, the others are not and match a pattern; the fraud and the risk check
post as a user of this run, always the same amount, which fits into the limit once and not
as often as the risk check posts it; the services a check waits for are there, and the audit
trail is looked at after something was posted. Only `NoFalseAlarms` uses it. Hypotheses beyond these stand in the
theorems themselves and are named below.

`SqsConsumer_proofs`: `SqsTypeCorrect`; `DeletionFollowsHandling`, whose
inductive invariant adds that a task in its delete step works on a handled
message; and `RedeliveryIsTheOnlyRetry`: what a
handler may still be started for is in some task's batch, and such tasks (`Holders`)
count with the starts. `AttemptInv` adds that a batch holds one receipt of a message.

`RiskMonitor_proofs`:

* `RiskImplementsSqs`: every step of the risk service is a step of the consumer
  or leaves it alone, so `Spec => SqsSpec`, and the theorems above carry over
  (`RiskIsASoundConsumer`).
* `TypeCorrect`: `RiskInv` adds to the types that a busy handler belongs to a task
  in its handle step and that the slice in hand is one of its own transaction.
* `AtomicModeEnforcesLimit`: with `CheckMode # "non-atomic"`, approvals of a
  window share nothing of the limit. `AllowanceInv` strengthens the property: all
  slices in hand, and not only the approved ones, lie below the present total of
  their window, and any two of them, of different tasks or approved, are disjoint.
  A new slice starts at the present total, above all others; totals only grow
  within a window (`TotalsGrow`), and an expiry ends the window.
* `AtomicModeLosesNoCount`: in the same mode a total never shrinks before it expires
  (`TotalNeverShrinks`).
* `AtomicModeImplementsLedger`: every step of the risk service in atomic mode is a step
  of `Ledger` or a stutter. The mapping takes the set of the slices in hand, so
  `AllowanceInv` is needed for more than the limit: two tasks never hold the same slice
  (`SlicesApart`), so the one that a handler gives up is gone, and a new one was not there
  before, since it begins at the present total.
* `LedgersEnforceLimit`: the same limit from the ledger alone. `LedgerInv` is `AllowanceInv`
  without tasks and messages: all claims, decided or not, lie below the total of their
  window and apart from each other. Whatever is put in place of `updateRisk` keeps the
  limit if it implements `Ledger`.
* `EveryDeletionHasAVerdict`: `VerdictInv` adds that a message whose task is about
  to delete it has been approved or reported.

`RiskLimits_proofs`, about what the limits add up to:

* `AtomicModeLimitsSpend`: with `CheckMode # "non-atomic"`, for any tasks, regions and
  faults, `DailySpendWithinLimit`. It follows from `ApprovalsShareNothing` by
  `DisjointSlicesFit`: finitely many disjoint parts of `[0, limit]` have a sum within the
  limit. The sum is a fold, and induction is out of reach, but not a least
  counterexample: `SummationExists` looks at the smallest set without a sum (strict
  inclusion of finite sets is well founded), which gives the sum its recursive equation
  (`SumUnfolds`), and the lemmas take the smallest set that does not fit and remove the
  topmost slice.
* `SingleWriterEnforcesLimit` and `SingleWriterLimitsSpend`: the same two properties with
  `CheckMode = "non-atomic"`, where two tasks on one Redis lose updates, under `OneWriter`:
  no task writes a Redis in which another one counts. One task satisfies it, and so do two
  regions of one task each without dual-write. `RoundInv` says that what a task has read
  stays below its total until it writes it back.
* `UnexpiredTotalsCoverApprovals`: with atomic counters, `SyncMode = "dual-write"` and
  `TwoRegions` (two regions that are each other's peer, as
  `scripts/experiment5_cap_test.sh` wires them; or one that is its own), a total that has
  never expired is at least what was approved anywhere. Approvals alone are not
  inductive: `MirrorInv` counts with them the transactions whose handler has counted in
  one region or in both and has not decided yet (`CountedAt`). After an expiry the two
  totals start again at different times and the statement is false, hence `epoch = 0`, and
  `MaxEpoch = 0` in `DualWriteCoversApprovals`, which is the property of the run.
* `NoTotalForgetsItsTtl`: `EveryTotalExpires` in every check mode and sync mode, with any
  number of tasks, redelivery, crashes and failing secondaries. It asks that `"redis"`
  and `"expire"` are not among the faults (a command that is resent or an EXPIRE that
  fails leaves a total for ever, a hazard listed at `handler.go:181`) and neither is
  `"shutdown"` (a cancelled context fails the EXPIRE too, and the error is only logged).
  `ExpiryInv` says that as long as no handler has failed each total has its TTL or the
  task that counted first is about to set it; `OnceInv` is what makes this task the only
  one on its message.

`AuditLog_proofs`: `AuditImplementsSqs` and `AuditIsASoundConsumer` as above, although
a second goroutine works beside the consumer; `AuditTypeCorrect`; and
`RecordsAccountedFor`, for any batch size. Counts are functions from messages to
numbers, and each step moves records between two places of one task's account:
`Swap` from the buffer to what a goroutine has taken, `Stores` and `PutsBack` out of it
again, the end of a process to `lost`. The strengthening is in the types: a
goroutine has taken something only where it is about to put it.

`Pipeline_proofs`:

* `PipelineTypeCorrect`, whose core is that what a service finds is an event of a
  known severity (`FindingsAreEvents`).
* `RowPrecedesEvent`: `PlaceInv` adds what the order of the two writes rests on: no
  row before the put, a row before the publish, no message before the event, and
  a message wherever a handler works or has judged. All steps outside the
  transaction service stay within one frame (`PlaceFrame`), so that the invariant
  is looked at once for them.
* `FindingsArePublished` and `CleanMeansClientPriority`: `FindingInv` adds that a
  handler about to mark or publish holds the finding of its own service, that
  only fraud marks without a finding, and that a filtered queue only has routed
  priorities. The rules compute one result (`RulesAreDeterministic`), so what is
  published is what there is to find; `DerivedPriorityMeansPattern` is the
  arithmetic of the thresholds: from $10,000 up, an amount is above the
  high-value threshold or is round.

* `PipelineIsAFlow`: every step of the pipeline is a step of `Flow` or a stutter.
  Beyond the invariants above it needs `WorkInv`: a handler works on a message that is
  still in its queue, a review on one in the dead-letter queue, and either deletes
  only what it has judged or reviewed.

`BatchUpload_proofs`, for any files, uploads, runs and restarts:

* `BatchTypeCorrect`, over `Shape`, the types of all variables, and `SessionInv`, which
  ties a stream that was opened to a session whose upload was answered and bounds
  its counts by the rows of the file.
* `SummariesAreTrue`: `TruthInv` follows the truth from the POST to the screen. Counts
  without a failure mean that each row sent is a transaction, first in the stream, then
  in each event on its way, then in what is shown. It survives because transactions
  are never taken back and the file of a session never changes.
* `RowsAreSentOncePerSubmit`: `OnceInv` counts. A row of an upload has become at most as
  many transactions as streams of that upload have gone past it, and there are as
  many streams of it as Submit was pressed for it.
* `RowsAreKept`: `KeptInv`. A session leaves the backend's memory only when some stream
  has gone through all its rows (`Exhausted`), or with a restart.

`Scaling_proofs`:

* `ScalingTypeCorrect`: types, and no service above its maximum.
* `AnnouncedKillsHold`: `KillInv` adds that what a kill has deregistered has no
  policies, and that each such service without a stop still has its stop among
  the calls that are left (`ToStop`); the calls of a kill are of that form
  (`KillStopsLater`) and stay so while they are made (`TailStopsLater`).
* `PoliciesDoNotFlap`: `CalmInv` says that the run of the scale-in alarm is never
  longer than nothing was added, because the depth that adds a task ends it.

`Observers_proofs`, for any tool, transactions and faults of the deployment:

* `LogIsOfAccepted`: `LogInv` says that every list in the hand of `add_event` is
  itself a log (known requests, each once, all accepted), that no list knows a
  request which has not come to `add_event` yet, and that whoever has made the log
  too long is on the way to cut it. Whichever list is assigned last is then a log.
* `HighValueLoadsTheFiltered`: the ranges of the users' tasks against the thresholds of
  `derivePriority` (`AmountsApart`).
* `ExitZeroTells`, which gives `ExitZeroIsTrue` for any list of checks. What the
  script has seen is never taken back by a step of the deployment (`DeploymentGoesOn`:
  replies, rows, ids, dispatched alerts, log lines and objects stay), so `EvidenceInv`
  can follow it: while nothing has failed, every check that is over has `Passed`, and the
  current one has, by its step, the replies it has been given, rows that are those of
  its transactions as they were or have become since (`RowsRead`, which counts them for
  the risk limit), and for each log line it asks for either the line or a probe
  that is still to come.

* `CascadeWarnings`: `ReportInv` ties what the report has counted to the deployment. Dead
  letters of alerts are never taken back. If all was at rest when it began (`quiet`), all
  still is, so that its counts are those of one moment; if then the objects of the window
  are more than its rows, each holds a record of a row, and either one of these is from before
  the window or, by counting, two objects hold the same one (`ObjectsExplained`). If more
  rows were counted than objects and each of them is in some object, then by counting again two
  share one, unless one is in an object from before the window (`MissingExplained`); and
  a reason stays one while objects are added (`ExplainedStays`).
  The proof failed at first, and for a reason: `alerts[x]` was the place of the last event
  about `x`, so that with two hitches an alert that was dead-lettered and repeated had no
  dead letter any more. The model was wrong there, and the run, with its one hitch, did
  not show it; `alerts[x]` has been a set since.
* `ReconcileVerdict`: `VerdictInv` says that a missing row means a failed read, that each
  dead-letter queue which has been read as empty holds nothing about an accepted
  transaction (`Clear`), and that it stays so: a message that has left its queue never comes
  back, and without reviewers none leaves the dead-letter queue. `DLQS` names all five
  queues, so what is not in one of them and not waiting has been judged.
* `ScansComplete`, for any table, page size, limit and traffic: `ScanInv` says that while a
  scan lasts its rows are apart from each other, at positions it has reached, and leave
  out none of those the table held there when the question came. A page is a beginning
  of the rows beyond (`PageTells`), and what is inserted later is a new row.
  That the rows can be put in order at all is proved by a least counterexample again
  (`SortExists`).
* `StagesReach`: by `OnCourse` the number of users follows from the time alone, stage by
  stage: those the stage began with, moved towards its goal by the seconds since.
* `ObserversTyped`: the type invariant of the whole composition. `TypesInv` needs most
  of the invariants above: that a look-up is about a transaction of the check at hand
  is in `Script`, the rows a scan returns are in `ScanInv`, the lists of the log in `LogInv`.

All steps of the tools keep `BaseInv` (the types of the deployment; `FlowInv`, which says
how replies, rows, messages and alerts hang together; `Script` and `Submission`, where the
two scripts are), and every step is `Onward`: it takes nothing back that a verdict may rest
on. Each of the theorems about a script is proved against these two instead of
the deployment's actions.

`NothingIsTakenBack` states the latter of the specification.

`NoFalseAlarms` is the other direction: not that good news is true but that bad news is
not invented. It is false for arbitrary payloads (a check of high value that posts $5 finds
no alert id), hence `PayloadsAssumption`. `AlarmInv` follows a deployment in which no hitch
was spent:

* `Undisturbed`: all tasks run, nothing was refused or dead-lettered, and only services
  on its route have a transaction.
* `Found`: a row tells which services have judged it and what they found, whoever wrote
  last: fraud leaves its id where a pattern matches, and only risk blocks. What audit
  has judged is in its buffer or stored.
* `Enforced`: what the user of the fraud or the risk check has spent is the number of its
  transactions that were counted times their amount; one of them was allowed, and past
  the limit one was not.
* `Unalarmed`, as long as the script was `calm`: by its step, every transaction posted has been
  accepted and, after the sleep, dealt with (`DealtWithStays`: for good), the rows read
  are those of its transactions and pass, and each probe left will find what it looks for.

The one failure it excuses, `flagged_reason` of the fraud check, is real: compliance may
have written its own reason over it.

Only model-checked:

* Everything under fairness: `EventuallySettled`, `AppendedIsStored`, the fairness half of
  `ImplementsFlow`, `FraudDeadLettersReviewed`, `AlertsDispatched`, `RunsEnd`,
  `BacklogReachesMax` and `ToolsEnd` (liveness is beyond this prover).

The provers at hand cannot show that a literal is a member of `STRING`; the type invariants
therefore name the sets of words they mean (`Findings`, `Phases`), which says more.

## 5. Plan

Done: all modules of section 2, the refinement of `Flow` by `Pipeline`, and the
proofs of section 4, which by now cover every safety property of the runs that is expected
to pass. What would come next:

1. `NoFalseAlarm` with several scripts at once: the risk check's user is its own, but the
   audit check takes any object for its own.
2. `Observers` with two hitches, one tool per run.
3. A ledger of two regions that mirror each other, which would say by how much
   dual-write can overspend.

## 6. Not modelled

* Target tracking of the transaction service: AWS chooses its alarms and steps.
* The network, registry, cluster, load balancer and CloudWatch dashboard modules:
  declarations without behaviour of the application.
* The shell scripts that run experiments: terraform, a load test and measurements,
  one after another.
* The rendering and polling of the dashboard's frontend, the counts of its metrics
  by type and minute, and the aliases of column names an uploaded file may use.
* `dynamo_scan_user` of `verify_system.py`, which nothing calls, and
  `storeUnparseable` of manual review, since no queue holds an unparseable event.
* The contents of metrics, notifications and object keys, the rounding of
  floating-point totals, and memory limits.

The README of the repository says that the dead letters of all five services are
consumed by manual review; its alarm watches the fraud service's queue alone, so
that the others wait while that one is empty and no reviewer runs. `Pipeline` models
this and promises progress for the fraud service's dead letters only. The
notification that manual review publishes has no event id, so the alert service
drops it and nobody is told; `Pipeline` models that too, and no property relies on it.

Two more statements of the program are not so, without a run of their own. `cascade_report.py`
prints "transactions stored in DynamoDB but NOT yet in S3" (line 283) whenever it has counted
more rows than objects; audit-logging stores up to a batch of records as one object, so
that all of them may be there, and `CascadeWarningsAreTrue` has that as a reason. The dashboard
logs a restart as "replayed N DLQ messages" (`main.py:227`, and the docstring of line 215):
the request reads the depth of the queue and sets the desired count, and nothing moves a message
out of a dead-letter queue. That is why `OnlyAcceptedAreLogged` speaks of the requests alone.
