----------------------------- MODULE Deployment -----------------------------
(***************************************************************************)
(* The deployed system as its operators can look at it: Flow, with the     *)
(* attributes the services leave in a row, their log lines, the audit      *)
(* objects in S3 and the tasks ECS runs.  verify_system.py, reconcile.py,  *)
(* cascade_report.py and the dashboard read this state while it moves.     *)
(*                                                                         *)
(* Everything that goes wrong costs one of MaxHitches.                     *)
(***************************************************************************)
EXTENDS Flow, Rules

CONSTANTS
  Body,        \* Body[x]: the request posted as transaction x
  DailyLimit,  \* DAILY_LIMIT of the risk service
  Stoppable,   \* bound: the services that may lose their task or be stopped
  MaxHitches   \* bound: how much may go wrong in one behaviour

ASSUME DeploymentAssumption ==
  /\ IsFiniteSet(Txs) /\ Services \subseteq FilteredServices \cup UnfilteredServices
  /\ Body \in [Txs -> Requests] /\ \A x \in Txs : ValidRequest(Body[x])
  /\ Stoppable \subseteq FilteredServices \cup UnfilteredServices \cup {"transaction", "alert"}
  /\ DailyLimit \in Nat /\ MaxHitches \in Nat

VARIABLES
  posted,      \* transactions that have been sent
  subscribed,  \* the services this behaviour looks at (chosen by Init)
  reviewers,   \* whether manual-review is running (chosen by Init)
  attrs,       \* attrs[x]: the id attributes of the row
  reason,      \* reason[x]: its flagged_reason
  spent,       \* spent[u]: the daily total of user u in Redis
  alerts,      \* alerts[x]: where events about x for the alert service are, or ended
  buffer,      \* records in the memory of audit-logging
  objects,     \* objects in the audit bucket, each the records it holds
  tasks,       \* tasks[t]: whether service t runs, lost its task or was stopped
  hitches      \* how much has gone wrong

choices   == <<subscribed, reviewers>>
rowVars   == <<attrs, reason>>
auditVars == <<buffer, objects>>
deploymentVars == <<flowVars, posted, choices, rowVars, spent, alerts, auditVars,
                    tasks, hitches>>

Users == {Body[x].user : x \in Txs}
Ids   == {"alert_id", "violation_id", "breach_id"}
Tasks == FilteredServices \cup UnfilteredServices \cup {"transaction", "alert"}

DeploymentTypeOK ==
  /\ reply \in [Txs -> {"none", "202", "failed"}]
  /\ status \in [Txs -> {"none", "pending", "clean", "flagged", "blocked",
                         "pending_manual_review"}]
  /\ q \in [Txs -> [Services -> {"none", "queue", "dlq", "deleted"}]]
  /\ judged \subseteq Txs \X Services /\ reviewed \subseteq Txs \X Services
  /\ posted \subseteq Txs /\ subscribed \subseteq Services /\ reviewers \in BOOLEAN
  /\ attrs \in [Txs -> SUBSET Ids]
  /\ reason \in [Txs -> {"none", "fraud_detected", "compliance_violation",
                         "risk_limit_exceeded"}]
  /\ spent \in [Users -> Nat]
  /\ alerts \in [Txs -> SUBSET {"queued", "dispatched", "dlq"}]
  /\ buffer \subseteq Txs /\ objects \in Seq(SUBSET Txs)
  /\ tasks \in [Tasks -> {"running", "lost", "stopped"}] /\ hitches \in 0..MaxHitches

DeploymentInit ==
  /\ FlowInit
  /\ posted = {}
  /\ attrs = [x \in Txs |-> {}] /\ reason = [x \in Txs |-> "none"]
  /\ spent = [u \in Users |-> 0]
  /\ alerts = [x \in Txs |-> {}]
  /\ buffer = {} /\ objects = <<>>
  /\ tasks = [t \in Tasks |-> "running"] /\ hitches = 0

Calm  == UNCHANGED hitches
Hitch == hitches < MaxHitches /\ hitches' = hitches + 1

Running(t) == tasks[t] = "running"

-----------------------------------------------------------------------------
(* The transaction service.                                                *)

Event(x) == [Body[x] EXCEPT !.priority = PriorityOf(Body[x])]
Route(x) == RoutedTo(Event(x).priority) \cap subscribed

\* ServeHTTP for a transaction that was sent; without a task the load
\* balancer refuses it.
Serve(x) ==
  /\ x \in posted
  /\ \/ Running("transaction") /\ (Write(x) \/ Accept(x, Route(x))) /\ Calm
     \/ Refuse(x, Route(x)) /\ IF Running("transaction") THEN Hitch ELSE Calm
  /\ UNCHANGED <<posted, choices, rowVars, spent, alerts, auditVars, tasks>>

-----------------------------------------------------------------------------
(* The services.                                                           *)

Mark(st, why, ids) == [status |-> st, reason |-> why, ids |-> ids]

\* What service s writes into the row of x: flagTransaction of fraud and of
\* compliance and blockTransaction of risk set the status, the reason and an
\* id of their own in one update; nothing found leaves the row alone, except
\* that fraud marks it clean.
Finding(x, s) ==
  LET asItIs == Mark(status[x], reason[x], {}) IN
  CASE s = "fraud" ->
         IF detectPatterns(Event(x)) = {} THEN Mark("clean", reason[x], {})
         ELSE Mark("flagged", "fraud_detected", {"alert_id"})
    [] s = "compliance" /\ checkRules(Event(x)) # {} ->
         Mark("flagged", "compliance_violation", {"violation_id"})
    [] s = "risk" /\ spent[Body[x].user] + Body[x].amount > DailyLimit ->
         Mark("blocked", "risk_limit_exceeded", {"breach_id"})
    [] OTHER -> asItIs

\* An attempt of service s, or the part of it that was done.  All goes well
\* when it is the first one, the row is updated and the handler returns nil.
\* Risk counts the amount again in every attempt; events about x that wait for
\* the alert service together are told as one.
Attempt(x, s, wrote, done) ==
  LET f == Finding(x, s) IN
  /\ Running(s)
  /\ Handle(x, s, IF wrote THEN f.status ELSE status[x], done)
  /\ reason' = IF wrote THEN [reason EXCEPT ![x] = f.reason] ELSE reason
  /\ attrs' = IF wrote THEN [attrs EXCEPT ![x] = @ \cup f.ids] ELSE attrs
  /\ spent' = IF s = "risk" THEN [spent EXCEPT ![Body[x].user] = @ + Body[x].amount] ELSE spent
  /\ alerts' = IF done /\ f.ids \cap {"alert_id", "breach_id"} # {}
               THEN [alerts EXCEPT ![x] = @ \cup {"queued"}]
               ELSE alerts
  /\ buffer' = IF s = "audit-logging" THEN buffer \cup {x} ELSE buffer
  /\ IF wrote /\ done /\ <<x, s>> \notin judged THEN Calm ELSE Hitch
  /\ UNCHANGED <<posted, choices, objects, tasks>>

Settles(x, s) ==
  /\ \/ Delete(x, s) /\ (q[x][s] = "dlq" => reviewers) /\ Calm
     \/ DeadLetter(x, s) /\ Hitch
  /\ UNCHANGED <<posted, choices, rowVars, spent, alerts, auditVars, tasks>>

\* A reviewer flags the row of a dead letter.
Reviews(x, s) ==
  /\ reviewers /\ Review(x, s) /\ Calm
  /\ UNCHANGED <<posted, choices, rowVars, spent, alerts, auditVars, tasks>>

\* The alert service dispatches what was published about x, or gives up.
Dispatch(x) ==
  /\ "queued" \in alerts[x] /\ Running("alert")
  /\ \E end \in {"dispatched", "dlq"} :
       /\ alerts' = [alerts EXCEPT ![x] = (@ \ {"queued"}) \cup {end}]
       /\ IF end = "dlq" THEN Hitch ELSE Calm
  /\ UNCHANGED <<flowVars, posted, choices, rowVars, spent, auditVars, tasks>>

\* audit-logging stores its buffer as one object, or is gone with it.
Flush ==
  /\ buffer # {} /\ buffer' = {}
  /\ \/ objects' = Append(objects, buffer) /\ Calm
     \/ UNCHANGED objects /\ Hitch
  /\ UNCHANGED <<flowVars, posted, choices, rowVars, spent, alerts, tasks>>

\* A service loses its task, which ECS replaces, or is scaled to none and back.
SetTask(t, state) ==
  /\ tasks' = [tasks EXCEPT ![t] = state]
  /\ UNCHANGED <<flowVars, posted, choices, rowVars, spent, alerts, auditVars>>

Stops(t)    == t \in Stoppable /\ Running(t) /\ Hitch /\ \E state \in {"lost", "stopped"} : SetTask(t, state)
Restarts(t) == ~Running(t) /\ Calm /\ SetTask(t, "running")

DeploymentNext ==
  \/ \E x \in Txs :
       \/ Serve(x) \/ Dispatch(x)
       \/ \E s \in subscribed :
            \/ \E wrote, done \in BOOLEAN : Attempt(x, s, wrote, done)
            \/ Settles(x, s) \/ Reviews(x, s)
  \/ Flush
  \/ \E t \in Tasks : Stops(t) \/ Restarts(t)

-----------------------------------------------------------------------------
(* What can be looked at.                                                  *)

HasRow(x) == status[x] # "none"

Row(x) == [tx |-> x, status |-> status[x], reason |-> reason[x], ids |-> attrs[x]]

\* What ApproximateNumberOfMessages may be for a dead-letter queue: it leaves out
\* the messages a reviewer holds.
DlqReadings(s) ==
  LET n == IF s \in Services THEN Cardinality({x \in Txs : q[x][s] = "dlq"}) ELSE 0
  IN  IF reviewers THEN 0..n ELSE {n}

\* Transactions with an event in the alert queue, or in its dead-letter queue.
AlertsIn(where) == Cardinality({x \in Txs : where \in alerts[x]})

\* The log stream of service t has a line with the id of x; audit-logging
\* writes none.
Logged(x, t) == IF t = "alert" THEN "dispatched" \in alerts[x]
                ELSE t # "audit-logging" /\ <<x, t>> \in judged

\* Everything sent has been dealt with.
AtRest ==
  /\ \A x \in posted : /\ reply[x] # "none" /\ "queued" \notin alerts[x]
                       /\ \A s \in Services : q[x][s] # "queue"
  /\ buffer = {}
=============================================================================
