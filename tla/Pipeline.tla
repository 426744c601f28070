------------------------------ MODULE Pipeline ------------------------------
(***************************************************************************)
(* A transaction from POST /transaction to the last service that settles   *)
(* it: the transaction service writes the row and publishes the event, SNS *)
(* fans it out, each service marks the row and publishes what it found,    *)
(* the manual-review service takes over what was dead-lettered, and the    *)
(* alert service notifies.                                                 *)
(*                                                                         *)
(* One action per remote call.  The redelivery of a message is here        *)
(* whatever leaves it in its queue (an error, a crash, a failed delete);   *)
(* the timers behind it and two tasks on one message are in SqsConsumer,   *)
(* and how the risk service reaches its decision is in RiskMonitor: here   *)
(* the new total is any of Totals.                                         *)
(***************************************************************************)
EXTENDS Rules

CONSTANTS
  Txs,         \* transactions
  Bodies,      \* the requests clients send
  Services,    \* the subscribed services
  MaxReceive,  \* MaxReceive[s]: maxReceiveCount of the queue of service s
  DailyLimit,  \* DAILY_LIMIT of the risk service
  Totals,      \* the daily totals INCRBYFLOAT may return
  Faults       \* which calls and processes may fail

ASSUME PipelineAssumption ==
  /\ Services \subseteq FilteredServices \cup UnfilteredServices
  /\ MaxReceive \in [Services -> Nat \ {0}]
  /\ DailyLimit \in Nat
  /\ Totals \subseteq Nat
  /\ Bodies \subseteq Requests
  /\ Faults \subseteq {"dynamo", "sns", "redis", "cloudwatch", "delete", "crash"}

VARIABLES
  request,   \* request[x]: where ServeHTTP is, or the reply it gave
  body,      \* body[x]: what the client sent
  status,    \* status[x]: the status attribute of the DynamoDB row
  q,         \* q[x][s]: where the message about x for service s is
  receives,  \* receives[x][s]: its ApproximateReceiveCount
  hstep,     \* hstep[x][s]: the next call of the handler working on it
  reviewing, \* at least one manual-review task is running
  finding,   \* finding[x][s]: the event that handler is about to publish
  published, \* events on the fraud-alert, risk-breach and compliance topics
  alertQ,    \* events in the alert queue
  notified,  \* events the alert service has dispatched
  judged,    \* ghost: <<x, s>> on which the handler of service s returned nil
  reviewed   \* ghost: <<x, s>> flagged for manual review

contextVars == <<request, body, reviewing>>
queueVars   == <<q, receives>>
eventVars   == <<published, alertQ, notified>>
ghostVars   == <<judged, reviewed>>
vars == <<request, body, status, q, receives, hstep, reviewing, finding,
          published, alertQ, notified, judged, reviewed>>

NoBody  == [user |-> "none"]
NoEvent == [kind |-> "none"]
Kinds   == {"fraud-alert", "risk-breach", "compliance-violation", "manual-review-needed"}
Events  == [kind : Kinds, tx : Txs, severity : Severities]
Statuses == {"none", "pending", "clean", "flagged", "blocked", "pending_manual_review"}

TypeOK ==
  /\ request \in [Txs -> {"new", "put", "publish", "202", "400", "500", "cut"}]
  /\ body \in [Txs -> Bodies \cup {NoBody}]
  /\ \A x \in Txs : request[x] # "new" => body[x] \in Bodies
  /\ status \in [Txs -> Statuses]
  /\ q \in [Txs -> [Services -> {"none", "queue", "dlq", "deleted"}]]
  /\ receives \in [Txs -> [Services -> Nat]]
  /\ hstep \in [Txs -> [Services -> {"idle", "check", "mark", "publish", "delete",
                                     "flag", "notify", "deleteReviewed"}]]
  /\ reviewing \in BOOLEAN
  /\ finding \in [Txs -> [Services -> Events \cup {NoEvent}]]
  /\ \A x \in Txs, s \in Services : hstep[x][s] = "publish" => finding[x][s] \in Events
  /\ published \in SUBSET Events
  /\ alertQ \in SUBSET Events
  /\ notified \in SUBSET Events
  /\ judged \in SUBSET (Txs \X Services)
  /\ reviewed \in SUBSET (Txs \X Services)

Init ==
  /\ request = [x \in Txs |-> "new"]
  /\ body = [x \in Txs |-> NoBody]
  /\ status = [x \in Txs |-> "none"]
  /\ q = [x \in Txs |-> [s \in Services |-> "none"]]
  /\ receives = [x \in Txs |-> [s \in Services |-> 0]]
  /\ hstep = [x \in Txs |-> [s \in Services |-> "idle"]]
  /\ reviewing = TRUE
  /\ finding = [x \in Txs |-> [s \in Services |-> NoEvent]]
  /\ published = {} /\ alertQ = {} /\ notified = {}
  /\ judged = {} /\ reviewed = {}

-----------------------------------------------------------------------------
(* The transaction service: ServeHTTP.                                     *)

Tx(x) == [body[x] EXCEPT !.priority = PriorityOf(body[x])]

\* The event, once published, is in the queues whose filter lets it pass.
FanOut(x) ==
  q' = [q EXCEPT ![x] = [s \in Services |->
          IF s \in RoutedTo(Tx(x).priority) THEN "queue" ELSE "none"]]

Submit(x) ==
  /\ request[x] = "new"
  /\ \E b \in Bodies :
       /\ body' = [body EXCEPT ![x] = b]
       /\ request' = [request EXCEPT ![x] = IF ValidRequest(b) THEN "put" ELSE "400"]
  /\ UNCHANGED <<reviewing, status, queueVars, hstep, finding, eventVars, ghostVars>>

PutItem(x) ==
  /\ request[x] = "put"
  /\ status' = [status EXCEPT ![x] = "pending"]
  /\ request' = [request EXCEPT ![x] = "publish"]
  /\ UNCHANGED <<body, reviewing, queueVars, hstep, finding, eventVars, ghostVars>>

\* Mutant: the failure is logged and the event published.
PutItemFails_Ignored(x) ==
  /\ request[x] = "put" /\ "dynamo" \in Faults
  /\ request' = [request EXCEPT ![x] = "publish"]
  /\ UNCHANGED <<body, reviewing, status, queueVars, hstep, finding, eventVars, ghostVars>>

\* The reply is 500 although the row may have been written.
PutItemFails(x) ==
  /\ request[x] = "put" /\ "dynamo" \in Faults
  /\ status' \in {status, [status EXCEPT ![x] = "pending"]}
  /\ request' = [request EXCEPT ![x] = "500"]
  /\ UNCHANGED <<body, reviewing, queueVars, hstep, finding, eventVars, ghostVars>>

PublishTx(x) ==
  /\ request[x] = "publish"
  /\ FanOut(x)
  /\ request' = [request EXCEPT ![x] = "202"]
  /\ UNCHANGED <<body, reviewing, status, receives, hstep, finding, eventVars, ghostVars>>

\* The reply is 500, the row stays, and the event may be out.
PublishTxFails(x) ==
  /\ request[x] = "publish" /\ "sns" \in Faults
  /\ FanOut(x) \/ UNCHANGED q
  /\ request' = [request EXCEPT ![x] = "500"]
  /\ UNCHANGED <<body, reviewing, status, receives, hstep, finding, eventVars, ghostVars>>

\* The transaction service is killed in the middle; the client gets no reply.
Cut(x) ==
  /\ request[x] \in {"put", "publish"} /\ "crash" \in Faults
  /\ request' = [request EXCEPT ![x] = "cut"]
  /\ UNCHANGED <<body, reviewing, status, queueVars, hstep, finding, eventVars, ghostVars>>

-----------------------------------------------------------------------------
(* A service and its queue.                                                *)

Goto(x, s, next) == hstep' = [hstep EXCEPT ![x][s] = next]

\* The handler returns an error, or is gone: the message stays in its queue.
GiveUp(x, s) == /\ Goto(x, s, "idle")
                /\ finding' = [finding EXCEPT ![x][s] = NoEvent]

\* The handler returns nil.
Done(x, s) == /\ Goto(x, s, "delete")
              /\ finding' = [finding EXCEPT ![x][s] = NoEvent]
              /\ judged' = judged \cup {<<x, s>>}

Event(k, x, sev) == [kind |-> k, tx |-> x, severity |-> sev]

\* The alert queue subscribes to the fraud-alert and risk-breach topics; the
\* manual-review service publishes to the fraud-alert topic.
Alerting == {"fraud-alert", "risk-breach", "manual-review-needed"}

Publishes(e) ==
  /\ published' = published \cup {e}
  /\ alertQ' = IF e.kind \in Alerting THEN alertQ \cup {e} ELSE alertQ
  /\ UNCHANGED notified

Receive(x, s) ==
  /\ q[x][s] = "queue" /\ hstep[x][s] = "idle" /\ receives[x][s] < MaxReceive[s]
  /\ receives' = [receives EXCEPT ![x][s] = @ + 1]
  /\ Goto(x, s, "check")
  /\ UNCHANGED <<contextVars, status, q, finding, eventVars, ghostVars>>

\* Mutant: the redrive policy is missing.
Redrive_Never(x, s) == FALSE /\ UNCHANGED vars

Redrive(x, s) ==
  /\ q[x][s] = "queue" /\ hstep[x][s] = "idle" /\ receives[x][s] = MaxReceive[s]
  /\ q' = [q EXCEPT ![x][s] = "dlq"]
  /\ UNCHANGED <<contextVars, status, receives, hstep, finding, eventVars, ghostVars>>

\* What the check of service s finds out: NoEvent when there is nothing to
\* report.  The risk service counts into Redis; the other two only compute.
Findings(x, s) ==
  CASE s = "fraud" ->
         LET p == detectPatterns(Tx(x)) IN
         IF p = {} THEN {NoEvent}
         ELSE {Event("fraud-alert", x, FraudSeverity(Tx(x), p))}
    [] s = "compliance" ->
         LET r == checkRules(Tx(x)) IN
         IF r = {} THEN {NoEvent}
         ELSE {Event("compliance-violation", x, ViolationSeverity(r))}
    [] OTHER ->
         {IF n <= DailyLimit THEN NoEvent
          ELSE Event("risk-breach", x, severityFromBreach(n, DailyLimit)) : n \in Totals}

\* Nothing found: fraud still has to mark the row clean, the others are done.
Check(x, s) ==
  /\ s \in FilteredServices /\ hstep[x][s] = "check"
  /\ \E f \in Findings(x, s) :
       IF f = NoEvent /\ s # "fraud"
         THEN Done(x, s)
         ELSE /\ finding' = [finding EXCEPT ![x][s] = f]
              /\ Goto(x, s, "mark")
              /\ UNCHANGED judged
  /\ UNCHANGED <<contextVars, status, queueVars, eventVars, reviewed>>

\* updateRisk returns an error.
CheckFails(x) ==
  /\ "risk" \in Services /\ hstep[x]["risk"] = "check" /\ "redis" \in Faults
  /\ GiveUp(x, "risk")
  /\ UNCHANGED <<contextVars, status, queueVars, eventVars, ghostVars>>

MarkOf(x, s) == IF finding[x][s] = NoEvent THEN "clean"
                ELSE IF s = "risk" THEN "blocked" ELSE "flagged"

\* Mutant: a failed update ends the handler as if there were nothing to tell.
Mark_FailureEnds(x, s) ==
  /\ hstep[x][s] = "mark"
  /\ \/ /\ status' = [status EXCEPT ![x] = MarkOf(x, s)]
        /\ IF finding[x][s] = NoEvent THEN Done(x, s)
           ELSE Goto(x, s, "publish") /\ UNCHANGED <<finding, judged>>
     \/ "dynamo" \in Faults /\ UNCHANGED status /\ Done(x, s)
  /\ UNCHANGED <<contextVars, queueVars, eventVars, reviewed>>

\* markClean, flagTransaction, blockTransaction: an UpdateItem without a
\* condition, whose failure is only logged.
Mark(x, s) ==
  /\ hstep[x][s] = "mark"
  /\ \/ status' = [status EXCEPT ![x] = MarkOf(x, s)]
     \/ "dynamo" \in Faults /\ UNCHANGED status
  /\ IF finding[x][s] = NoEvent THEN Done(x, s)
     ELSE Goto(x, s, "publish") /\ UNCHANGED <<finding, judged>>
  /\ UNCHANGED <<contextVars, queueVars, eventVars, reviewed>>

\* publishAlert, publishViolation, publishBreach.
Publish(x, s) ==
  /\ hstep[x][s] = "publish"
  /\ Publishes(finding[x][s])
  /\ Done(x, s)
  /\ UNCHANGED <<contextVars, status, queueVars, reviewed>>

\* Their failure is returned, although the event may be out.
PublishFails(x, s) ==
  /\ hstep[x][s] = "publish" /\ "sns" \in Faults
  /\ Publishes(finding[x][s]) \/ UNCHANGED eventVars
  /\ GiveUp(x, s)
  /\ UNCHANGED <<contextVars, status, queueVars, ghostVars>>

\* The unfiltered services: analytics pushes its metrics, audit-logging
\* appends to its buffer (see AuditLog).
Record(x, s) ==
  /\ s \in UnfilteredServices /\ hstep[x][s] = "check"
  /\ Done(x, s)
  /\ UNCHANGED <<contextVars, status, queueVars, eventVars, reviewed>>

RecordFails(x) ==
  /\ "analytics" \in Services /\ hstep[x]["analytics"] = "check" /\ "cloudwatch" \in Faults
  /\ GiveUp(x, "analytics")
  /\ UNCHANGED <<contextVars, status, queueVars, eventVars, ghostVars>>

\* deleteMessage, after the handler of the service or of manual-review.
Delete(x, s) ==
  /\ hstep[x][s] \in {"delete", "deleteReviewed"}
  /\ \/ q' = [q EXCEPT ![x][s] = "deleted"]
     \/ "delete" \in Faults /\ UNCHANGED q
  /\ GiveUp(x, s)
  /\ UNCHANGED <<contextVars, status, receives, eventVars, ghostVars>>

\* The task working on the message is killed.
Crash(x, s) ==
  /\ hstep[x][s] # "idle" /\ "crash" \in Faults
  /\ GiveUp(x, s)
  /\ UNCHANGED <<contextVars, status, queueVars, eventVars, ghostVars>>

-----------------------------------------------------------------------------
(* The manual-review service; the dead-letter queues have no limit.  The    *)
(* number of its tasks follows the depth of the fraud service's            *)
(* dead-letter queue alone, down to none.                                  *)

Visible(x, s) == q[x][s] = "dlq" /\ hstep[x][s] = "idle"

FraudDlqEmpty == \A x \in Txs, s \in Services \cap {"fraud"} : ~Visible(x, s)

ScaleOut ==
  /\ ~FraudDlqEmpty /\ ~reviewing
  /\ reviewing' = TRUE
  /\ UNCHANGED <<request, body, status, queueVars, hstep, finding, eventVars, ghostVars>>

\* The last task is stopped, in the middle of a message when it has one.
ScaleIn ==
  /\ FraudDlqEmpty /\ reviewing
  /\ reviewing' = FALSE
  /\ hstep' = [x \in Txs |-> [s \in Services |->
                IF q[x][s] = "dlq" THEN "idle" ELSE hstep[x][s]]]
  /\ UNCHANGED <<request, body, status, queueVars, finding, eventVars, ghostVars>>

ReviewReceive(x, s) ==
  /\ Visible(x, s) /\ reviewing
  /\ Goto(x, s, "flag")
  /\ UNCHANGED <<contextVars, status, queueVars, finding, eventVars, ghostVars>>

FlagForReview(x, s) ==
  /\ hstep[x][s] = "flag"
  /\ status' = [status EXCEPT ![x] = "pending_manual_review"]
  /\ reviewed' = reviewed \cup {<<x, s>>}
  /\ Goto(x, s, "notify")
  /\ UNCHANGED <<contextVars, queueVars, finding, eventVars, judged>>

\* Mutant: Handle always returns nil, as its comment says.
FlagFails_Deletes(x, s) ==
  /\ hstep[x][s] = "flag" /\ "dynamo" \in Faults
  /\ Goto(x, s, "deleteReviewed")
  /\ UNCHANGED <<contextVars, status, queueVars, finding, eventVars, ghostVars>>

FlagFails(x, s) ==
  /\ hstep[x][s] = "flag" /\ "dynamo" \in Faults
  /\ GiveUp(x, s)
  /\ UNCHANGED <<contextVars, status, queueVars, eventVars, ghostVars>>

\* notifyReviewNeeded; a failure is only logged.
NotifyReview(x, s) ==
  /\ hstep[x][s] = "notify"
  /\ \/ Publishes(Event("manual-review-needed", x, "high"))
     \/ "sns" \in Faults /\ UNCHANGED eventVars
  /\ Goto(x, s, "deleteReviewed")
  /\ UNCHANGED <<contextVars, status, queueVars, finding, ghostVars>>

-----------------------------------------------------------------------------
(* The alert service.                                                      *)

IdField(e) == CASE e.kind = "fraud-alert"          -> "alert_id"
                [] e.kind = "risk-breach"          -> "breach_id"
                [] e.kind = "compliance-violation" -> "violation_id"
                [] OTHER                           -> "none"

\* Handle notifies about what it recognises and returns nil for everything.  To
\* dispatch the same event again after a failed delete changes nothing here.
Alert(e) ==
  /\ e \in alertQ
  /\ notified' = IF detectEventType(IdField(e)) = "unknown"
                 THEN notified ELSE notified \cup {e}
  /\ alertQ' = alertQ \ {e}
  /\ UNCHANGED <<contextVars, status, queueVars, hstep, finding, published, ghostVars>>

AlertAbout(x, k) == \E e \in alertQ : e.tx = x /\ e.kind = k /\ Alert(e)

-----------------------------------------------------------------------------
Serve(x) == \/ PutItem(x)   \/ PutItemFails(x)
            \/ PublishTx(x) \/ PublishTxFails(x) \/ Cut(x)

ServiceStep(x, s) ==
  \/ Receive(x, s) \/ Check(x, s) \/ Mark(x, s) \/ Publish(x, s) \/ PublishFails(x, s)
  \/ Record(x, s)  \/ Delete(x, s)

ReviewStep(x, s) == FlagForReview(x, s) \/ FlagFails(x, s) \/ NotifyReview(x, s)

Next ==
  \/ \E x \in Txs : Submit(x) \/ Serve(x) \/ CheckFails(x) \/ RecordFails(x)
  \/ \E x \in Txs, s \in Services :
       \/ ServiceStep(x, s) \/ Crash(x, s) \/ Redrive(x, s)
       \/ ReviewReceive(x, s) \/ ReviewStep(x, s)
  \/ \E e \in alertQ : Alert(e)
  \/ ScaleOut \/ ScaleIn

Spec == Init /\ [][Next]_vars

\* Queues hand out and redrive, handlers run, the scale-out alarm fires while
\* its queue is not empty, and DynamoDB does not fail a review for ever that is
\* tried again and again.  Nothing is assumed of requests, of scaling in or of
\* the tasks of manual-review when no alarm asks for one.
Fairness ==
  /\ \A x \in Txs, s \in Services :
       /\ WF_vars(\/ ServiceStep(x, s) \/ Redrive(x, s)
                  \/ ReviewReceive(x, s) \/ ReviewStep(x, s))
       /\ SF_vars(FlagForReview(x, s))
  /\ WF_vars(ScaleOut)
  /\ \A x \in Txs, k \in Alerting : WF_vars(AlertAbout(x, k))

FairSpec == Spec /\ Fairness

-----------------------------------------------------------------------------
\* No service works on a transaction whose row is not there (an UpdateItem
\* would create a row that holds nothing but the mark).
RowBeforeEvent ==
  \A x \in Txs, s \in Services : q[x][s] # "none" => status[x] # "none"

\* A fraud or compliance handler that returned nil has published what the
\* rules find in the transaction: no failed update, publish or delete and no
\* crash between them costs an alert.
NoFindingLost ==
  \A x \in Txs, s \in Services \cap {"fraud", "compliance"} :
    <<x, s>> \in judged => Findings(x, s) \subseteq published \cup {NoEvent}

\* The priority thresholds, the filters and the fraud patterns fit together:
\* a transaction whose priority was derived is never marked clean, because
\* the amounts that are routed to fraud at all match a pattern.
CleanOnlyByClientPriority ==
  \A x \in Txs : status[x] = "clean" => body[x].priority # ""

\* The reply as the client sees it.
ReplyOf(x) == CASE request[x] \in {"new", "put", "publish"} -> "none"
                [] request[x] = "202"                       -> "202"
                [] OTHER                                    -> "failed"

\* A transaction seen from outside.
F == INSTANCE Flow WITH
       reply  <- [x \in Txs |-> ReplyOf(x)],
       Routes <- {RoutedTo(p) \cap Services : p \in Priorities}

\* The pipeline is a Flow: the row is written before the event is delivered,
\* the services write nothing but their marks, and each event delivered to a
\* service is in the end judged by it or dead-lettered, whatever fails on the
\* way and however often it is tried again.
ImplementsFlow == F!FlowFairSpec

\* What the fraud service could not process is flagged for manual review,
\* although the reviewers come and go and may be stopped in the middle.
FraudDeadLettersReviewed ==
  \A x \in Txs, s \in Services \cap {"fraud"} :
    q[x][s] = "dlq" ~> <<x, s>> \in reviewed

Undispatched(x, k) ==
  \E e \in published : e.tx = x /\ e.kind = k /\ e \notin notified

\* Every fraud alert and every risk breach is dispatched by the alert service.
AlertsDispatched ==
  \A x \in Txs, k \in {"fraud-alert", "risk-breach"} :
    Undispatched(x, k) ~> ~Undispatched(x, k)

Settled(x) ==
  \A s \in Services : hstep[x][s] = "idle" /\ q[x][s] \in {"none", "deleted"}

\* What the risk handler says of itself: a transaction with a published breach
\* is marked blocked (looked at when nobody works on it any more).
BreachedIsBlocked ==
  \A x \in Txs, sev \in Severities :
    Event("risk-breach", x, sev) \in published /\ Settled(x) => status[x] = "blocked"
=============================================================================
