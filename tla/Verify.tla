------------------------------- MODULE Verify -------------------------------
(***************************************************************************)
(* verify_system.py: each check posts its transactions, sleeps, polls      *)
(* their rows, judges what it read and then probes dead-letter queues and  *)
(* log streams, while the deployment goes on.  One action per remote call  *)
(* (the polling of one log stream is one); an error that the script does   *)
(* not catch ends it.                                                      *)
(***************************************************************************)
EXTENDS Deployment

CONSTANTS
  Plans,     \* records: the checks main runs, the services looked at and whether IAM
             \* denies reading the logs, so that they are skipped
  CheckTxs,  \* CheckTxs[c]: the transactions check c posts, in order
  Retries    \* the retries of dynamo_get_with_retry

VARIABLES
  plan,      \* the checks main runs
  at,        \* the one being run
  step,      \* where in it, or how the script has ended
  left,      \* its transactions still to be posted, or read
  tries,     \* retries left for the row being read
  rows,      \* the rows read
  probes,    \* the probes left
  fails,     \* results that did not pass, as <<check, what>>
  denied,    \* whether the logs may not be read
  calm       \* ghost: the sleeps, the timeouts and the reads were enough

verifyVars == <<plan, at, step, left, tries, rows, probes, fails, denied, calm>>

Posting  == {"low", "high", "fraud", "risk"}
Verified == {"health", "queues", "audit"} \cup Posting

ASSUME VerifyAssumption ==
  /\ CheckTxs \in [Posting -> Seq(Txs)]
  /\ \A c \in Posting \ {"risk"} : Len(CheckTxs[c]) = 1
  /\ \A p \in Plans : /\ p.checks \in Seq(Verified) /\ p.denied \in BOOLEAN
                      /\ p.services \subseteq Services
  /\ Retries \in Nat

Sent(k) == {CheckTxs[k][i] : i \in 1..Len(CheckTxs[k])}

\* The services the check of a transaction waits for.
Needed(k) == CASE k = "high" -> {"fraud", "compliance"} [] k = "fraud" -> {"fraud"}
               [] k = "risk" -> {"risk"}                [] OTHER       -> {}

\* What the payloads are made for: that of the low-value check is routed past the
\* filtered services; the others are not, and match a pattern.  The fraud and the
\* risk check post as a user of this run, always the same amount, which fits
\* into the daily limit once, and not as often as the risk check posts it.  The
\* services a check waits for are there, and the audit trail is looked at last.
ASSUME PayloadsAssumption ==
  /\ \A x \in Sent("low") : PriorityOf(Body[x]) \in {"low", "medium"}
  /\ \A k \in Posting \ {"low"} : \A x \in Sent(k) :
       PriorityOf(Body[x]) \in {"high", "critical"} /\ detectPatterns(Event(x)) # {}
  /\ \A k \in {"fraud", "risk"} : \A x \in Sent(k) :
       /\ Body[x].amount <= DailyLimit
       /\ \A y \in Sent(k) : Body[y].user = Body[x].user /\ Body[y].amount = Body[x].amount
       /\ \A j \in Posting \ {k} : \A y \in Sent(j) : Body[y].user # Body[x].user
  /\ Sent("risk") # {} /\ Cardinality(Sent("risk")) = Len(CheckTxs["risk"])
  /\ \A x \in Sent("risk") : Cardinality(Sent("risk")) * Body[x].amount > DailyLimit
  /\ \A p \in Plans : \A i \in DOMAIN p.checks :
       /\ Needed(p.checks[i]) \subseteq p.services
       /\ p.checks[i] = "audit" => /\ "audit-logging" \in p.services
                                  /\ \E j \in 1..i - 1 : p.checks[j] \in Posting

\* What a check may report as failed.
Findings == Tasks \cup
  {"depth", "bucket", "objects", "POST", "row", "status", "priority", "fraud-processed",
   "flagged_reason", "alert_id", "rows", "breach", "allowed", "reason", "processed", "not-received"}

VerifyTypeOK ==
  /\ plan \in Seq(Verified) /\ at \in 1..Len(plan) + 1
  /\ step \in {"check", "post", "sent", "wait", "fetch", "probe", "exit0", "exit1", "died"}
  /\ left \in Seq(Txs) /\ tries \in 0..Retries
  /\ \A r \in rows : r.tx \in Txs
  /\ probes \in Seq([kind : {"empty", "log", "log-or-empty", "no-log"}, of : Tasks])
  /\ fails \subseteq Verified \X Findings
  /\ denied \in BOOLEAN /\ calm \in BOOLEAN

VerifyInit(p) ==
  /\ plan = p.checks /\ at = 1 /\ step = "check"
  /\ left = <<>> /\ tries = 0 /\ rows = {} /\ probes = <<>>
  /\ fails = {} /\ denied = p.denied /\ calm = TRUE

current == plan[at]

Fails(what) == fails' = fails \cup {<<current, w>> : w \in what}

NextCheck == at' = at + 1 /\ step' = "check"

-----------------------------------------------------------------------------
(* The checks that only look.                                              *)

\* Of the running count of each service.
check_service_health ==
  /\ current = "health"
  /\ Fails({t \in Tasks : ~Running(t)})
  /\ NextCheck /\ UNCHANGED <<posted, calm, left>>

\* A queue that cannot be read fails.
check_queue_status ==
  /\ current = "queues"
  /\ \E unreadable \in BOOLEAN :
       /\ Fails(IF unreadable THEN {"depth"} ELSE {})
       /\ calm' = (calm /\ ~unreadable)
  /\ NextCheck /\ UNCHANGED <<posted, left>>

\* Any object of the last five minutes will do.
check_audit_trail ==
  /\ current = "audit"
  /\ \E unreadable \in BOOLEAN :
       /\ Fails(IF unreadable THEN {"bucket"}
                ELSE IF objects = <<>> THEN {"objects"} ELSE {})
       /\ calm' = (calm /\ ~unreadable)
  /\ NextCheck /\ UNCHANGED <<posted, left>>

Look ==
  /\ step = "check" /\ at <= Len(plan)
  /\ check_service_health \/ check_queue_status \/ check_audit_trail
  /\ UNCHANGED <<plan, tries, rows, probes, denied>>

-----------------------------------------------------------------------------
(* The checks that post: low, high and fraud one transaction, risk several. *)

StartPosting ==
  /\ step = "check" /\ at <= Len(plan) /\ current \in Posting
  /\ left' = CheckTxs[current] /\ rows' = {}
  /\ step' = "post"
  /\ UNCHANGED <<plan, at, tries, probes, fails, denied, calm, posted>>

Post ==
  /\ step = "post" /\ left # <<>>
  /\ posted' = posted \cup {Head(left)}
  /\ step' = "sent"
  /\ UNCHANGED <<plan, at, left, tries, rows, probes, fails, denied, calm>>

\* Mutant: a transaction that was not accepted is only printed.
PostReturns_OnlyPrints ==
  /\ step = "sent"
  /\ \/ reply[Head(left)] \in {"202", "failed"} /\ UNCHANGED calm
     \/ calm' = FALSE
  /\ left' = Tail(left) /\ step' = "post"
  /\ UNCHANGED <<plan, at, tries, rows, probes, denied, posted, fails>>

\* post_transaction returns nothing unless it sees a 202; no answer in time is
\* an exception it catches.
PostReturns ==
  /\ step = "sent"
  /\ \/ reply[Head(left)] = "202" /\ UNCHANGED <<fails, calm>>
     \/ reply[Head(left)] = "failed" /\ Fails({"POST"}) /\ UNCHANGED calm
     \/ Fails({"POST"}) /\ calm' = FALSE
  /\ left' = Tail(left) /\ step' = "post"
  /\ UNCHANGED <<plan, at, tries, rows, probes, denied, posted>>

\* All posted: the check ends here when one was not accepted, and else sleeps.
Posted ==
  /\ step = "post" /\ left = <<>>
  /\ IF <<current, "POST">> \in fails THEN NextCheck ELSE step' = "wait" /\ UNCHANGED at
  /\ UNCHANGED <<plan, left, tries, rows, probes, fails, denied, calm, posted>>

Sleep ==
  /\ step = "wait"
  /\ step' = "fetch" /\ left' = CheckTxs[current] /\ tries' = Retries
  /\ calm' = (calm /\ AtRest)
  /\ UNCHANGED <<plan, at, rows, probes, fails, denied, posted>>

\* What dynamo_get_with_retry waits for; check_low_value reads only once.
Wanted(x) == CASE current = "high"  -> reason[x] = "fraud_detected"
               [] current = "fraud" -> "alert_id" \in attrs[x]
               [] OTHER       -> TRUE

\* Mutant: one retry too many.
dynamo_get_with_retry_OneTooMany ==
  /\ step = "fetch" /\ left # <<>>
  /\ LET x == Head(left) IN
     IF (HasRow(x) /\ Wanted(x)) \/ tries < 0 \/ current = "low"
       THEN /\ rows' = IF HasRow(x) THEN rows \cup {Row(x)} ELSE rows
            /\ left' = Tail(left) /\ tries' = Retries
       ELSE /\ tries' = tries - 1
            /\ UNCHANGED <<left, rows>>
  /\ UNCHANGED <<plan, at, step, probes, fails, denied, calm, posted>>

\* Mutant: the retries are not counted.
dynamo_get_with_retry_Forever ==
  /\ step = "fetch" /\ left # <<>>
  /\ LET x == Head(left) IN
     IF (HasRow(x) /\ Wanted(x)) \/ current = "low"
       THEN /\ rows' = IF HasRow(x) THEN rows \cup {Row(x)} ELSE rows
            /\ left' = Tail(left) /\ tries' = Retries
       ELSE UNCHANGED <<left, rows, tries>>
  /\ UNCHANGED <<plan, at, step, probes, fails, denied, calm, posted>>

dynamo_get_with_retry ==
  /\ step = "fetch" /\ left # <<>>
  /\ LET x == Head(left) IN
     IF (HasRow(x) /\ Wanted(x)) \/ tries = 0 \/ current = "low"
       THEN /\ rows' = IF HasRow(x) THEN rows \cup {Row(x)} ELSE rows
            /\ left' = Tail(left) /\ tries' = Retries
       ELSE /\ tries' = tries - 1
            /\ UNCHANGED <<left, rows>>
  /\ UNCHANGED <<plan, at, step, probes, fails, denied, calm, posted>>

\* A read raises: only some of them are in a try, and those catch no more than
\* ClientError.
Dies ==
  /\ \/ step = "fetch" /\ left # <<>>
     \/ step = "check" /\ at <= Len(plan) /\ current \notin Posting
     \/ step = "probe" /\ probes # <<>>
  /\ step' = "died"
  /\ UNCHANGED <<plan, at, left, tries, rows, probes, fails, denied, calm, posted>>

-----------------------------------------------------------------------------
(* What the rows say.                                                      *)

Having(id)  == {r \in rows : id \in r.ids}
Being(st)   == {r \in rows : r.status \in st}

check_low_value ==
  {w \in {"status", "priority"} :
     \/ w = "status" /\ Being({"pending"}) = {}
     \/ w = "priority"
        /\ \E r \in rows : Event(r.tx).priority \notin {"low", "medium"}}

check_high_value == IF Having("alert_id") = {} THEN {"fraud-processed"} ELSE {}

check_fraud_detection ==
  {w \in {"status", "flagged_reason", "alert_id"} :
     \/ w = "status" /\ Being({"flagged"}) = {}
     \/ w = "flagged_reason" /\ \A r \in rows : r.reason # "fraud_detected"
     \/ w = "alert_id" /\ Having("alert_id") = {}}

check_risk_limit ==
  {w \in {"rows", "breach", "allowed", "reason"} :
     \/ w = "rows" /\ Cardinality(rows) < Len(CheckTxs[current])
     \/ w = "breach" /\ Having("breach_id") = {}
     \/ w = "allowed" /\ Being({"pending", "flagged"}) = {}
     \/ w = "reason" /\ \E r \in Being({"blocked"}) : r.reason # "risk_limit_exceeded"}

Probe(kind, services) == [i \in 1..Len(services) |-> [kind |-> kind, of |-> services[i]]]

Filtered == <<"fraud", "risk", "compliance">>

low_value_probes == Probe("empty", Filtered)
                    \o Probe("log-or-empty", <<"analytics", "audit-logging">>)
                    \o Probe("no-log", Filtered)

high_value_probes == (IF Having("violation_id") = {} THEN Probe("log", <<"compliance">>)
                      ELSE <<>>)
                     \o Probe("log-or-empty", <<"risk", "analytics", "audit-logging">>)

\* A single transaction without a row ends its check.
Evaluate ==
  /\ step = "fetch" /\ left = <<>>
  /\ IF rows = {} /\ current # "risk"
       THEN Fails({"row"}) /\ NextCheck /\ UNCHANGED probes
       ELSE /\ Fails(CASE current = "low"   -> check_low_value
                       [] current = "high"  -> check_high_value
                       [] current = "fraud" -> check_fraud_detection
                       [] OTHER       -> check_risk_limit)
            /\ probes' = CASE current = "low"   -> low_value_probes
                           [] current = "high"  -> high_value_probes
                           [] current = "fraud" -> Probe("log", <<"alert">>)
                           [] OTHER       -> <<>>
            /\ step' = "probe" /\ UNCHANGED at
  /\ UNCHANGED <<plan, left, tries, rows, denied, calm, posted>>

-----------------------------------------------------------------------------
(* The probes.                                                             *)

probing == Head(probes)
probed  == Head(CheckTxs[current])

ProcessedTx == IF probing.kind = "no-log" THEN "not-received" ELSE "processed"

\* sqs_depth of a dead-letter queue: a message there fails, an error is a
\* warning where only the queue is probed, and a failure where it stands in
\* for the log.
sqs_depth ==
  \/ \E d \in DlqReadings(probing.of) :
       /\ Fails(IF d > 0 THEN {ProcessedTx} ELSE {})
       /\ UNCHANGED calm
  \/ /\ Fails(IF probing.kind = "empty" THEN {} ELSE {ProcessedTx})
     /\ calm' = FALSE

\* Mutant: a denied read is a log without the line.
cw_has_log_DeniedFails ==
  /\ Fails({ProcessedTx})
  /\ calm' = (calm /\ denied)

\* cw_has_log polls until it finds a line, is denied access or runs out of
\* time; lines may be indexed later than that.
cw_has_log ==
  \/ denied /\ UNCHANGED <<fails, calm>>
  \/ /\ ~denied /\ Logged(probed, probing.of)
     /\ Fails(IF probing.kind = "no-log" THEN {ProcessedTx} ELSE {})
     /\ UNCHANGED calm
  \/ /\ ~denied
     /\ CASE probing.kind = "log-or-empty" -> sqs_depth
          [] probing.kind = "no-log"       -> UNCHANGED <<fails, calm>>
          [] OTHER -> Fails({ProcessedTx}) /\ calm' = (calm /\ ~Logged(probed, probing.of))

RunProbe ==
  /\ step = "probe" /\ probes # <<>>
  /\ IF probing.kind = "empty" THEN sqs_depth ELSE cw_has_log
  /\ probes' = Tail(probes)
  /\ UNCHANGED <<plan, at, step, left, tries, rows, denied, posted>>

EndCheck ==
  /\ step = "probe" /\ probes = <<>>
  /\ NextCheck
  /\ UNCHANGED <<plan, left, tries, rows, probes, fails, denied, calm, posted>>

Exit ==
  /\ step = "check" /\ at > Len(plan)
  /\ step' = IF fails = {} THEN "exit0" ELSE "exit1"
  /\ UNCHANGED <<plan, at, left, tries, rows, probes, fails, denied, calm, posted>>

VerifyStep ==
  \/ Look \/ StartPosting \/ Post \/ PostReturns \/ Posted \/ Sleep
  \/ dynamo_get_with_retry \/ Dies \/ Evaluate \/ RunProbe \/ EndCheck \/ Exit

VerifyEnded == step \in {"exit0", "exit1", "died"}

-----------------------------------------------------------------------------
Ran(k) == \E i \in 1..Len(plan) : plan[i] = k
Has(k, id) == \E i \in 1..Len(CheckTxs[k]) : id \in attrs[CheckTxs[k][i]]

\* When nothing went wrong, every message was dealt with before the sleeps
\* were over and no log line came late, nothing is reported as failed.  The one
\* exception is the flagged_reason of the fraud check, which compliance writes
\* as well: $50,000 must be reported, so it depends on who wrote last.
NoFalseAlarm ==
  VerifyEnded /\ calm /\ hitches = 0 => fails \subseteq {<<"fraud", "flagged_reason">>}

\* Exit code 0 means what the checks say, however the deployment has moved
\* between the reads: each transaction was accepted and has its row, fraud has
\* written its id into the rows of its checks, compliance has seen the
\* high-value one and the alert service the alert (unless the logs may not be
\* read), the risk limit was enforced, and something was stored for audit.
ExitZeroIsTrue ==
  step = "exit0" =>
    /\ \A k \in Posting : Ran(k) =>
         \A i \in 1..Len(CheckTxs[k]) : HasRow(CheckTxs[k][i]) /\ reply[CheckTxs[k][i]] = "202"
    /\ \A k \in {"high", "fraud"} : Ran(k) => Has(k, "alert_id")
    /\ Ran("high") => \/ denied
                      \/ Has("high", "violation_id")
                      \/ <<CheckTxs["high"][1], "compliance">> \in judged
    /\ Ran("fraud") => \/ denied
                       \/ "dispatched" \in alerts[CheckTxs["fraud"][1]]
    /\ Ran("risk") => Has("risk", "breach_id")
    /\ Ran("audit") => objects # <<>>
=============================================================================
