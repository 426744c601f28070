------------------------------- MODULE Rules -------------------------------
(***************************************************************************)
(* The pure decisions of the services: which priority a transaction gets   *)
(* and to which services it is routed, which fraud patterns and compliance *)
(* rules it matches, how severe an event is and what the alert service     *)
(* takes it for.                                                           *)
(*                                                                         *)
(* Amounts are cents.  A transaction is a record with the fields user,     *)
(* amount, currency, merchant, type and priority.                          *)
(***************************************************************************)
EXTENDS Integers, FiniteSets

CONSTANTS BlockedUsers, BlockedMerchants  \* BLOCKED_USERS, BLOCKED_MERCHANTS

Priorities       == {"low", "medium", "high", "critical"}
TransactionTypes == {"purchase", "withdrawal", "transfer", "deposit"}
Currencies       == {"USD", "EUR", "GBP", "JPY", "CAD", "AUD", "CHF"}
Severities       == {"low", "medium", "high", "critical"}

\* TransactionRequest; an empty priority was left out.
Requests == [user : STRING, amount : Int, currency : STRING, merchant : STRING,
             type : STRING, priority : STRING]

Dollars(n) == 100 * n

-----------------------------------------------------------------------------
(* The transaction service and the SNS subscriptions.                      *)

derivePriority(amount) ==
  IF amount >= Dollars(50000) THEN "critical"
  ELSE IF amount >= Dollars(10000) THEN "high"
  ELSE IF amount >= Dollars(1000) THEN "medium"
  ELSE "low"

\* What ServeHTTP refuses with 400; an empty priority is derived.
ValidRequest(b) ==
  /\ b.user # "" /\ b.amount > 0 /\ b.currency # ""
  /\ b.type \in TransactionTypes
  /\ b.priority \in Priorities \cup {""}

PriorityOf(b) == IF b.priority = "" THEN derivePriority(b.amount) ELSE b.priority

FilteredServices   == {"fraud", "risk", "compliance"}
UnfilteredServices == {"analytics", "audit-logging"}

\* The filter policies of the subscriptions.
RoutedTo(priority) ==
  UnfilteredServices \cup IF priority \in {"high", "critical"} THEN FilteredServices ELSE {}

-----------------------------------------------------------------------------
(* The fraud service.                                                      *)

FraudPatterns == {"high_value_transaction", "round_number_transaction",
                  "large_withdrawal", "critical_priority_high_amount"}

\* Mutant: without the round-number pattern, $10,000 sharp is routed and clean.
detectPatterns_NoRound(tx) ==
  {p \in FraudPatterns :
     \/ p = "high_value_transaction" /\ tx.amount > Dollars(10000)
     \/ p = "large_withdrawal" /\ tx.type = "withdrawal" /\ tx.amount > Dollars(5000)
     \/ p = "critical_priority_high_amount" /\ tx.priority = "critical"
                                            /\ tx.amount > Dollars(5000)}

detectPatterns(tx) ==
  {p \in FraudPatterns :
     \/ p = "high_value_transaction" /\ tx.amount > Dollars(10000)
     \/ p = "round_number_transaction" /\ tx.amount >= Dollars(1000)
                                       /\ tx.amount % Dollars(1000) = 0
     \/ p = "large_withdrawal" /\ tx.type = "withdrawal" /\ tx.amount > Dollars(5000)
     \/ p = "critical_priority_high_amount" /\ tx.priority = "critical"
                                            /\ tx.amount > Dollars(5000)}

FraudSeverity(tx, patterns) ==
  IF tx.priority = "critical" \/ tx.amount > Dollars(50000) THEN "critical"
  ELSE IF tx.amount > Dollars(20000) \/ Cardinality(patterns) >= 3 THEN "high"
  ELSE IF tx.amount > Dollars(10000) \/ Cardinality(patterns) >= 2 THEN "medium"
  ELSE "low"

-----------------------------------------------------------------------------
(* The compliance service.                                                 *)

ComplianceRules == {"zero_or_negative_amount", "blocked_user", "blocked_merchant",
                    "unsupported_currency", "unsupported_transaction_type",
                    "ctr_reporting_required"}

checkRules(tx) ==
  {r \in ComplianceRules :
     \/ r = "zero_or_negative_amount" /\ tx.amount <= 0
     \/ r = "blocked_user" /\ tx.user \in BlockedUsers
     \/ r = "blocked_merchant" /\ tx.merchant \in BlockedMerchants
     \/ r = "unsupported_currency" /\ tx.currency \notin Currencies
     \/ r = "unsupported_transaction_type" /\ tx.type \notin TransactionTypes
     \/ r = "ctr_reporting_required" /\ tx.amount >= Dollars(10000)}

ViolationSeverity(rules) ==
  IF rules \cap {"blocked_user", "blocked_merchant"} # {} THEN "critical"
  ELSE IF "zero_or_negative_amount" \in rules THEN "high"
  ELSE IF rules \cap {"unsupported_currency", "ctr_reporting_required"} # {} THEN "medium"
  ELSE "low"

-----------------------------------------------------------------------------
(* The alert service.                                                      *)

\* RiskBreach carries no severity: it is read off the ratio to the limit.
severityFromBreach(current, limit) ==
  IF limit = 0 THEN "high"
  ELSE IF current >= 2 * limit THEN "critical"
  ELSE IF 2 * current >= 3 * limit THEN "high"
  ELSE "medium"

\* Mutant: breaches are probed for under another name.
detectEventType_NoBreach(id) ==
  IF id = "alert_id" THEN "fraud-alert"
  ELSE IF id = "violation_id" THEN "compliance-violation" ELSE "unknown"

\* An event is known by the id field of its JSON; a body that is not JSON,
\* as the text of a manual-review notification, has none.
detectEventType(id) ==
  CASE id = "alert_id"     -> "fraud-alert"
    [] id = "breach_id"    -> "risk-breach"
    [] id = "violation_id" -> "compliance-violation"
    [] OTHER               -> "unknown"
=============================================================================
