----------------------------- MODULE Reconcile -----------------------------
(***************************************************************************)
(* reconcile.py after the load of audit_test.py: the rows of the CSV file  *)
(* are looked up one by one, the audit objects counted, the dead-letter    *)
(* queues read one after another and the table scanned for duplicates,     *)
(* while the deployment may still be working.                              *)
(***************************************************************************)
EXTENDS Deployment, FiniteSetsExt

CONSTANTS
  AuditTxs,  \* the transactions of audit_test.py: AuditTxs[n] has sequence number n
  LoadUsers  \* the simulated users of the load

ASSUME ReconcileAssumption == AuditTxs \in Seq(Txs) /\ LoadUsers \in Nat \ {0}

VARIABLES
  stage,       \* the next step of the load or of the script, or how it ended
  inFlight,    \* sequence numbers that are claimed and have no line in the file yet
  unclaimed,   \* _next_seq, the first one that is not claimed
  csv,         \* the file: records of the transaction, its reply and whether the ids are there
  pending,     \* the numbers of the CSV rows, or queues, still to be looked up
  found,       \* rows found in DynamoDB
  missingRows, \* transactions reported as missing
  totalDlq,    \* messages counted in the dead-letter queues
  duplicates,  \* transaction ids that were found more than once
  misread,     \* ghost: a read failed, or an id is missing in the file
  settled      \* ghost: no service had anything left to do when the script was started

loadingVars   == <<inFlight, unclaimed>>
reconcileVars == <<stage, loadingVars, csv, pending, found, missingRows, totalDlq, duplicates,
                   misread, settled>>

\* Mutant: one queue is forgotten.
DLQS_Four == <<"fraud", "risk", "compliance", "audit-logging">>

DLQS == <<"fraud", "risk", "compliance", "analytics", "audit-logging">>

ReconcileTypeOK ==
  /\ stage \in {"submit", "quit", "rows", "s3", "dlqs", "scan", "report",
                "reconciled", "issues", "no rows", "died"}
  /\ unclaimed \in 1..Len(AuditTxs) + 1
  /\ inFlight \subseteq 1..unclaimed - 1 /\ Cardinality(inFlight) <= LoadUsers
  /\ \A i \in DOMAIN csv : csv[i] \in [tx : Txs, status : {"202", "failed"}, ids : BOOLEAN]
  /\ pending \subseteq Nat /\ found \in Nat /\ missingRows \subseteq Txs
  /\ totalDlq \in Nat /\ duplicates \subseteq Txs
  /\ misread \in BOOLEAN /\ settled \in BOOLEAN

ReconcileInit ==
  /\ stage = "submit" /\ inFlight = {} /\ unclaimed = 1 /\ csv = <<>> /\ pending = {}
  /\ found = 0 /\ missingRows = {} /\ totalDlq = 0 /\ duplicates = {}
  /\ misread = FALSE /\ settled = FALSE

-----------------------------------------------------------------------------
(* audit_test.py: the users claim one sequence number after another, send a *)
(* purchase of $100 for each and write a line about the reply.             *)

Idle == Cardinality(inFlight) < LoadUsers  \* one of the users is between two tasks

submit_audit_transaction ==
  /\ stage = "submit" /\ Idle /\ unclaimed <= Len(AuditTxs)
  /\ posted' = posted \cup {AuditTxs[unclaimed]}
  /\ inFlight' = inFlight \cup {unclaimed} /\ unclaimed' = unclaimed + 1
  /\ UNCHANGED <<stage, csv, pending, found, missingRows, totalDlq, duplicates, misread, settled>>

\* A 202 whose body cannot be parsed leaves the ids empty; a lost reply has
\* another status.
write_row(n) ==
  /\ stage = "submit" /\ n \in inFlight
  /\ LET x == AuditTxs[n] IN
     \E r \in {reply[x], "failed"} \ {"none"}, ids \in BOOLEAN :
       csv' = Append(csv, [tx |-> x, status |-> r, ids |-> ids /\ r = "202"])
  /\ inFlight' = inFlight \ {n}
  /\ UNCHANGED <<posted, stage, unclaimed, pending, found, missingRows, totalDlq, duplicates,
                 misread, settled>>

\* The first user who finds no number left stops them all: what the others have
\* sent gets no line.
quit ==
  /\ stage = "submit" /\ Idle /\ unclaimed > Len(AuditTxs)
  /\ stage' = "quit"
  /\ UNCHANGED <<posted, loadingVars, csv, pending, found, missingRows, totalDlq, duplicates,
                 misread, settled>>

-----------------------------------------------------------------------------
(* reconcile.py.                                                           *)

Accepted == {i \in DOMAIN csv : csv[i].status = "202"}

\* The exit code is 1 without a row to look up, and without a file.
read_csv ==
  /\ stage = "quit"
  /\ pending' = Accepted
  /\ stage' = IF Accepted = {} THEN "no rows" ELSE "rows"
  /\ settled' = \A x \in posted, s \in Services : q[x][s] # "queue"
  /\ UNCHANGED <<posted, loadingVars, csv, found, missingRows, totalDlq, duplicates, misread>>

\* A row without ids and a failed get_item count as missing.
check_dynamo ==
  /\ stage = "rows" /\ pending # {}
  /\ LET row == csv[Min(pending)] IN
     \E answered \in BOOLEAN :
       /\ IF row.ids /\ answered /\ HasRow(row.tx)
          THEN found' = found + 1 /\ UNCHANGED missingRows
          ELSE missingRows' = missingRows \cup {row.tx} /\ UNCHANGED found
       /\ misread' = (misread \/ ~answered \/ ~row.ids)
  /\ pending' = pending \ {Min(pending)}
  /\ UNCHANGED <<posted, loadingVars, stage, csv, totalDlq, duplicates, settled>>

RowsDone ==
  /\ stage = "rows" /\ pending = {}
  /\ stage' = "s3"
  /\ UNCHANGED <<posted, loadingVars, csv, pending, found, missingRows, totalDlq, duplicates, misread, settled>>

\* The count of the audit entries is only printed.
count_s3_audit_entries ==
  /\ stage = "s3"
  /\ stage' = "dlqs" /\ pending' = DOMAIN DLQS
  /\ UNCHANGED <<posted, loadingVars, csv, found, missingRows, totalDlq, duplicates, misread, settled>>

\* A queue that cannot be read counts as -1, and so as nothing.
check_dlqs ==
  /\ stage = "dlqs" /\ pending # {}
  /\ \E d \in DlqReadings(DLQS[Min(pending)]) \cup {-1} :
       /\ totalDlq' = IF d > 0 THEN totalDlq + d ELSE totalDlq
       /\ misread' = (misread \/ d = -1)
  /\ pending' = pending \ {Min(pending)}
  /\ UNCHANGED <<posted, loadingVars, stage, csv, found, missingRows, duplicates, settled>>

DlqsDone ==
  /\ stage = "dlqs" /\ pending = {}
  /\ stage' \in {"scan", "report"}
  /\ UNCHANGED <<posted, loadingVars, csv, pending, found, missingRows, totalDlq, duplicates, misread, settled>>

\* Two items share a transaction id only under different timestamps, and
\* ServeHTTP writes each id once.
Copies(x) == IF HasRow(x) THEN 1 ELSE 0

scan_duplicates ==
  /\ stage = "scan"
  /\ duplicates' = {x \in Txs : Copies(x) > 1}
  /\ stage' = "report"
  /\ UNCHANGED <<posted, loadingVars, csv, pending, found, missingRows, totalDlq, misread, settled>>

\* A read raises: the scan is in no try, and the others catch no more than
\* ClientError (reading an object catches everything).
ReadRaises ==
  /\ \/ stage \in {"rows", "dlqs"} /\ pending # {}
     \/ stage \in {"s3", "scan"}
  /\ stage' = "died"
  /\ UNCHANGED <<posted, loadingVars, csv, pending, found, missingRows, totalDlq, duplicates, misread, settled>>

\* The S3 count and the queues that could not be read are only printed.
print_report ==
  /\ stage = "report"
  /\ stage' = IF missingRows = {} /\ totalDlq = 0 /\ duplicates = {} THEN "reconciled" ELSE "issues"
  /\ UNCHANGED <<posted, loadingVars, csv, pending, found, missingRows, totalDlq, duplicates, misread, settled>>

ReconcileStep ==
  \/ submit_audit_transaction \/ (\E n \in inFlight : write_row(n)) \/ quit \/ read_csv \/ check_dynamo \/ RowsDone
  \/ count_s3_audit_entries \/ check_dlqs \/ DlqsDone \/ scan_duplicates \/ ReadRaises \/ print_report

ReconcileEnded == stage \in {"reconciled", "issues", "no rows", "died"}

-----------------------------------------------------------------------------
\* What the script may be relied on for.  "Fully reconciled" means that every
\* accepted transaction has its row and, if the services were through when the
\* script was started, every queue could be read and nobody takes messages out
\* of the dead-letter queues, that each service it was routed to has judged it
\* (and not that its record is in S3, which is never compared).  "Issues" come
\* from a failed read or a blank id, or something was dead-lettered.
ReconcileVerdictIsTrue ==
  /\ stage = "reconciled" =>
       \A i \in Accepted :
         LET x == csv[i].tx IN
         /\ HasRow(x)
         /\ settled /\ ~misread /\ ~reviewers => \A s \in Route(x) : <<x, s>> \in judged
  /\ stage = "issues" /\ ~misread => \E x \in Txs, s \in Services : q[x][s] = "dlq" \/ <<x, s>> \in reviewed
=============================================================================
