--------------------------- MODULE CascadeReport ---------------------------
(***************************************************************************)
(* cascade_report.py: one look at ECS, at six queue names, at the table    *)
(* and at the audit bucket, one after another, and what the report says.   *)
(* Rows and objects count only if they are not older than the look-back    *)
(* window, which opens at some time before the report.                     *)
(***************************************************************************)
EXTENDS Deployment

CONSTANT Experiments  \* bound: the transactions sent before the report

ASSUME CascadeAssumption == Experiments \subseteq Txs

VARIABLES
  window,       \* what has begun to count: nothing, rows, or rows and objects
  older,        \* transactions whose timestamp is before the window
  olderObjects, \* how many objects were last modified before it
  section,      \* the next section of the report
  degraded,     \* services whose running and desired counts differ
  unprocessed,  \* messages counted in the queues
  deadLetters,  \* messages counted in the dead-letter queues
  stored,       \* rows counted, -1 when the scan failed
  listed,       \* objects counted, -1 when the listing failed
  says,         \* the statements of the report
  quiet,        \* ghost: nothing was being worked on when it was started
  unaccounted   \* ghost: the rows counted; then those of them that no object held

windowVars  == <<window, older, olderObjects>>
cascadeVars == <<windowVars, section, degraded, unprocessed, deadLetters, stored, listed,
                 says, quiet, unaccounted>>

CascadeTypeOK ==
  /\ window \in {"closed", "rows", "open"} /\ older \subseteq Txs /\ olderObjects \in Nat
  /\ section \in {"start", "ecs", "queues", "dynamo", "s3", "discrepancy", "end"}
  /\ degraded \subseteq Tasks /\ unprocessed \in Nat /\ deadLetters \in Nat
  /\ stored \in Nat \cup {-1} /\ listed \in Nat \cup {-1}
  /\ says \subseteq {"not in S3", "more objects", "match", "dead letters",
                     "no dead letters", "cannot compute"}
  /\ quiet \in BOOLEAN /\ unaccounted \subseteq Txs

CascadeInit ==
  /\ window = "closed" /\ older = {} /\ olderObjects = 0
  /\ section = "start" /\ degraded = {} /\ unprocessed = 0 /\ deadLetters = 0
  /\ stored = 0 /\ listed = 0 /\ says = {} /\ quiet = FALSE
  /\ unaccounted = {}

\* The experiment before the report: transactions are sent.
Experiment(x) ==
  /\ section = "start" /\ x \in Experiments \ posted
  /\ posted' = posted \cup {x}
  /\ UNCHANGED cascadeVars

\* since, to the second, is reached: from now on the rows count.  A transaction
\* without a row may have its timestamp already.
RowsBegin ==
  /\ section = "start" /\ window = "closed"
  /\ window' = "rows"
  /\ \E late \in SUBSET {x \in posted : reply[x] = "none"} :
       older' = {x \in Txs : HasRow(x)} \cup late
  /\ UNCHANGED <<posted, olderObjects, section, degraded, unprocessed, deadLetters, stored,
                 listed, says, quiet, unaccounted>>

\* Objects count from the next whole second: S3 drops the fraction of LastModified,
\* and since keeps it here.
ObjectsBegin ==
  /\ section = "start" /\ window = "rows"
  /\ window' = "open" /\ olderObjects' = Len(objects)
  /\ UNCHANGED <<posted, older, section, degraded, unprocessed, deadLetters, stored,
                 listed, says, quiet, unaccounted>>

\* A service scaled to none is as desired, and so healthy.
check_ecs ==
  /\ section = "start" /\ window = "open"
  /\ degraded' = {t \in Tasks : tasks[t] = "lost"}
  /\ section' = "queues" /\ quiet' = AtRest
  /\ UNCHANGED <<posted, windowVars, unprocessed, deadLetters, stored, listed, says, unaccounted>>

\* Of the six names only the alert queue and its dead-letter queue exist; the
\* others are errors and left out of the totals.
check_queues ==
  /\ section = "queues"
  /\ unprocessed' \in {0, AlertsIn("queued")}
  /\ deadLetters' \in {0, AlertsIn("dlq")}
  /\ section' = "dynamo"
  /\ UNCHANGED <<posted, windowVars, degraded, stored, listed, says, quiet, unaccounted>>

InWindow == {x \in Txs : HasRow(x)} \ older

\* Nothing writes the fraud_flag that is counted besides.
count_dynamo ==
  /\ section = "dynamo"
  /\ stored' \in {Cardinality(InWindow), -1} /\ unaccounted' = InWindow
  /\ section' = "s3"
  /\ UNCHANGED <<posted, windowVars, degraded, unprocessed, deadLetters, listed, says, quiet>>

\* Mutant: all objects of the bucket are counted.
count_s3_WholeBucket ==
  /\ section = "s3"
  /\ listed' \in {Len(objects), -1}
  /\ unaccounted' = {x \in unaccounted : \A i \in DOMAIN objects : x \notin objects[i]}
  /\ section' = "discrepancy"
  /\ UNCHANGED <<posted, windowVars, degraded, unprocessed, deadLetters, stored, says, quiet>>

\* Objects are counted, not the records in them.
count_s3 ==
  /\ section = "s3"
  /\ listed' \in {Len(objects) - olderObjects, -1}
  /\ unaccounted' = {x \in unaccounted : \A i \in DOMAIN objects : x \notin objects[i]}
  /\ section' = "discrepancy"
  /\ UNCHANGED <<posted, windowVars, degraded, unprocessed, deadLetters, stored, says, quiet>>

Gap == IF stored > listed THEN "not in S3"
       ELSE IF stored < listed THEN "more objects" ELSE "match"

run_report ==
  /\ section = "discrepancy"
  /\ says' = IF stored >= 0 /\ listed >= 0
             THEN {Gap, IF deadLetters > 0 THEN "dead letters" ELSE "no dead letters"}
             ELSE {"cannot compute"}
  /\ section' = "end"
  /\ UNCHANGED <<posted, windowVars, degraded, unprocessed, deadLetters, stored, listed, quiet,
                 unaccounted>>

\* A read raises: describe_services is in no try, and the others catch no more
\* than ClientError.  There is no report then.
ReadFails ==
  /\ section \in {"start", "queues", "dynamo", "s3"} /\ window = "open"
  /\ section' = "end"
  /\ UNCHANGED <<posted, windowVars, degraded, unprocessed, deadLetters, stored, listed, says,
                 quiet, unaccounted>>

CascadeStep ==
  \/ \E x \in Experiments : Experiment(x)
  \/ RowsBegin \/ ObjectsBegin
  \/ check_ecs \/ check_queues \/ count_dynamo \/ count_s3 \/ run_report \/ ReadFails

CascadeEnded == section = "end"

-----------------------------------------------------------------------------
RecordsOf(x) == Cardinality({i \in DOMAIN objects : x \in objects[i]})

\* The objects that were counted.
Listed == {i \in DOMAIN objects : olderObjects < i /\ i <= olderObjects + listed}

\* A warning of the report has one of these reasons, and no other.
\*   Dead letters: they are there.
\*   More objects than rows, when everything was at rest: a record was stored
\* twice, or the record of a row from before the window is in an object of the
\* window; these are the two reasons the report gives.
\*   Rows "NOT yet in S3": a row that was counted was in no object when the bucket
\* was listed, as the report says; or records share an object, or a record is in
\* an object of the second in which the window opens, and then all of them may
\* be in S3.
\* (Its good news mean less: see the README.)
CascadeWarningsAreTrue ==
  /\ "dead letters" \in says => AlertsIn("dlq") > 0
  /\ "more objects" \in says /\ quiet =>
       \E x \in Txs : RecordsOf(x) > 1 \/ (x \in older /\ \E i \in Listed : x \in objects[i])
  /\ "not in S3" \in says =>
       \/ unaccounted # {}
       \/ \E i \in Listed : Cardinality(objects[i]) > 1
       \/ \E i \in 1..olderObjects : ~(objects[i] \subseteq older)
=============================================================================
