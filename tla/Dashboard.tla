----------------------------- MODULE Dashboard -----------------------------
(***************************************************************************)
(* The other endpoints of the dashboard backend (main.py; the upload is in *)
(* BatchUpload): the chaos requests and their log, which FastAPI runs on a *)
(* pool of threads without a lock, and a view, which is put together from  *)
(* several calls to AWS while the deployment moves.                        *)
(***************************************************************************)
EXTENDS Deployment, Functions

CONSTANTS
  Traffic,    \* bound: the transactions clients send while somebody looks
  Chaos,      \* chaos requests
  Op,         \* Op[r]: "kill", "restart" or "delay"
  MaxEvents,  \* entries the log is trimmed to
  Position,   \* Position[x]: where the row of x is in the table
  Stamp,      \* Stamp[x]: its timestamp
  PageSize,   \* bound: rows a call to scan reads
  Questions   \* what the explorer is asked for

ASSUME DashboardAssumption ==
  /\ Traffic \subseteq Txs
  /\ Op \in [Chaos -> {"kill", "restart", "delay"}]
  /\ MaxEvents \in Nat
  /\ Position \in Injection(Txs, Nat \ {0}) /\ Stamp \in [Txs -> Nat]
  /\ PageSize \in Nat \ {0} /\ \A question \in Questions : question.limit \in Nat

VARIABLES
  thread,   \* thread[r]: where request r is
  local,    \* local[r]: what it has read
  delays,   \* the delay of the one service that is delayed here
  events,   \* the log, newest first
  accepted, \* ghost: requests whose count ECS has taken, or that have set the delay
  view,     \* what is being looked at, and how far it is
  ask,      \* the question
  reached,  \* the position the scan has reached
  items,    \* the rows it has returned
  toRead,   \* queues still to be read, each with the sum it counts for
  depths,   \* the sums
  healthy,  \* the services shown as healthy
  before    \* ghost: the rows that were there when the question came

chaosVars == <<thread, local, delays, events, accepted>>
viewVars  == <<view, ask, reached, items, toRead, depths, healthy, before>>

Sums == {"high", "low", "alert"} \X {"queue", "dlq"}

NoAsk == [priority |-> "all", type |-> "all", limit |-> 0]

Phases == {"none", "explore", "metrics", "services",
           "metrics depths", "status depths", "explored", "measured", "seen", "500"}

DashboardTypeOK ==
  /\ thread \in [Chaos -> {"new", "read", "log", "assign", "trim", "cut", "ok", "500"}]
  /\ local \in [Chaos -> Seq(Chaos \cup {0, 3000})]
  /\ delays \in {0, 3000}
  /\ events \in Seq(Chaos) /\ accepted \subseteq Chaos
  /\ view \in Phases
  /\ ask \in Questions \cup {NoAsk}
  /\ reached \in Nat
  /\ \A i \in DOMAIN items : items[i].tx \in Txs
  /\ Len(toRead) <= 12 /\ depths \in [Sums -> Nat]
  /\ healthy \subseteq Tasks /\ before \subseteq Txs

DashboardInit ==
  /\ thread = [r \in Chaos |-> "new"] /\ local = [r \in Chaos |-> <<>>]
  /\ delays = 0 /\ events = <<>> /\ accepted = {}
  /\ view = "none" /\ ask = NoAsk /\ reached = 0 /\ items = <<>>
  /\ toRead = <<>> /\ depths = [n \in Sums |-> 0] /\ healthy = {} /\ before = {}

-----------------------------------------------------------------------------
(* The chaos requests.                                                     *)

FirstOf(seq, n) == SubSeq(seq, 1, IF n < Len(seq) THEN n ELSE Len(seq))

Goto(r, pc) == thread' = [thread EXCEPT ![r] = pc]
Holds(r, value) == local' = [local EXCEPT ![r] = value]

\* Mutant: the event is logged before the call is made.
UpdateService_LogsFirst(r) ==
  /\ Op[r] \in {"kill", "restart"} /\ thread[r] = "new"
  /\ Goto(r, "log")
  /\ UNCHANGED <<local, delays, events, accepted>>

\* kill_service and restart_service: ECS takes the new count, or the request
\* is answered with 500.  restart_service asks for the depth of a dead-letter
\* queue before: the number goes into the entry, and no dead letter is replayed.
UpdateService(r) ==
  /\ Op[r] \in {"kill", "restart"} /\ thread[r] = "new"
  /\ \/ accepted' = accepted \cup {r} /\ Goto(r, "log")
     \/ UNCHANGED accepted /\ Goto(r, "500")
  /\ UNCHANGED <<local, delays, events>>

\* toggle_delay reads the delay and then sets it; nothing ever applies it.
ReadDelay(r) ==
  /\ Op[r] = "delay" /\ thread[r] = "new"
  /\ Holds(r, <<delays>>) /\ Goto(r, "read")
  /\ UNCHANGED <<delays, events, accepted>>

SetDelay(r) ==
  /\ thread[r] = "read"
  /\ delays' = IF local[r] = <<0>> THEN 3000 ELSE 0
  /\ accepted' = accepted \cup {r}
  /\ Goto(r, "log")
  /\ UNCHANGED <<local, events>>

\* add_event: two statements, each of which reads the list and assigns a new
\* one.  A list assigned in between is lost with its entry.
Prepend(r) ==
  /\ thread[r] = "log"
  /\ Holds(r, <<r>> \o events) /\ Goto(r, "assign")
  /\ UNCHANGED <<delays, events, accepted>>

Assign(r) ==
  /\ thread[r] \in {"assign", "cut"}
  /\ events' = local[r]
  /\ Goto(r, IF thread[r] = "assign" THEN "trim" ELSE "ok")
  /\ UNCHANGED <<local, delays, accepted>>

Trim(r) ==
  /\ thread[r] = "trim"
  /\ Holds(r, FirstOf(events, MaxEvents)) /\ Goto(r, "cut")
  /\ UNCHANGED <<delays, events, accepted>>

-----------------------------------------------------------------------------
(* The views.  Each scan call returns one page of the table.               *)

Matches(x) == /\ ask.priority \in {"all", Event(x).priority}
              /\ ask.type \in {"all", Body[x].type}

Rows == {x \in Txs : HasRow(x)}

\* get_status, get_transactions and get_metrics begin.
Ask(v, question) ==
  /\ view = "none"
  /\ view' = v /\ ask' = question
  /\ before' = Rows
  /\ UNCHANGED <<reached, items, toRead, depths, healthy, posted>>

Beyond == {x \in Rows : Position[x] > reached}

\* The elements of S, each once and with ascending keys.
Ascending(S, key) ==
  CHOOSE f \in [1..Cardinality(S) -> S] :
    IsInjective(f) /\ \A i, j \in DOMAIN f : i < j => key[f[i]] <= key[f[j]]

Page == FirstOf(Ascending(Beyond, Position), PageSize)

\* What the explorer calls the status of a row.
DisplayStatus(x) == CASE status[x] = "flagged" -> "Fraud alert"
                      [] status[x] = "clean"   -> "Clean"
                      [] OTHER                 -> "Pending"

Item(x) == [tx |-> x, status |-> IF view = "explore" THEN DisplayStatus(x) ELSE status[x]]

Scanned == LET kept == Ascending({x \in Range(Page) : Matches(x)}, Position)
           IN  items \o [i \in 1..Len(kept) |-> Item(kept[i])]

\* The queues of the sums: HIGH_QUEUE_URLS, LOW_QUEUE_URLS and ALERT_QUEUE_URL, and
\* the same of the dead-letter queues.
QueuesOf(where) ==
  LET Of(n, s) == [sum |-> <<n, where>>, of |-> s]
  IN  <<Of("high", "fraud"), Of("high", "risk"), Of("high", "compliance"),
        Of("low", "analytics"), Of("low", "audit-logging"), Of("alert", "alert")>>

MetricQueues == QueuesOf("queue")
StatusQueues == QueuesOf("queue") \o QueuesOf("dlq")

\* Newest first, of those the scan has returned up to the limit: which need
\* not be the newest ones of the table.
Recent(found) ==
  LET kept == Range(FirstOf(found, ask.limit))
  IN  Ascending(kept, [i \in kept |-> -Stamp[i.tx]])

\* Mutant: the explorer takes the first page.
ScanPage_FirstOnly ==
  /\ view \in {"explore", "metrics"}
  /\ IF view = "explore"
     THEN items' = Recent(Scanned) /\ view' = "explored" /\ UNCHANGED toRead
     ELSE items' = Scanned /\ view' = "metrics depths" /\ toRead' = MetricQueues
  /\ UNCHANGED <<reached, ask, depths, healthy, before, posted>>

\* The explorer stops when it has enough, the metrics read the whole table.  The
\* page that ends the table may be followed by an empty one.
ScanPage ==
  /\ view \in {"explore", "metrics"}
  /\ \E last \in {b \in BOOLEAN : IF b THEN Len(Page) = Cardinality(Beyond) ELSE Page # <<>>} :
     CASE view = "explore" /\ (last \/ Len(Scanned) >= ask.limit) ->
            items' = Recent(Scanned) /\ view' = "explored" /\ UNCHANGED <<reached, toRead>>
       [] view = "metrics" /\ last ->
            items' = Scanned /\ view' = "metrics depths" /\ toRead' = MetricQueues /\ UNCHANGED reached
       [] OTHER ->
            /\ items' = Scanned /\ reached' = Position[Page[Len(Page)]]
            /\ UNCHANGED <<view, toRead>>
  /\ UNCHANGED <<ask, depths, healthy, before, posted>>

\* Any exception of a scan, or of describe_services.
ViewFails ==
  /\ view \in {"explore", "metrics", "services"}
  /\ view' = "500"
  /\ UNCHANGED <<ask, reached, items, toRead, depths, healthy, before, posted>>

\* A service is shown as healthy when a task of it runs.
DescribeServices ==
  /\ view = "services"
  /\ healthy' = {t \in Tasks : Running(t)}
  /\ view' = "status depths" /\ toRead' = StatusQueues
  /\ UNCHANGED <<ask, reached, items, depths, before, posted>>

\* get_dlq_depth, of any queue: one that cannot be read counts as empty.
Depth(s, where) ==
  IF s = "alert" THEN AlertsIn(IF where = "queue" THEN "queued" ELSE where)
  ELSE Cardinality({x \in Txs : s \in Services /\ q[x][s] = where})

\* A call of get_queue_depth_sum reads one queue after another.
AddDepth ==
  /\ view \in {"metrics depths", "status depths"} /\ toRead # <<>>
  /\ LET next == Head(toRead) IN
     \E d \in 0..Depth(next.of, next.sum[2]) : depths' = [depths EXCEPT ![next.sum] = @ + d]
  /\ toRead' = Tail(toRead)
  /\ UNCHANGED <<view, ask, reached, items, healthy, before, posted>>

\* The reply of get_status holds the log as it is by then.
Reply ==
  /\ view \in {"metrics depths", "status depths"} /\ toRead = <<>>
  /\ view' = IF view = "metrics depths" THEN "measured" ELSE "seen"
  /\ UNCHANGED <<ask, reached, items, toRead, depths, healthy, before, posted>>

\* Clients go on sending.
Arrives(x) ==
  /\ x \in Traffic \ posted
  /\ posted' = posted \cup {x}
  /\ UNCHANGED viewVars

ChaosStep(r) == UpdateService(r) \/ ReadDelay(r) \/ SetDelay(r) \/ Prepend(r) \/ Assign(r) \/ Trim(r)

ViewStep ==
  \/ \E question \in Questions : Ask("explore", question)
  \/ Ask("metrics", NoAsk) \/ Ask("services", NoAsk)
  \/ ScanPage \/ ViewFails \/ DescribeServices \/ AddDepth \/ Reply
  \/ \E x \in Traffic : Arrives(x)

ViewEnded == view \in {"explored", "measured", "seen", "500"}

-----------------------------------------------------------------------------
Shown(x) == \E i \in DOMAIN items : items[i].tx = x

\* Requests overwrite each other's list, which may lose entries.  Yet every entry
\* is of a request that ECS accepted or that has set the delay, none is there
\* twice, and when no request is being logged the log is within its bound.  (Not
\* that an entry's text is true: a restart's says how many dead letters were
\* replayed, and no request replays any.)
OnlyAcceptedAreLogged ==
  /\ Range(events) \subseteq accepted
  /\ IsInjective(events)
  /\ (\A r \in Chaos : thread[r] \in {"new", "read", "ok", "500"}) => Len(events) <= MaxEvents

\* Rows that are inserted while the pages are read displace none: unless more
\* rows match than the limit, the explorer shows every row that matched when it
\* was asked, once and newest first, and the total of the metrics lies between the number
\* of rows at the beginning and at the end.
ScansAreComplete ==
  /\ view = "explored" =>
       /\ Cardinality({x \in Rows : Matches(x)}) <= ask.limit =>
            \A x \in before : Matches(x) => Shown(x)
       /\ \A i, j \in DOMAIN items :
            i < j => items[i].tx # items[j].tx /\ Stamp[items[i].tx] >= Stamp[items[j].tx]
  /\ view = "measured" =>
       Len(items) \in Cardinality(before)..Cardinality(Rows)
=============================================================================
