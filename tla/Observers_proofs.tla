-------------------------- MODULE Observers_proofs --------------------------
(***************************************************************************)
(* Theorems about Observers, for any requests, transactions, plans and     *)
(* bounds on what goes wrong, however the deployment moves while a tool    *)
(* runs: the dashboard logs accepted requests only and its scans are       *)
(* complete, the load test's high-value task alone loads the filtered      *)
(* services and its stages reach their targets, and what verify_system.py, *)
(* reconcile.py and cascade_report.py say means what it should.  Where     *)
(* nothing goes wrong, verify_system.py raises no alarm.                   *)
(***************************************************************************)
EXTENDS Observers, SequenceTheorems, FiniteSetTheorems, NaturalsInduction, TLAPS

-----------------------------------------------------------------------------
(* The event log of the dashboard.                                         *)

\* A list that add_event may assign.
IsLog(seq) == seq \in Seq(Chaos) /\ IsInjective(seq) /\ Range(seq) \subseteq accepted

\* Requests that may not be in a list yet, and those that have one in hand.
Unlogged == {"new", "read", "log", "500"}
Holding  == {"assign", "cut"}

\* What lists in hand may do to the log: each is a log, knows nothing of requests
\* that have not come to add_event, and whoever has made the log too long is on the
\* way to cut it.
LogInv ==
  /\ thread \in [Chaos -> Unlogged \cup Holding \cup {"trim", "ok"}]
  /\ local \in [Chaos -> Seq(Chaos \cup {0, 3000})]
  /\ IsLog(events)
  /\ delays \in {0, 3000}
  /\ \A r \in Chaos :
       /\ thread[r] \notin {"new", "read", "500"} => r \in accepted
       /\ thread[r] \in Holding => IsLog(local[r])
       /\ thread[r] = "cut" => Len(local[r]) <= MaxEvents
       /\ thread[r] \in Unlogged =>
            /\ r \notin Range(events)
            /\ \A s \in Chaos : thread[s] \in Holding => r \notin Range(local[s])
  /\ Len(events) > MaxEvents => \E r \in Chaos : thread[r] \in {"trim", "cut"}

\* The list with an entry of its own in front is a log, if the entry was not in it.
LEMMA PrependIsLog ==
  ASSUME NEW seq \in Seq(Chaos), IsLog(seq), NEW r \in accepted, r \in Chaos, r \notin Range(seq)
  PROVE  /\ IsLog(<<r>> \o seq)
         /\ Range(<<r>> \o seq) = {r} \cup Range(seq)
<1> DEFINE new == <<r>> \o seq
<1>1. /\ new \in Seq(Chaos) /\ Len(new) = Len(seq) + 1 /\ DOMAIN new = 1..Len(seq) + 1
      /\ new[1] = r
      /\ \A i \in 1..Len(seq) : new[i + 1] = seq[i]
      /\ \A i \in 2..Len(seq) + 1 : i - 1 \in 1..Len(seq) /\ new[i] = seq[i - 1]
  OBVIOUS
<1>2. \A i \in 1..Len(seq) : seq[i] \in Range(seq)
  BY DEF Range
<1>3. IsInjective(new)
  <2> SUFFICES ASSUME NEW i \in 1..Len(seq) + 1, NEW j \in 1..Len(seq) + 1, new[i] = new[j]
               PROVE  i = j
    BY <1>1 DEF IsInjective
  <2> HIDE DEF new
  <2>1. CASE i = 1 \/ j = 1
    BY <2>1, <1>1, <1>2
  <2>2. CASE i # 1 /\ j # 1
    <3>1. /\ i - 1 \in 1..Len(seq) /\ j - 1 \in 1..Len(seq)
          /\ seq[i - 1] = seq[j - 1]
      BY <2>2, <1>1
    <3>2. i - 1 = j - 1
      BY <3>1 DEF IsLog, IsInjective
    <3> QED BY <3>2
  <2> QED BY <2>1, <2>2
<1>4. Range(new) = {r} \cup Range(seq)
  <2> HIDE DEF new
  <2>1. ASSUME NEW x \in Range(new) PROVE x \in {r} \cup Range(seq)
    <3>1. PICK i \in 1..Len(seq) + 1 : x = new[i]
      BY <1>1 DEF Range
    <3>2. CASE i = 1 BY <3>1, <3>2, <1>1
    <3>3. CASE i # 1
      <4>1. i - 1 \in 1..Len(seq) /\ new[i] = seq[i - 1]
        BY <3>3, <1>1
      <4> QED BY <4>1, <3>1, <1>2
    <3> QED BY <3>2, <3>3
  <2>2. ASSUME NEW x \in Range(seq) PROVE x \in Range(new)
    <3>1. PICK i \in 1..Len(seq) : x = seq[i]
      BY DEF Range
    <3>2. i + 1 \in DOMAIN new /\ new[i + 1] = x
      BY <3>1, <1>1
    <3> QED BY <3>2 DEF Range
  <2>3. r \in Range(new)
    <3>1. 1 \in DOMAIN new
      BY <1>1
    <3> QED BY <3>1, <1>1 DEF Range
  <2> QED BY <2>1, <2>2, <2>3
<1> QED BY <1>1, <1>3, <1>4 DEF IsLog

\* The list that is trimmed is a log, and not too long.
LEMMA FirstIsLog ==
  ASSUME NEW seq \in Seq(Chaos), IsLog(seq)
  PROVE  /\ IsLog(FirstOf(seq, MaxEvents))
         /\ Len(FirstOf(seq, MaxEvents)) <= MaxEvents
         /\ Range(FirstOf(seq, MaxEvents)) \subseteq Range(seq)
<1> DEFINE n   == IF MaxEvents < Len(seq) THEN MaxEvents ELSE Len(seq)
           new == SubSeq(seq, 1, n)
<1>1. n \in Nat /\ n <= Len(seq) /\ n <= MaxEvents
  BY DashboardAssumption
<1> HIDE DEF n
<1>2. /\ new \in Seq(Chaos) /\ Len(new) = n /\ DOMAIN new = 1..n
      /\ \A i \in 1..n : i \in DOMAIN seq /\ new[i] = seq[i]
  BY <1>1
<1>3. FirstOf(seq, MaxEvents) = new
  BY DEF FirstOf, n
<1> HIDE DEF new
<1>4. IsInjective(new)
  BY <1>2 DEF IsInjective, IsLog
<1>5. Range(new) \subseteq Range(seq)
  BY <1>2 DEF Range
<1> QED BY <1>1, <1>2, <1>3, <1>4, <1>5 DEF IsLog

\* No request has come and the log is empty at first.
LEMMA LogInit == Init => LogInv
<1> SUFFICES ASSUME Init PROVE LogInv
  OBVIOUS
<1>1. <<>> \in Seq(Chaos) /\ <<>> \in Seq(Chaos \cup {0, 3000}) /\ Len(<<>>) = 0
      /\ DOMAIN <<>> = {}
  OBVIOUS
<1>2. IsLog(<<>>) /\ Range(<<>>) = {}
  BY <1>1 DEF IsLog, IsInjective, Range
<1> QED BY <1>1, <1>2, DashboardAssumption
        DEF Init, DashboardInit, LogInv, Unlogged, Holding

\* A step of request r keeps the log when its next position, the list it has in
\* hand and the log itself are right: the other requests are as they were.
LEMMA LogFrame ==
  ASSUME LogInv, NEW r \in Chaos, accepted \subseteq accepted',
         NEW p \in Unlogged \cup Holding \cup {"trim", "ok"},
         NEW l \in Seq(Chaos \cup {0, 3000}),
         Goto(r, p), Holds(r, l), IsLog(events'), delays' \in {0, 3000},
         p \notin {"new", "read", "500"} => r \in accepted',
         p \in Holding => IsLog(l),
         p = "cut" => Len(l) <= MaxEvents,
         p \in Unlogged => thread[r] \in Unlogged,
         \A s \in Chaos : thread[s] \in Unlogged /\ thread'[s] \in Unlogged =>
           s \notin Range(events') /\ (p \in Holding => s \notin Range(l)),
         Len(events') > MaxEvents => \E s \in Chaos : thread'[s] \in {"trim", "cut"}
  PROVE  LogInv'
<1>1. /\ thread' \in [Chaos -> Unlogged \cup Holding \cup {"trim", "ok"}]
      /\ local' \in [Chaos -> Seq(Chaos \cup {0, 3000})]
      /\ thread'[r] = p /\ local'[r] = l
      /\ \A s \in Chaos \ {r} : thread'[s] = thread[s] /\ local'[s] = local[s]
  BY DEF LogInv, Goto, Holds
<1>2. \A seq : IsLog(seq) => IsLog(seq)'
  BY DEF IsLog
<1>3. events' \in Seq(Chaos) /\ IsInjective(events') /\ Range(events') \subseteq accepted'
  BY DEF IsLog
<1>4. ASSUME NEW s \in Chaos
      PROVE  /\ thread'[s] \notin {"new", "read", "500"} => s \in accepted'
             /\ thread'[s] = "cut" => Len(local'[s]) <= MaxEvents
  <2>1. CASE s = r BY <2>1, <1>1
  <2>2. CASE s # r
    BY <2>2, <1>1 DEF LogInv
  <2> QED BY <2>1, <2>2
<1>5. ASSUME NEW s \in Chaos, thread'[s] \in Holding
      PROVE  /\ local'[s] \in Seq(Chaos) /\ IsInjective(local'[s])
             /\ Range(local'[s]) \subseteq accepted'
  <2>1. CASE s = r
    <3>1. IsLog(l) /\ local'[s] = l
      BY <2>1, <1>1, <1>5
    <3> QED BY <3>1 DEF IsLog
  <2>2. CASE s # r
    <3>1. IsLog(local[s]) /\ local'[s] = local[s]
      BY <2>2, <1>1, <1>5 DEF LogInv
    <3> QED BY <3>1 DEF IsLog
  <2> QED BY <2>1, <2>2
<1>6. ASSUME NEW s \in Chaos, thread'[s] \in Unlogged
      PROVE  /\ s \notin Range(events')
             /\ \A u \in Chaos : thread'[u] \in Holding => s \notin Range(local'[u])
  <2>1. thread[s] \in Unlogged
    <3>1. CASE s = r BY <3>1, <1>1, <1>6
    <3>2. CASE s # r BY <3>2, <1>1, <1>6
    <3> QED BY <3>1, <3>2
  <2>2. s \notin Range(events')
    BY <1>6, <2>1
  <2>3. ASSUME NEW u \in Chaos, thread'[u] \in Holding PROVE s \notin Range(local'[u])
    <3>1. CASE u = r
      BY <3>1, <1>1, <1>6, <2>1, <2>3
    <3>2. CASE u # r
      <4>1. thread[u] \in Holding /\ local'[u] = local[u]
        BY <3>2, <1>1, <2>3
      <4> QED BY <4>1, <2>1 DEF LogInv
    <3> QED BY <3>1, <3>2
  <2> QED BY <2>2, <2>3
<1> QED BY <1>1, <1>3, <1>4, <1>5, <1>6 DEF LogInv, IsLog

\* Steps of request r that hand no list on.
LEMMA UpdateKeepsLog ==
  ASSUME LogInv, NEW r \in Chaos, UpdateService(r) \/ ReadDelay(r) \/ SetDelay(r)
  PROVE  LogInv'
<1>1. /\ accepted \subseteq accepted' /\ events' = events /\ thread[r] \in {"new", "read"}
      /\ delays' \in {0, 3000}
  BY DEF UpdateService, ReadDelay, SetDelay, LogInv
<1>2. \/ Goto(r, "read") \/ Goto(r, "500")
      \/ Goto(r, "log") /\ r \in accepted'
  BY DEF UpdateService, ReadDelay, SetDelay
<1>3. PICK p \in {"read", "log", "500"} : Goto(r, p) /\ (p = "log" => r \in accepted')
  BY <1>2
<1>4. /\ <<delays>> \in Seq(Chaos \cup {0, 3000}) /\ local[r] \in Seq(Chaos \cup {0, 3000})
      /\ Holds(r, local[r]) \/ Holds(r, <<delays>>)
  <2>1. <<delays>> \in Seq(Chaos \cup {0, 3000})
    BY DEF LogInv
  <2>2. local[r] \in Seq(Chaos \cup {0, 3000}) /\ (local' = local => Holds(r, local[r]))
    BY DEF LogInv, Holds
  <2>3. local' = local \/ Holds(r, <<delays>>)
    BY DEF UpdateService, ReadDelay, SetDelay
  <2> QED BY <2>1, <2>2, <2>3
<1>5. Len(events') > MaxEvents => \E s \in Chaos : thread'[s] \in {"trim", "cut"}
  BY <1>1, <1>3 DEF LogInv, Goto
<1>6. IsLog(events')
  BY <1>1 DEF LogInv
<1>7. \A s \in Chaos : thread[s] \in Unlogged => s \notin Range(events')
  BY <1>1 DEF LogInv
<1>8. /\ p \in Unlogged /\ p \notin Holding /\ thread[r] \in Unlogged /\ p # "cut"
      /\ p \notin {"new", "read", "500"} => r \in accepted'
  BY <1>1, <1>3 DEF Unlogged, Holding
<1>9. CASE Holds(r, local[r])
  BY <1>1, <1>3, <1>4, <1>5, <1>6, <1>7, <1>8, <1>9, LogFrame
<1>10. CASE Holds(r, <<delays>>)
  <2> DEFINE l == <<delays>>
  <2>1. l \in Seq(Chaos \cup {0, 3000}) /\ Holds(r, l)
    BY <1>4, <1>10
  <2> HIDE DEF l
  <2> QED BY <1>1, <1>3, <1>5, <1>6, <1>7, <1>8, <2>1, LogFrame
<1> QED BY <1>4, <1>9, <1>10

\* add_event of request r: what it takes in hand, and what it assigns.
LEMMA AddEventKeepsLog ==
  ASSUME LogInv, NEW r \in Chaos, Prepend(r) \/ Assign(r) \/ Trim(r)
  PROVE  LogInv'
<1>0. /\ accepted' = accepted /\ r \in accepted /\ delays' \in {0, 3000}
      /\ events \in Seq(Chaos) /\ IsLog(events)
      /\ \A s \in Chaos : thread[s] \in Unlogged => s \notin Range(events)
  BY DEF Prepend, Assign, Trim, LogInv, IsLog
<1>s. \A seq \in Seq(Chaos) : seq \in Seq(Chaos \cup {0, 3000})
  OBVIOUS
<1>1. CASE Prepend(r)
  <2>1. /\ thread[r] = "log" /\ events' = events
        /\ Goto(r, "assign") /\ Holds(r, <<r>> \o events)
    BY <1>1 DEF Prepend
  <2> DEFINE new == <<r>> \o events
  <2>2. IsLog(new) /\ Range(new) = {r} \cup Range(events)
    BY <1>0, <2>1, PrependIsLog DEF Unlogged
  <2>3. new \in Seq(Chaos \cup {0, 3000}) /\ Holds(r, new)
    BY <2>1, <2>2, <1>0, <1>s DEF IsLog
  <2> HIDE DEF new
  <2>4. \A s \in Chaos : thread[s] \in Unlogged /\ thread'[s] \in Unlogged =>
          s \notin Range(events') /\ s \notin Range(new)
    <3>1. thread'[r] = "assign"
      BY <2>1 DEF LogInv, Goto
    <3> QED BY <3>1, <1>0, <2>1, <2>2 DEF Unlogged
  <2>5. Len(events') > MaxEvents => \E s \in Chaos : thread'[s] \in {"trim", "cut"}
    BY <2>1 DEF LogInv, Goto
  <2>6. "assign" \in Holding /\ "assign" \notin Unlogged
    BY DEF Holding, Unlogged
  <2> QED BY <1>0, <2>1, <2>2, <2>3, <2>4, <2>5, <2>6, LogFrame
<1>2. CASE Assign(r)
  <2> DEFINE p == IF thread[r] = "assign" THEN "trim" ELSE "ok"
  <2>1. /\ thread[r] \in Holding /\ events' = local[r]
        /\ Goto(r, p) /\ thread'[r] = p /\ Holds(r, local[r])
        /\ local[r] \in Seq(Chaos \cup {0, 3000})
    BY <1>2 DEF Assign, Holding, LogInv, Goto, Holds
  <2>2. /\ IsLog(events')
        /\ thread[r] = "cut" => Len(local[r]) <= MaxEvents
        /\ \A s \in Chaos : thread[s] \in Unlogged => s \notin Range(events')
    BY <2>1 DEF LogInv
  <2>3. p \in {"trim", "ok"} /\ p \notin Unlogged /\ p \notin Holding
    BY DEF Unlogged, Holding
  <2>4. ASSUME Len(events') > MaxEvents PROVE thread'[r] = "trim"
    <3>1. Len(events') \in Nat
      BY <2>2 DEF IsLog
    <3>2. thread[r] # "cut"
      BY <3>1, <2>1, <2>2, <2>4, DashboardAssumption
    <3> QED BY <3>2, <2>1 DEF Holding
  <2> HIDE DEF p
  <2> QED BY <1>0, <2>1, <2>2, <2>3, <2>4, LogFrame
<1>3. CASE Trim(r)
  <2> DEFINE first == FirstOf(events, MaxEvents)
  <2>1. /\ thread[r] = "trim" /\ events' = events
        /\ Goto(r, "cut") /\ thread'[r] = "cut" /\ Holds(r, first)
    BY <1>3 DEF Trim, LogInv, Goto
  <2>2. IsLog(first) /\ Len(first) <= MaxEvents /\ Range(first) \subseteq Range(events)
    BY <1>0, FirstIsLog
  <2> HIDE DEF first
  <2>3. first \in Seq(Chaos \cup {0, 3000})
    BY <2>2, <1>0, <1>s DEF IsLog
  <2>4. "cut" \in Holding /\ "cut" \notin Unlogged
    BY DEF Holding, Unlogged
  <2> QED BY <1>0, <2>1, <2>2, <2>3, <2>4, LogFrame
<1> QED BY <1>1, <1>2, <1>3

\* Every step of a request, and every other one, keeps the log and the lists in hand.
LEMMA LogStep == LogInv /\ [Next]_vars => LogInv'
<1> SUFFICES ASSUME LogInv, [Next]_vars PROVE LogInv'
  OBVIOUS
<1>1. CASE UNCHANGED chaosVars
  BY <1>1 DEF chaosVars, LogInv, IsLog
<1>2. CASE Injects
  BY <1>2, UpdateKeepsLog, AddEventKeepsLog DEF Injects, ChaosStep
<1> QED BY <1>1, <1>2 DEF Next, vars, Moves, Verifies, Reconciles, Reports, Loads, Views, others

\* The event log has an entry of a request only after ECS has accepted the call of that
\* request, or it has set the delay (main.py), and no entry twice, and is cut to its bound by the
\* time nobody writes it, for any number of requests that overwrite each other's lists
\* (add_event).  What an entry claims beyond that call is not part of it.
THEOREM LogIsOfAccepted == Spec => []OnlyAcceptedAreLogged
<1>1. LogInv => OnlyAcceptedAreLogged
  <2> SUFFICES ASSUME LogInv PROVE OnlyAcceptedAreLogged
    OBVIOUS
  <2>1. Len(events) \in Nat
    BY DEF LogInv, IsLog
  <2>2. (\A r \in Chaos : thread[r] \in {"new", "read", "ok", "500"}) => Len(events) <= MaxEvents
    <3>1. MaxEvents \in Nat
      BY DashboardAssumption, Zenon
    <3> QED BY <2>1, <3>1 DEF LogInv
  <2> QED BY <2>2 DEF LogInv, IsLog, OnlyAcceptedAreLogged
<1> QED BY <1>1, LogInit, LogStep, PTL DEF Spec

-----------------------------------------------------------------------------
(* The load test.                                                          *)

\* What was posted last was drawn by one of the tasks.
PostInv ==
  lastPost = NoPost \/ \E task \in {"low", "medium", "high"}, type \in TransactionTypes :
                         \E amount \in AmountOf[task] :
                           lastPost = [task |-> task, body |-> Payload(amount, type)]

\* The three ranges, against the priority that is derived.
LEMMA AmountsApart ==
  ASSUME NEW task \in {"low", "medium", "high"}, NEW amount \in AmountOf[task]
  PROVE  derivePriority(amount) \in IF task = "high" THEN {"high", "critical"} ELSE {"low", "medium"}
<1>0. /\ Dollars(10) = 1000 /\ Dollars(1000) = 100000 /\ Dollars(10000) = 1000000
      /\ Dollars(50000) = 5000000 /\ Dollars(100000) = 10000000
  BY SMT DEF Dollars
<1>1. CASE task = "high"
  <2>1. AmountOf["high"] = Dollars(10000)..Dollars(100000)
    BY SMT DEF AmountOf
  <2>2. amount \in Dollars(10000)..Dollars(100000)
    BY <1>1, <2>1, SMT
  <2> QED BY <1>0, <1>1, <2>2, SMT DEF derivePriority
<1>2. CASE task = "medium"
  <2>1. AmountOf["medium"] = Dollars(1000)..Dollars(10000) - 1
    BY SMT DEF AmountOf
  <2>2. amount \in Dollars(1000)..Dollars(10000) - 1
    BY <1>2, <2>1, SMT
  <2> QED BY <1>0, <1>2, <2>2, SMT DEF derivePriority
<1>3. CASE task = "low"
  <2>1. AmountOf["low"] = Dollars(10)..Dollars(1000) - 1
    BY SMT DEF AmountOf
  <2>2. amount \in Dollars(10)..Dollars(1000) - 1
    BY <1>3, <2>1, SMT
  <2> QED BY <1>0, <1>3, <2>2, SMT DEF derivePriority
<1> QED BY <1>1, <1>2, <1>3, Zenon

\* Nothing has been posted when the load test begins.
LEMMA PostInit == Init => PostInv
BY DEF Init, LoadInit, PostInv

\* A post is one of the tasks, with an amount of its range.
LEMMA PostStep == ASSUME PostInv, [Next]_vars PROVE PostInv'
<1>1. lastPost' = lastPost \/ tick \/ _post_transaction
  BY DEF Next, vars, Moves, Verifies, Reconciles, Reports, Loads, Views, Injects, others,
         loadVars, LoadStep
<1>2. CASE lastPost' = lastPost
  BY <1>2 DEF PostInv
<1>3. CASE tick
  BY <1>3 DEF PostInv, tick
<1>4. CASE _post_transaction
  <2>1. PICK task \in DOMAIN AmountOf, type \in TransactionTypes :
          \E amount \in Amounts \cap AmountOf[task] :
            lastPost' = [task |-> task, body |-> Payload(amount, type)]
    BY <1>4 DEF _post_transaction
  <2>2. task \in {"low", "medium", "high"}
    BY DEF AmountOf
  <2> QED BY <2>1, <2>2 DEF PostInv
<1> QED BY <1>1, <1>2, <1>3, <1>4

\* The amounts of the low-value and the medium task stay below $10,000, those of
\* the high-value task do not (locustfile.py), and derivePriority of the
\* transaction service sends only the latter to the filtered services.
THEOREM HighValueLoadsTheFiltered == Spec => []OnlyHighValueIsFiltered
<1>1. PostInv => OnlyHighValueIsFiltered
  <2> SUFFICES ASSUME NEW task \in {"low", "medium", "high"}, NEW type \in TransactionTypes,
                      NEW amount \in AmountOf[task],
                      lastPost = [task |-> task, body |-> Payload(amount, type)]
               PROVE  (task = "high") =
                      (FilteredServices \subseteq RoutedTo(PriorityOf(Payload(amount, type))))
    BY DEF PostInv, OnlyHighValueIsFiltered
  <2>1. PriorityOf(Payload(amount, type)) = derivePriority(amount)
    BY Zenon DEF PriorityOf, Payload
  <2>2. derivePriority(amount) \in IF task = "high" THEN {"high", "critical"} ELSE {"low", "medium"}
    BY AmountsApart, Zenon
  <2>3. FilteredServices \subseteq RoutedTo(derivePriority(amount)) <=>
        derivePriority(amount) \in {"high", "critical"}
    BY DEF FilteredServices, UnfilteredServices, RoutedTo
  <2> QED BY <2>1, <2>2, <2>3
<1> QED BY <1>1, PostInit, PostStep, PTL DEF Spec

-----------------------------------------------------------------------------
(* The deployment.                                                         *)

\* How the parts of the deployment hang together.  Only what was sent is told of
\* anywhere; an accepted transaction has its row, and every service on its route
\* has been sent its message; a message is gone only when its service has judged
\* it or a reviewer has flagged it; records are buffered and stored of rows only.
FlowInv ==
  /\ \A x \in Txs :
       /\ reply[x] # "none" \/ HasRow(x) \/ "queued" \in alerts[x] => x \in posted
       /\ reply[x] = "202" => HasRow(x) /\ \A s \in Route(x) : q[x][s] # "none"
       /\ \A s \in Services :
            /\ q[x][s] # "none" => reply[x] # "none" /\ HasRow(x)
            /\ q[x][s] = "deleted" => <<x, s>> \in judged \cup reviewed
            /\ <<x, s>> \in reviewed => reviewers /\ q[x][s] \in {"dlq", "deleted"}
  /\ \A x \in buffer : HasRow(x)
  /\ \A i \in DOMAIN objects : objects[i] # {} /\ \A x \in objects[i] : HasRow(x)

\* The type of the deployment and FlowInv hold at the start.
LEMMA DeploymentStart == Init => DeploymentTypeOK /\ FlowInv
<1> SUFFICES ASSUME Init PROVE DeploymentTypeOK /\ FlowInv
  OBVIOUS
<1>1. subscribed \subseteq Services /\ reviewers \in BOOLEAN
  <2>1. PICK p \in Plans : IF tool = "verify" THEN subscribed = p.services
                           ELSE subscribed \in Watched[tool]
    BY DEF Init
  <2> QED BY <2>1, VerifyAssumption, ObserversAssumption DEF Init
<1>2. <<>> \in Seq(SUBSET Txs) /\ DOMAIN <<>> = {}
  OBVIOUS
<1>3. /\ reply = [x \in Txs |-> "none"] /\ status = [x \in Txs |-> "none"]
      /\ q = [x \in Txs |-> [s \in Services |-> "none"]]
      /\ judged = {} /\ reviewed = {} /\ posted = {} /\ buffer = {} /\ objects = <<>>
      /\ attrs = [x \in Txs |-> {}] /\ reason = [x \in Txs |-> "none"]
      /\ spent = [u \in Users |-> 0] /\ alerts = [x \in Txs |-> {}]
      /\ tasks = [t \in Tasks |-> "running"] /\ hitches = 0
  BY DEF Init, DeploymentInit, FlowInit
<1>4. DeploymentTypeOK
  BY <1>1, <1>2, <1>3, DeploymentAssumption DEF DeploymentTypeOK
<1>5. FlowInv
  BY <1>2, <1>3 DEF FlowInv, HasRow, Route
<1> QED BY <1>4, <1>5

\* What a step of the deployment may never take back, and the only ways a message
\* takes once the reply is out.
Onward ==
  /\ posted \subseteq posted' /\ judged \subseteq judged' /\ reviewed \subseteq reviewed'
  /\ objects # <<>> => objects' # <<>>
  /\ UNCHANGED choices
  /\ \A x \in Txs :
       /\ reply[x] # "none" => reply'[x] = reply[x]
       /\ HasRow(x) => HasRow(x)'
       /\ attrs[x] \subseteq attrs'[x]
       /\ alerts[x] \ {"queued"} \subseteq alerts'[x]
       /\ reply[x] # "none" => \A s \in Services :
            \/ q'[x][s] = q[x][s]
            \/ q[x][s] = "queue" /\ q'[x][s] \in {"dlq", "deleted"}
            \/ q[x][s] = "dlq" /\ q'[x][s] = "deleted" /\ <<x, s>> \in reviewed

\* The amounts of the requests are natural numbers of cents.
LEMMA AmountsAreNatural == ASSUME NEW x \in Txs PROVE Body[x].amount \in Nat
<1>1. Body[x] \in Requests /\ Body[x].amount > 0
  BY DeploymentAssumption, Zenon DEF ValidRequest
<1>2. Body[x].amount \in Int
  BY <1>1, Zenon DEF Requests
<1> QED BY <1>1, <1>2, SMT

\* Serving, refusing and writing.
LEMMA ServeGoesOn ==
  ASSUME DeploymentTypeOK, FlowInv, NEW x \in Txs, Serve(x)
  PROVE  DeploymentTypeOK' /\ FlowInv' /\ Onward
<1> USE DEF DeploymentTypeOK, choices, rowVars, auditVars, flowVars
<1>1. /\ x \in posted /\ reply[x] = "none"
      /\ UNCHANGED <<posted, subscribed, reviewers, attrs, reason, spent, alerts, buffer, objects,
                     tasks, judged, reviewed>>
      /\ hitches' \in 0..MaxHitches
  BY DeploymentAssumption DEF Serve, Write, Accept, Refuse, Replies, Calm, Hitch
<1>2. \/ /\ Delivers(x, Route(x)) /\ status[x] # "none" /\ UNCHANGED status
         /\ \E r \in {"202", "failed"} : reply' = [reply EXCEPT ![x] = r]
      \/ /\ UNCHANGED q
         /\ reply' = reply \/ reply' = [reply EXCEPT ![x] = "failed"]
         /\ status' = status \/ (status[x] = "none" /\ status' = [status EXCEPT ![x] = "pending"])
  BY DEF Serve, Write, Accept, Refuse, Replies
<1>3. /\ status' \in [Txs -> {"none", "pending", "clean", "flagged", "blocked", "pending_manual_review"}]
      /\ \A y \in Txs : /\ y # x => status'[y] = status[y] /\ reply'[y] = reply[y] /\ q'[y] = q[y]
                        /\ status[y] # "none" => status'[y] # "none"
      /\ reply' \in [Txs -> {"none", "202", "failed"}]
      /\ q' \in [Txs -> [Services -> {"none", "queue", "dlq", "deleted"}]]
      /\ reply'[x] = "202" => status'[x] # "none" /\ \A s \in Route(x) : q'[x][s] # "none"
      /\ \A s \in Services : q'[x][s] \in {"none", "queue"} /\
           (q'[x][s] # "none" => reply'[x] # "none" /\ status'[x] # "none")
      /\ \A s \in Services : <<x, s>> \notin reviewed
  <2>1. \A s \in Services : q[x][s] = "none" /\ <<x, s>> \notin reviewed
    BY <1>1 DEF FlowInv
  <2>2. Route(x) \subseteq Services
    BY <1>1 DEF Route
  <2>3. /\ status' \in [Txs -> {"none", "pending", "clean", "flagged", "blocked", "pending_manual_review"}]
        /\ \A y \in Txs : /\ y # x => status'[y] = status[y] /\ reply'[y] = reply[y]
                          /\ status[y] # "none" => status'[y] # "none"
        /\ reply' \in [Txs -> {"none", "202", "failed"}]
    BY <1>2
  <2>4. CASE /\ Delivers(x, Route(x)) /\ status[x] # "none" /\ UNCHANGED status
             /\ \E r \in {"202", "failed"} : reply' = [reply EXCEPT ![x] = r]
    <3>1. q' \in [Txs -> [Services -> {"none", "queue", "dlq", "deleted"}]]
          /\ q'[x] = [s \in Services |-> IF s \in Route(x) THEN "queue" ELSE "none"]
          /\ \A y \in Txs : y # x => q'[y] = q[y]
      BY <2>4 DEF Delivers
    <3>2. \A s \in Services : q'[x][s] = IF s \in Route(x) THEN "queue" ELSE "none"
      BY <3>1
    <3>3. reply'[x] # "none" /\ status'[x] # "none"
      BY <2>4
    <3> HIDE DEF DeploymentTypeOK
    <3> QED BY <2>1, <2>2, <2>3, <3>1, <3>2, <3>3
  <2>5. CASE /\ UNCHANGED q
             /\ reply' = reply \/ reply' = [reply EXCEPT ![x] = "failed"]
    <3>1. reply'[x] # "202"
      BY <1>1, <2>5
    <3> QED BY <2>1, <2>3, <2>5, <3>1
  <2> QED BY <1>2, <2>4, <2>5
<1>4. DeploymentTypeOK'
  BY <1>1, <1>3, DeploymentAssumption DEF Users
<1>5. FlowInv'
  <2>1. \A y \in Txs : Route(y)' = Route(y)
    BY <1>1 DEF Route, Event
  <2>2. ASSUME NEW y \in Txs
        PROVE  /\ reply'[y] # "none" \/ status'[y] # "none" \/ "queued" \in alerts'[y] => y \in posted'
               /\ reply'[y] = "202" => status'[y] # "none" /\ \A s \in Route(y) : q'[y][s] # "none"
               /\ \A s \in Services :
                    /\ q'[y][s] # "none" => reply'[y] # "none" /\ status'[y] # "none"
                    /\ q'[y][s] = "deleted" => <<y, s>> \in judged' \cup reviewed'
                    /\ <<y, s>> \in reviewed' => reviewers' /\ q'[y][s] \in {"dlq", "deleted"}
    <3>1. CASE y = x BY <1>1, <1>3, <3>1
    <3>2. CASE y # x
      <4>1. reply'[y] = reply[y] /\ status'[y] = status[y] /\ q'[y] = q[y]
        BY <1>3, <3>2
      <4> QED BY <1>1, <4>1 DEF FlowInv, HasRow
    <3> QED BY <3>1, <3>2
  <2>3. /\ \A y \in buffer' : status'[y] # "none"
        /\ \A i \in DOMAIN objects' : objects'[i] # {} /\ \A y \in objects'[i] : status'[y] # "none"
    <3>1. \A i \in DOMAIN objects : objects[i] \subseteq Txs
      OBVIOUS
    <3> QED BY <1>1, <1>3, <3>1 DEF FlowInv, HasRow
  <2> QED BY <2>1, <2>2, <2>3 DEF FlowInv, HasRow
<1>6. Onward
  BY <1>1, <1>3 DEF Onward, HasRow
<1> QED BY <1>4, <1>5, <1>6

\* An attempt of a service.
LEMMA AttemptGoesOn ==
  ASSUME DeploymentTypeOK, FlowInv, NEW x \in Txs, NEW s \in subscribed,
         NEW wrote \in BOOLEAN, NEW done \in BOOLEAN, Attempt(x, s, wrote, done)
  PROVE  DeploymentTypeOK' /\ FlowInv' /\ Onward
<1> USE DEF DeploymentTypeOK, choices, rowVars, auditVars, flowVars
<1> DEFINE f == Finding(x, s)
<1>0. s \in Services /\ q[x][s] = "queue" /\ status[x] # "none" /\ x \in posted
  BY DEF Attempt, Handle, FlowInv, HasRow
<1>1. f.ids \in SUBSET Ids /\ f.reason \in {"none", "fraud_detected", "compliance_violation",
                                            "risk_limit_exceeded"}
  BY DEF Finding, Mark, Ids
<1>2. PICK mark \in Marks(s) \cup {status[x]} :
        /\ status' = [status EXCEPT ![x] = mark]
        /\ judged \subseteq judged' /\ judged' \subseteq judged \cup {<<x, s>>}
        /\ UNCHANGED <<reply, q, reviewed>>
  BY DEF Attempt, Handle
<1>3. mark \in {"pending", "clean", "flagged", "blocked", "pending_manual_review"}
  BY <1>0, <1>2 DEF Marks
<1>4. /\ attrs' = IF wrote THEN [attrs EXCEPT ![x] = @ \cup f.ids] ELSE attrs
      /\ reason' = IF wrote THEN [reason EXCEPT ![x] = f.reason] ELSE reason
      /\ alerts' = alerts \/ alerts' = [alerts EXCEPT ![x] = @ \cup {"queued"}]
      /\ spent' = spent \/ spent' = [spent EXCEPT ![Body[x].user] = @ + Body[x].amount]
      /\ buffer' = buffer \/ buffer' = buffer \cup {x}
      /\ hitches' \in 0..MaxHitches
      /\ UNCHANGED <<posted, subscribed, reviewers, objects, tasks>>
  BY DeploymentAssumption DEF Attempt, Calm, Hitch
<1> HIDE DEF f
<1>5. attrs' \in [Txs -> SUBSET Ids] /\ \A y \in Txs : attrs[y] \subseteq attrs'[y]
  BY <1>1, <1>4
<1>6. /\ alerts' \in [Txs -> SUBSET {"queued", "dispatched", "dlq"}]
      /\ \A y \in Txs : alerts[y] \subseteq alerts'[y] /\ (y # x => alerts'[y] = alerts[y])
  BY <1>4
<1>7. spent' \in [Users -> Nat]
  <2>1. Body[x].user \in Users /\ Body[x].amount \in Nat
    BY AmountsAreNatural DEF Users
  <2>2. PICK u \in Users, n \in Nat : spent' = spent \/ spent' = [spent EXCEPT ![u] = @ + n]
    BY <1>4, <2>1
  <2> QED BY <2>2
<1>8. /\ status' \in [Txs -> {"none", "pending", "clean", "flagged", "blocked", "pending_manual_review"}]
      /\ status'[x] # "none" /\ \A y \in Txs : y # x => status'[y] = status[y]
  BY <1>2, <1>3
<1>9. DeploymentTypeOK'
  <2>1. Users' = Users
    BY DEF Users
  <2>2. reason' \in [Txs -> {"none", "fraud_detected", "compliance_violation", "risk_limit_exceeded"}]
    BY <1>1, <1>4
  <2>3. judged' \subseteq Txs \X Services
    BY <1>0, <1>2
  <2> QED BY <1>2, <1>4, <1>5, <1>6, <1>7, <1>8, <2>1, <2>2, <2>3
<1>10. FlowInv'
  <2>1. \A y \in Txs : Route(y)' = Route(y)
    BY <1>4 DEF Route, Event
  <2>2. ASSUME NEW y \in Txs
        PROVE  /\ reply'[y] # "none" \/ status'[y] # "none" \/ "queued" \in alerts'[y] => y \in posted'
               /\ reply'[y] = "202" => status'[y] # "none" /\ \A t \in Route(y) : q'[y][t] # "none"
               /\ \A t \in Services :
                    /\ q'[y][t] # "none" => reply'[y] # "none" /\ status'[y] # "none"
                    /\ q'[y][t] = "deleted" => <<y, t>> \in judged' \cup reviewed'
                    /\ <<y, t>> \in reviewed' => reviewers' /\ q'[y][t] \in {"dlq", "deleted"}
    BY <1>0, <1>2, <1>4, <1>6, <1>8 DEF FlowInv, HasRow
  <2>3. /\ \A y \in buffer' : status'[y] # "none"
        /\ \A i \in DOMAIN objects' : objects'[i] # {} /\ \A y \in objects'[i] : status'[y] # "none"
    <3>1. \A i \in DOMAIN objects : objects[i] \subseteq Txs
      OBVIOUS
    <3> QED BY <1>4, <1>8, <3>1 DEF FlowInv, HasRow
  <2> QED BY <2>1, <2>2, <2>3 DEF FlowInv, HasRow
<1>11. Onward
  BY <1>0, <1>2, <1>4, <1>5, <1>6, <1>8 DEF Onward, HasRow
<1> QED BY <1>9, <1>10, <1>11

\* A message is deleted or dead-lettered, or a reviewer flags its row.
LEMMA SettlesGoesOn ==
  ASSUME DeploymentTypeOK, FlowInv, NEW x \in Txs, NEW s \in subscribed,
         Settles(x, s) \/ Reviews(x, s)
  PROVE  DeploymentTypeOK' /\ FlowInv' /\ Onward
<1> USE DEF DeploymentTypeOK, choices, rowVars, auditVars, flowVars
<1>1. /\ s \in Services
      /\ UNCHANGED <<posted, subscribed, reviewers, attrs, reason, spent, alerts, buffer, objects,
                     tasks, judged, reply>>
      /\ hitches' \in 0..MaxHitches
  BY DeploymentAssumption DEF Settles, Reviews, Delete, DeadLetter, Review, Calm, Hitch
<1>2. q[x][s] # "none" /\ reply[x] # "none" /\ status[x] # "none"
  BY <1>1 DEF Settles, Reviews, Delete, DeadLetter, Review, FlowInv, HasRow
<1>3. \/ /\ UNCHANGED <<status, reviewed>>
         /\ \/ q[x][s] = "queue" /\ <<x, s>> \in judged /\ q' = [q EXCEPT ![x][s] = "deleted"]
            \/ q[x][s] = "dlq" /\ <<x, s>> \in reviewed /\ q' = [q EXCEPT ![x][s] = "deleted"]
            \/ q[x][s] = "queue" /\ q' = [q EXCEPT ![x][s] = "dlq"]
      \/ /\ UNCHANGED q /\ q[x][s] = "dlq" /\ reviewers
         /\ status' = [status EXCEPT ![x] = "pending_manual_review"]
         /\ reviewed' = reviewed \cup {<<x, s>>}
  BY DEF Settles, Reviews, Delete, DeadLetter, Review
<1>4. /\ status' \in [Txs -> {"none", "pending", "clean", "flagged", "blocked", "pending_manual_review"}]
      /\ \A y \in Txs : status'[y] # "none" <=> status[y] # "none"
  BY <1>2, <1>3
<1>5. /\ q' \in [Txs -> [Services -> {"none", "queue", "dlq", "deleted"}]]
      /\ \A y \in Txs, t \in Services : <<y, t>> # <<x, s>> => q'[y][t] = q[y][t]
      /\ \/ q'[x][s] = q[x][s]
         \/ q[x][s] = "queue" /\ (q'[x][s] = "dlq" \/ (q'[x][s] = "deleted" /\ <<x, s>> \in judged))
         \/ q[x][s] = "dlq" /\ q'[x][s] = "deleted" /\ <<x, s>> \in reviewed
      /\ q'[x][s] # "none"
  <2>1. CASE UNCHANGED q BY <1>2, <2>1
  <2>2. CASE q' = [q EXCEPT ![x][s] = "deleted"]
    <3>1. /\ q' \in [Txs -> [Services -> {"none", "queue", "dlq", "deleted"}]]
          /\ \A y \in Txs, t \in Services : <<y, t>> # <<x, s>> => q'[y][t] = q[y][t]
          /\ q'[x][s] = "deleted"
      BY <1>1, <2>2
    <3> QED BY <1>3, <1>2, <3>1
  <2>3. CASE q' = [q EXCEPT ![x][s] = "dlq"]
    <3>1. /\ q' \in [Txs -> [Services -> {"none", "queue", "dlq", "deleted"}]]
          /\ \A y \in Txs, t \in Services : <<y, t>> # <<x, s>> => q'[y][t] = q[y][t]
          /\ q'[x][s] = "dlq"
      BY <1>1, <2>3
    <3> QED BY <1>3, <1>2, <3>1
  <2> QED BY <1>3, <2>1, <2>2, <2>3
<1>6. /\ reviewed \subseteq reviewed' /\ reviewed' \subseteq Txs \X Services
      /\ \A y \in Txs, t \in Services :
           <<y, t>> \in reviewed' => <<y, t>> \in reviewed \/ (<<y, t>> = <<x, s>> /\ q[x][s] = "dlq" /\ reviewers /\ q'[x][s] = "dlq")
  BY <1>1, <1>3
<1>7. DeploymentTypeOK'
  <2>1. Users' = Users
    BY DEF Users
  <2> QED BY <1>1, <1>4, <1>5, <1>6, <2>1
<1>8. FlowInv'
  <2>1. \A y \in Txs : Route(y)' = Route(y) /\ Route(y) \subseteq Services
    BY <1>1 DEF Route, Event
  <2>2. ASSUME NEW y \in Txs
        PROVE  /\ reply'[y] # "none" \/ status'[y] # "none" \/ "queued" \in alerts'[y] => y \in posted'
               /\ reply'[y] = "202" => status'[y] # "none" /\ \A t \in Route(y) : q'[y][t] # "none"
    <3>1. ASSUME NEW t \in Services, q[y][t] # "none" PROVE q'[y][t] # "none"
      <4>1. CASE <<y, t>> = <<x, s>> BY <1>5, <4>1
      <4>2. CASE <<y, t>> # <<x, s>> BY <1>5, <3>1, <4>2
      <4> QED BY <4>1, <4>2
    <3> QED BY <1>1, <1>4, <2>1, <3>1 DEF FlowInv, HasRow
  <2>3. ASSUME NEW y \in Txs, NEW t \in Services
        PROVE  /\ q'[y][t] # "none" => reply'[y] # "none" /\ status'[y] # "none"
               /\ q'[y][t] = "deleted" => <<y, t>> \in judged' \cup reviewed'
               /\ <<y, t>> \in reviewed' => reviewers' /\ q'[y][t] \in {"dlq", "deleted"}
    <3>1. CASE <<y, t>> = <<x, s>>
      <4>1. y = x /\ t = s
        BY <3>1
      <4> HIDE DEF DeploymentTypeOK
      <4> QED BY <1>1, <1>2, <1>4, <1>5, <1>6, <4>1 DEF FlowInv, HasRow
    <3>2. CASE <<y, t>> # <<x, s>>
      <4>1. q'[y][t] = q[y][t] /\ (<<y, t>> \in reviewed' => <<y, t>> \in reviewed)
        BY <1>5, <1>6, <3>2
      <4> HIDE DEF DeploymentTypeOK
      <4> QED BY <1>1, <1>4, <1>6, <4>1 DEF FlowInv, HasRow
    <3> QED BY <3>1, <3>2
  <2>4. /\ \A y \in buffer' : status'[y] # "none"
        /\ \A i \in DOMAIN objects' : objects'[i] # {} /\ \A y \in objects'[i] : status'[y] # "none"
    <3>1. \A i \in DOMAIN objects : objects[i] \subseteq Txs
      OBVIOUS
    <3> QED BY <1>1, <1>4, <3>1 DEF FlowInv, HasRow
  <2> QED BY <2>1, <2>2, <2>3, <2>4 DEF FlowInv, HasRow
<1>9. Onward
  <2>1. ASSUME NEW y \in Txs, NEW t \in Services
        PROVE  \/ q'[y][t] = q[y][t]
               \/ q[y][t] = "queue" /\ q'[y][t] \in {"dlq", "deleted"}
               \/ q[y][t] = "dlq" /\ q'[y][t] = "deleted" /\ <<y, t>> \in reviewed
    <3>1. CASE <<y, t>> = <<x, s>>
      <4>1. y = x /\ t = s
        BY <3>1
      <4> QED BY <1>5, <4>1
    <3>2. CASE <<y, t>> # <<x, s>>
      BY <1>5, <3>2
    <3> QED BY <3>1, <3>2
  <2> HIDE DEF DeploymentTypeOK
  <2> QED BY <1>1, <1>4, <1>6, <2>1 DEF Onward, HasRow
<1> QED BY <1>7, <1>8, <1>9

\* The alert service, audit-logging's store and the tasks of ECS.
LEMMA OthersGoOn ==
  ASSUME DeploymentTypeOK, FlowInv,
         \/ \E x \in Txs : Dispatch(x)
         \/ Flush
         \/ \E t \in Tasks : Stops(t) \/ Restarts(t)
  PROVE  DeploymentTypeOK' /\ FlowInv' /\ Onward
<1> USE DEF DeploymentTypeOK, choices, rowVars, auditVars, flowVars
<1>1. /\ UNCHANGED <<reply, status, q, judged, reviewed, posted, subscribed, reviewers, attrs, reason, spent>>
      /\ hitches' \in 0..MaxHitches
  BY DeploymentAssumption DEF Dispatch, Flush, Stops, Restarts, SetTask, Calm, Hitch
<1>2. /\ tasks' \in [Tasks -> {"running", "lost", "stopped"}]
      /\ alerts' \in [Txs -> SUBSET {"queued", "dispatched", "dlq"}]
      /\ \A x \in Txs : /\ alerts[x] \ {"queued"} \subseteq alerts'[x]
                        /\ "queued" \in alerts'[x] => "queued" \in alerts[x]
  <2>1. ASSUME NEW x \in Txs, Dispatch(x) PROVE <1>2
    <3>1. UNCHANGED tasks /\ \E end \in {"dispatched", "dlq"} :
            alerts' = [alerts EXCEPT ![x] = (@ \ {"queued"}) \cup {end}]
      BY <2>1 DEF Dispatch
    <3> QED BY <3>1
  <2>2. CASE Flush BY <2>2 DEF Flush
  <2>3. ASSUME NEW t \in Tasks, Stops(t) \/ Restarts(t) PROVE <1>2
    <3>1. UNCHANGED alerts /\ \E state \in {"running", "lost", "stopped"} :
                                tasks' = [tasks EXCEPT ![t] = state]
      BY <2>3 DEF Stops, Restarts, SetTask
    <3> QED BY <3>1
  <2> QED BY <2>1, <2>2, <2>3
<1>3. /\ buffer' \subseteq buffer
      /\ objects' \in Seq(SUBSET Txs) /\ (objects # <<>> => objects' # <<>>)
      /\ \A i \in DOMAIN objects' : \/ i \in DOMAIN objects /\ objects'[i] = objects[i]
                                    \/ objects'[i] = buffer /\ buffer # {}
  <2>0. \/ buffer # {} /\ buffer' = {} /\ (objects' = Append(objects, buffer) \/ UNCHANGED objects)
        \/ UNCHANGED <<buffer, objects>>
    BY DEF Dispatch, Flush, Stops, Restarts, SetTask
  <2>1. CASE buffer # {} /\ buffer' = {} /\ objects' = Append(objects, buffer)
    <3>1. /\ objects' \in Seq(SUBSET Txs) /\ Len(objects') = Len(objects) + 1
          /\ \A i \in 1..Len(objects) : objects'[i] = objects[i]
          /\ objects'[Len(objects) + 1] = buffer /\ Len(objects) \in Nat
      BY <2>1
    <3>2. objects' # <<>>
      BY <3>1
    <3>3. ASSUME NEW i \in DOMAIN objects', i \notin DOMAIN objects PROVE i = Len(objects) + 1
      BY <3>1, <3>3
    <3> QED BY <2>1, <3>1, <3>2, <3>3
  <2>2. CASE buffer' = {} /\ UNCHANGED objects BY <2>2
  <2>3. CASE UNCHANGED <<buffer, objects>> BY <2>3
  <2> QED BY <2>0, <2>1, <2>2, <2>3
<1>4. DeploymentTypeOK'
  <2>1. Users' = Users /\ Tasks' = Tasks
    BY DEF Users, Tasks
  <2> QED BY <1>1, <1>2, <1>3, <2>1
<1>5. FlowInv'
  <2>1. \A y \in Txs : Route(y)' = Route(y)
    BY <1>1 DEF Route, Event
  <2>2. \A y \in buffer' : status'[y] # "none"
    BY <1>1, <1>3 DEF FlowInv, HasRow
  <2>3. ASSUME NEW i \in DOMAIN objects'
        PROVE  objects'[i] # {} /\ \A y \in objects'[i] : status'[y] # "none"
    BY <1>1, <1>3 DEF FlowInv, HasRow
  <2>4. /\ \A x \in Txs : reply'[x] # "none" \/ status'[x] # "none" \/ "queued" \in alerts'[x] => x \in posted'
        /\ \A x \in Txs : reply'[x] = "202" => status'[x] # "none" /\ \A s \in Route(x) : q'[x][s] # "none"
        /\ \A x \in Txs, s \in Services :
             /\ q'[x][s] # "none" => reply'[x] # "none" /\ status'[x] # "none"
             /\ q'[x][s] = "deleted" => <<x, s>> \in judged' \cup reviewed'
             /\ <<x, s>> \in reviewed' => reviewers' /\ q'[x][s] \in {"dlq", "deleted"}
    BY <1>1, <1>2 DEF FlowInv, HasRow
  <2> QED BY <2>1, <2>2, <2>3, <2>4 DEF FlowInv, HasRow
<1>6. Onward
  BY <1>1, <1>2, <1>3 DEF Onward, HasRow
<1> QED BY <1>4, <1>5, <1>6

\* A step of the deployment keeps its invariant and takes nothing back.
LEMMA DeploymentGoesOn ==
  ASSUME DeploymentTypeOK, FlowInv, DeploymentNext
  PROVE  DeploymentTypeOK' /\ FlowInv' /\ Onward
<1>1. CASE \E x \in Txs : Serve(x)                       BY <1>1, ServeGoesOn
<1>2. CASE \E x \in Txs, s \in subscribed, wrote, done \in BOOLEAN : Attempt(x, s, wrote, done)
  BY <1>2, AttemptGoesOn
<1>3. CASE \E x \in Txs, s \in subscribed : Settles(x, s) \/ Reviews(x, s)
  BY <1>3, SettlesGoesOn
<1>4. CASE \/ \E x \in Txs : Dispatch(x)
           \/ Flush
           \/ \E t \in Tasks : Stops(t) \/ Restarts(t)
  BY <1>4, OthersGoOn
<1> QED BY <1>1, <1>2, <1>3, <1>4 DEF DeploymentNext

\* So does a tool, which sends transactions at most.
LEMMA SendingGoesOn ==
  ASSUME DeploymentTypeOK, FlowInv, UNCHANGED theRest, posted \subseteq posted', posted' \subseteq Txs
  PROVE  DeploymentTypeOK' /\ FlowInv' /\ Onward
<1>1. UNCHANGED <<reply, status, q, judged, reviewed, subscribed, reviewers, attrs, reason, spent,
                  alerts, buffer, objects, tasks, hitches>>
  BY DEF theRest, flowVars, choices, rowVars, auditVars
<1>2. \A y \in Txs : (Route(y)' = Route(y)) /\ (HasRow(y)' <=> HasRow(y))
  BY <1>1 DEF Route, Event, HasRow
<1>3. DeploymentTypeOK'
  BY <1>1 DEF DeploymentTypeOK, Users, Tasks
<1>4. FlowInv'
  BY <1>1, <1>2 DEF FlowInv, HasRow
<1>5. Onward
  BY <1>1, <1>2 DEF Onward, choices
<1> QED BY <1>3, <1>4, <1>5

-----------------------------------------------------------------------------
(* verify_system.py.                                                       *)

\* The rest of a sequence.
IsRest(l, all) ==
  Len(l) <= Len(all) /\ \A i \in 1..Len(l) : l[i] = all[Len(all) - Len(l) + i]

\* What a probe may ask of a service.
ProbeKinds == {"empty", "log", "log-or-empty", "no-log"}
AProbe     == [kind : ProbeKinds, of : Tasks]

\* Where the script is: a check that posts works through its own transactions.
Script ==
  /\ plan \in Seq(Verified) /\ at \in 1..Len(plan) + 1
  /\ left \in Seq(Txs) /\ probes \in Seq(AProbe)
  /\ step \in {"check", "post", "sent", "wait", "fetch", "probe", "exit0", "exit1", "died"}
  /\ step \in {"post", "sent", "wait", "fetch", "probe"} =>
       at <= Len(plan) /\ plan[at] \in Posting
  /\ step \in {"post", "sent", "fetch"} => IsRest(left, CheckTxs[current])
  /\ step = "sent" => left # <<>>
  /\ step \in {"post", "sent", "wait"} => rows = {}
  /\ step = "exit0" => at > Len(plan) /\ fails = {}

\* What is left of a list after its next member.
LEMMA TailIsRest ==
  ASSUME NEW l \in Seq(Txs), NEW all \in Seq(Txs), IsRest(l, all), l # <<>>
  PROVE  /\ Tail(l) \in Seq(Txs) /\ IsRest(Tail(l), all) /\ Len(Tail(l)) = Len(l) - 1
         /\ Len(l) \in Nat /\ Len(l) > 0 /\ Len(all) \in Nat
         /\ Head(l) = all[Len(all) - Len(Tail(l))]
         /\ Len(all) - Len(Tail(l)) \in 1..Len(all)
<1>1. /\ Tail(l) \in Seq(Txs) /\ Len(Tail(l)) = Len(l) - 1
      /\ Len(l) \in Nat /\ Len(l) > 0 /\ Len(all) \in Nat /\ Head(l) = l[1]
      /\ \A i \in 1..Len(Tail(l)) : Tail(l)[i] = l[i + 1] /\ i + 1 \in 1..Len(l)
  OBVIOUS
<1>2. Head(l) = all[Len(all) - Len(l) + 1] /\ Len(l) <= Len(all)
  BY <1>1 DEF IsRest
<1>3. Len(all) - Len(l) + 1 = Len(all) - Len(Tail(l))
  BY <1>1
<1>4. ASSUME NEW i \in 1..Len(Tail(l)) PROVE Tail(l)[i] = all[Len(all) - Len(Tail(l)) + i]
  <2>1. Tail(l)[i] = all[Len(all) - Len(l) + (i + 1)]
    BY <1>1 DEF IsRest
  <2>2. Len(all) - Len(l) + (i + 1) = Len(all) - Len(Tail(l)) + i
    BY <1>1
  <2> QED BY <2>1, <2>2
<1> QED BY <1>1, <1>2, <1>3, <1>4 DEF IsRest

\* Probe asks each of the services once, in their order.
LEMMA ProbesTyped ==
  ASSUME NEW kind \in ProbeKinds, NEW services \in Seq(Tasks)
  PROVE  /\ Probe(kind, services) \in Seq(AProbe)
         /\ Len(Probe(kind, services)) = Len(services)
         /\ \A i \in 1..Len(services) : Probe(kind, services)[i] = [kind |-> kind, of |-> services[i]]
BY DEF Probe, AProbe

\* The probes of the checks.
LEMMA ChecksProbe ==
  /\ low_value_probes \in Seq(AProbe) /\ high_value_probes \in Seq(AProbe)
  /\ Probe("log", <<"alert">>) \in Seq(AProbe)
  /\ 1 \in DOMAIN Probe("log", <<"alert">>)
  /\ Probe("log", <<"alert">>)[1] = [kind |-> "log", of |-> "alert"]
  /\ Having("violation_id") = {} =>
       /\ 1 \in DOMAIN high_value_probes
       /\ high_value_probes[1] = [kind |-> "log", of |-> "compliance"]
<1>1. {"fraud", "risk", "compliance", "analytics", "audit-logging", "alert"} \subseteq Tasks
  BY DEF Tasks, FilteredServices, UnfilteredServices
<1>2. {"empty", "log", "log-or-empty", "no-log"} \subseteq ProbeKinds
  BY DEF ProbeKinds
<1>3. ASSUME NEW s \in Tasks
      PROVE  /\ Probe("log", <<s>>) \in Seq(AProbe) /\ 1 \in DOMAIN Probe("log", <<s>>)
             /\ Len(Probe("log", <<s>>)) = 1
             /\ Probe("log", <<s>>)[1] = [kind |-> "log", of |-> s]
  <2>1. <<s>> \in Seq(Tasks) /\ Len(<<s>>) = 1 /\ <<s>>[1] = s
    OBVIOUS
  <2>2. "log" \in ProbeKinds /\ 1 \in 1..1
    BY <1>2
  <2>3. /\ Probe("log", <<s>>) \in Seq(AProbe) /\ Len(Probe("log", <<s>>)) = 1
        /\ Probe("log", <<s>>)[1] = [kind |-> "log", of |-> s]
    BY <2>1, <2>2, ProbesTyped
  <2>4. 1 \in DOMAIN Probe("log", <<s>>)
    BY <2>3
  <2> QED BY <2>3, <2>4
<1>4. ASSUME NEW s \in Tasks, NEW t \in Tasks, NEW kind \in ProbeKinds
      PROVE  Probe(kind, <<s, t>>) \in Seq(AProbe)
  BY ProbesTyped, <<s, t>> \in Seq(Tasks)
<1>5. ASSUME NEW s \in Tasks, NEW t \in Tasks, NEW u \in Tasks, NEW kind \in ProbeKinds
      PROVE  Probe(kind, <<s, t, u>>) \in Seq(AProbe)
  BY ProbesTyped, <<s, t, u>> \in Seq(Tasks)
<1>6. low_value_probes \in Seq(AProbe)
  <2>1. Probe("empty", Filtered) \in Seq(AProbe) /\ Probe("no-log", Filtered) \in Seq(AProbe)
    BY <1>1, <1>2, <1>5 DEF Filtered
  <2>2. Probe("log-or-empty", <<"analytics", "audit-logging">>) \in Seq(AProbe)
    BY <1>1, <1>2, <1>4
  <2> QED BY <2>1, <2>2 DEF low_value_probes
<1>7. PICK first \in Seq(AProbe), rest \in Seq(AProbe) :
        /\ Len(first) = 1 /\ first[1] = [kind |-> "log", of |-> "compliance"]
        /\ high_value_probes = (IF Having("violation_id") = {} THEN first ELSE <<>>) \o rest
  <2>1. Probe("log-or-empty", <<"risk", "analytics", "audit-logging">>) \in Seq(AProbe)
    BY <1>1, <1>2, <1>5
  <2> QED BY <1>1, <1>3, <2>1 DEF high_value_probes
<1>8. /\ first \o rest \in Seq(AProbe) /\ Len(first \o rest) = 1 + Len(rest)
      /\ (first \o rest)[1] = first[1]
  <2>1. Len(first) = 1 /\ Len(rest) \in Nat
    BY <1>7
  <2>2. 1 \in 1..Len(first) + Len(rest) /\ 1 <= Len(first)
    BY <2>1
  <2> QED BY <2>1, <2>2, ConcatProperties
<1>9. <<>> \o rest \in Seq(AProbe)
  OBVIOUS
<1>10. high_value_probes \in Seq(AProbe)
  BY <1>7, <1>8, <1>9
<1>11. "alert" \in Tasks
  BY <1>1
<1>12. Having("violation_id") = {} =>
        /\ 1 \in DOMAIN high_value_probes
        /\ high_value_probes[1] = [kind |-> "log", of |-> "compliance"]
  <2>1. Len(rest) \in Nat /\ (first \o rest \in Seq(AProbe) => 1 \in DOMAIN (first \o rest))
    BY <1>8
  <2> QED BY <1>7, <1>8, <2>1
<1> QED BY <1>1, <1>3, <1>6, <1>10, <1>11, <1>12

\* The script begins at its first check.
LEMMA ScriptInit == Init => Script
<1> SUFFICES ASSUME Init PROVE Script
  OBVIOUS
<1>1. PICK p \in Plans : VerifyInit(p)
  BY DEF Init
<1>2. <<>> \in Seq(Txs) /\ <<>> \in Seq(AProbe) /\ plan \in Seq(Verified)
  BY <1>1, VerifyAssumption DEF VerifyInit
<1> QED BY <1>1, <1>2 DEF VerifyInit, Script

\* Every step of the script keeps its place well formed.
LEMMA ScriptStep == ASSUME Script, VerifyStep PROVE Script'
<1> USE DEF NextCheck, Fails
<1>0. /\ Len(plan) \in Nat /\ at \in Nat /\ \A i \in 1..Len(plan) : plan[i] \in Verified
      /\ \A c \in Posting : CheckTxs[c] \in Seq(Txs)
  BY VerifyAssumption DEF Script
<1>1. CASE Look
  BY <1>0, <1>1 DEF Script, Look, check_service_health, check_queue_status, check_audit_trail
<1>2. CASE StartPosting
  <2>1. CheckTxs[current] \in Seq(Txs) /\ IsRest(CheckTxs[current], CheckTxs[current])
    BY <1>0, <1>2 DEF StartPosting, IsRest
  <2> QED BY <1>0, <1>2, <2>1 DEF Script, StartPosting, current
<1>3. CASE Post        BY <1>0, <1>3 DEF Script, Post, current
<1>4. CASE PostReturns
  <2>1. /\ left' = Tail(left) /\ step' = "post" /\ step = "sent" /\ left # <<>>
        /\ UNCHANGED <<plan, at, rows, probes>>
    BY <1>4 DEF PostReturns, Script
  <2>2. /\ left \in Seq(Txs) /\ CheckTxs[current] \in Seq(Txs) /\ IsRest(left, CheckTxs[current])
    BY <1>0, <2>1 DEF Script, current
  <2>3. left' \in Seq(Txs) /\ IsRest(left', CheckTxs[current])
    BY <2>1, <2>2, TailIsRest
  <2> QED BY <1>0, <2>1, <2>3 DEF Script, current
<1>5. CASE Posted
  BY <1>0, <1>5 DEF Script, Posted, current
<1>6. CASE Sleep
  <2>1. CheckTxs[current] \in Seq(Txs) /\ IsRest(CheckTxs[current], CheckTxs[current])
    BY <1>0, <1>6 DEF Script, Sleep, current, IsRest
  <2> QED BY <1>0, <1>6, <2>1 DEF Script, Sleep, current
<1>7. CASE dynamo_get_with_retry
  <2>1. /\ left' \in {left, Tail(left)} /\ step' = step /\ step = "fetch" /\ left # <<>>
        /\ UNCHANGED <<plan, at, probes>>
    BY <1>7 DEF dynamo_get_with_retry
  <2>2. /\ left \in Seq(Txs) /\ CheckTxs[current] \in Seq(Txs) /\ IsRest(left, CheckTxs[current])
    BY <1>0, <2>1 DEF Script, current
  <2>3. left' \in Seq(Txs) /\ IsRest(left', CheckTxs[current])
    BY <2>1, <2>2, TailIsRest
  <2> QED BY <1>0, <2>1, <2>3 DEF Script, current
<1>8. CASE Dies        BY <1>0, <1>8 DEF Script, Dies
<1>9. CASE Evaluate
  <2>1. /\ step = "fetch" /\ step' \in {"check", "probe"} /\ UNCHANGED <<plan, left>>
        /\ probes' \in {probes, low_value_probes, high_value_probes, Probe("log", <<"alert">>), <<>>}
        /\ (step' = "check" /\ at' = at + 1) \/ (step' = "probe" /\ at' = at)
    BY <1>9 DEF Evaluate
  <2>2. probes' \in Seq(AProbe)
    <3>1. probes \in Seq(AProbe) /\ <<>> \in Seq(AProbe)
      BY DEF Script
    <3>2. /\ low_value_probes \in Seq(AProbe) /\ high_value_probes \in Seq(AProbe)
          /\ Probe("log", <<"alert">>) \in Seq(AProbe)
      BY ChecksProbe
    <3> QED BY <2>1, <3>1, <3>2, Zenon
  <2> QED BY <1>0, <2>1, <2>2 DEF Script
<1>10. CASE RunProbe
  <2>1. Tail(probes) \in Seq(AProbe)
    BY <1>10 DEF Script, RunProbe
  <2> QED BY <1>0, <1>10, <2>1 DEF Script, RunProbe
<1>11. CASE EndCheck   BY <1>0, <1>11 DEF Script, EndCheck
<1>12. CASE Exit       BY <1>0, <1>12 DEF Script, Exit
<1> QED BY <1>1, <1>2, <1>3, <1>4, <1>5, <1>6, <1>7, <1>8, <1>9, <1>10, <1>11, <1>12
        DEF VerifyStep
-----------------------------------------------------------------------------
(* What the script has seen when nothing has failed so far.                *)

\* All the transactions of check k were accepted.
AllAccepted(k) == \A i \in 1..Len(CheckTxs[k]) : reply[CheckTxs[k][i]] = "202"
AllStored(k)   == \A i \in 1..Len(CheckTxs[k]) : HasRow(CheckTxs[k][i])

\* What the rows of check k were marked with.
Marked(k) == /\ k \in {"high", "fraud"} => Has(k, "alert_id")
             /\ k = "risk" => Has(k, "breach_id")

\* Compliance judged the transaction of the high-value check, or its log could not be read.
ComplianceSaw == \/ denied \/ Has("high", "violation_id")
                 \/ <<CheckTxs["high"][1], "compliance">> \in judged

\* The alert of the fraud check was sent, or the log could not be read.
AlertSaw == denied \/ "dispatched" \in alerts[CheckTxs["fraud"][1]]

\* What exit code 0 says of check k.
Passed(k) ==
  /\ k \in Posting => AllAccepted(k) /\ AllStored(k) /\ Marked(k)
  /\ k = "high" => ComplianceSaw
  /\ k = "fraud" => AlertSaw
  /\ k = "audit" => objects # <<>>

\* The transactions of the check that have been posted, or read.
Gone == 1..Len(CheckTxs[current]) - Len(left)

\* The rows read are those of the check, as they were or have become since; when
\* as many were read as were asked for, all of them are there.
RowsRead ==
  /\ IsFiniteSet(rows)
  /\ \A r \in rows : \E i \in 1..Len(CheckTxs[current]) :
       /\ r.tx = CheckTxs[current][i] /\ HasRow(r.tx)
       /\ r.ids \subseteq attrs[r.tx]
  /\ Cardinality(rows) <= Len(CheckTxs[current]) - Len(left)
  /\ Cardinality(rows) = Len(CheckTxs[current]) - Len(left) =>
       \A i \in Gone : HasRow(CheckTxs[current][i])

\* The log of service s is still to be read.
LogProbe(s) == \E i \in DOMAIN probes : probes[i] = [kind |-> "log", of |-> s]

\* In the middle of check k.
Midway(k) ==
  /\ step \in {"post", "sent"} => \A i \in Gone : reply[CheckTxs[k][i]] = "202"
  /\ step \in {"wait", "fetch", "probe"} => AllAccepted(k)
  /\ step = "fetch" => RowsRead
  /\ step = "probe" =>
       /\ AllStored(k) /\ Marked(k)
       /\ k = "high" => ComplianceSaw \/ LogProbe("compliance")
       /\ k = "fraud" => AlertSaw \/ LogProbe("alert")

\* While nothing was reported, the checks that are done have passed, and the one at hand so far.
EvidenceInv ==
  fails = {} => /\ \A i \in 1..at - 1 : Passed(plan[i])
                /\ at <= Len(plan) => Midway(plan[at])

\* The place of a script, as the proofs below use it.
LEMMA CheckIsWellFormed ==
  ASSUME Script
  PROVE  /\ Len(plan) \in Nat /\ at \in Nat /\ at >= 1
         /\ \A i \in 1..at - 1 : plan[i] \in Verified
         /\ \A k \in Posting : CheckTxs[k] \in Seq(Txs) /\ Len(CheckTxs[k]) \in Nat
         /\ \A k \in Posting, i \in Nat : i \in 1..Len(CheckTxs[k]) => CheckTxs[k][i] \in Txs
         /\ \A k \in {"low", "high", "fraud"} : Len(CheckTxs[k]) = 1
<1>1. \A k \in Posting : CheckTxs[k] \in Seq(Txs)
  BY VerifyAssumption
<1> QED BY <1>1, VerifyAssumption DEF Script, Posting

\* When the deployment moves, what was seen is still there.
LEMMA EvidenceStays ==
  ASSUME Script, EvidenceInv, Onward, UNCHANGED verifyVars
  PROVE  EvidenceInv'
<1>1. /\ UNCHANGED <<plan, at, step, left, rows, probes, fails, denied>>
      /\ \A x \in Txs : /\ reply[x] = "202" => reply'[x] = "202"
                        /\ HasRow(x) => HasRow(x)'
                        /\ attrs[x] \subseteq attrs'[x]
                        /\ "dispatched" \in alerts[x] => "dispatched" \in alerts'[x]
      /\ judged \subseteq judged'
      /\ objects # <<>> => objects' # <<>>
  BY DEF verifyVars, Onward, HasRow
<1>2. ASSUME NEW k \in Posting
      PROVE  /\ AllAccepted(k) => AllAccepted(k)'
             /\ AllStored(k) => AllStored(k)'
             /\ \A id : Has(k, id) => Has(k, id)'
  BY <1>1, CheckIsWellFormed DEF AllAccepted, AllStored, Has
<1>3. (ComplianceSaw => ComplianceSaw') /\ (AlertSaw => AlertSaw')
  <2>1. CheckTxs["high"][1] \in Txs /\ CheckTxs["fraud"][1] \in Txs
    BY CheckIsWellFormed DEF Posting
  <2>2. Has("high", "violation_id") => Has("high", "violation_id")'
    BY <1>2 DEF Posting
  <2> QED BY <1>1, <2>1, <2>2 DEF ComplianceSaw, AlertSaw
<1>4. ASSUME NEW k \in Verified, Passed(k) PROVE Passed(k)'
  <2>1. k \in Posting => Marked(k)'
    BY <1>2, <1>4 DEF Passed, Marked
  <2> QED BY <1>1, <1>2, <1>3, <1>4, <2>1 DEF Passed
<1>5. ASSUME RowsRead, current \in Posting PROVE RowsRead'
  <2> DEFINE k == current
  <2>1. UNCHANGED <<current, Gone, rows, left>>
    BY <1>1 DEF current, Gone
  <2>2. ASSUME NEW i \in 1..Len(CheckTxs[k])
        PROVE  CheckTxs[k][i] \in Txs
    BY <1>5, CheckIsWellFormed
  <2>3. ASSUME NEW r \in rows
        PROVE  \E i \in 1..Len(CheckTxs[k]) :
                 r.tx = CheckTxs[k][i] /\ HasRow(r.tx)' /\ r.ids \subseteq attrs'[r.tx]
    <3>1. PICK i \in 1..Len(CheckTxs[k]) :
            r.tx = CheckTxs[k][i] /\ HasRow(r.tx) /\ r.ids \subseteq attrs[r.tx]
      BY <1>5 DEF RowsRead
    <3>2. r.tx \in Txs
      BY <3>1, <2>2
    <3> QED BY <1>1, <3>1, <3>2
  <2>4. ASSUME NEW i \in Gone, status[CheckTxs[k][i]] # "none"
        PROVE  status'[CheckTxs[k][i]] # "none"
    <3>1. i \in 1..Len(CheckTxs[k])
      BY <1>5, CheckIsWellFormed DEF Gone, Script
    <3> QED BY <1>1, <2>2, <2>4, <3>1 DEF HasRow
  <2> QED BY <1>5, <2>1, <2>3, <2>4 DEF RowsRead, HasRow
<1>6. ASSUME NEW k, k = current, k \in Posting, Midway(k) PROVE Midway(k)'
  <2>1. \A s : LogProbe(s) => LogProbe(s)'
    BY <1>1 DEF LogProbe
  <2>2. Marked(k) => Marked(k)'
    BY <1>2, <1>6 DEF Marked
  <2>3. \A i \in Gone : reply[CheckTxs[k][i]] = "202" => reply'[CheckTxs[k][i]] = "202"
    BY <1>1, <1>6, CheckIsWellFormed DEF Gone, Script
  <2>4. Gone' = Gone
    BY <1>1 DEF Gone, current
  <2> QED BY <1>1, <1>2, <1>3, <1>5, <1>6, <2>1, <2>2, <2>3, <2>4 DEF Midway
<1>7. ASSUME NEW k, k = current, k \notin Posting, at <= Len(plan) PROVE Midway(k)'
  BY <1>1, <1>7 DEF Midway, Script, current
<1> SUFFICES ASSUME fails' = {}
             PROVE  /\ \A i \in 1..at - 1 : Passed(plan[i])'
                    /\ at <= Len(plan) => Midway(plan[at])'
  BY <1>1 DEF EvidenceInv
<1>8. fails = {}
  BY <1>1
<1>9. ASSUME NEW i \in 1..at - 1 PROVE Passed(plan[i])'
  <2>1. PICK k \in Verified : k = plan[i]
    BY CheckIsWellFormed
  <2>2. Passed(k)'
    BY <1>4, <1>8, <2>1 DEF EvidenceInv
  <2> QED BY <1>1, <2>1, <2>2
<1>10. ASSUME at <= Len(plan) PROVE Midway(plan[at])'
  <2>1. PICK k : k = plan[at]
    OBVIOUS
  <2>2. Midway(k)'
    BY <1>6, <1>7, <1>8, <1>10, <2>1 DEF EvidenceInv, current
  <2> QED BY <1>1, <2>1, <2>2
<1> QED BY <1>9, <1>10

\* What the script looks at stays while the script itself moves.
Watching == UNCHANGED <<theRest, plan, denied>>

\* What a check has found of the deployment stays while the deployment stands still.
LEMMA PassedStays == ASSUME Watching, NEW k PROVE Passed(k)' <=> Passed(k)
BY DEF Watching, theRest, flowVars, rowVars, auditVars, Passed, AllAccepted, AllStored, HasRow,
       Marked, Has, ComplianceSaw, AlertSaw

\* A step within the check, and one that ends it.
LEMMA CheckGoesOn ==
  ASSUME Watching, EvidenceInv, fails \subseteq fails', at' = at,
         fails' = {} /\ at <= Len(plan) => Midway(plan[at])'
  PROVE  EvidenceInv'
<1> SUFFICES ASSUME fails' = {}
             PROVE  /\ \A i \in 1..at' - 1 : Passed(plan[i])'
                    /\ at' <= Len(plan') => Midway(plan[at])'
  BY DEF EvidenceInv
<1>1. fails = {} /\ plan' = plan
  BY DEF Watching
<1>2. ASSUME NEW i \in 1..at - 1 PROVE Passed(plan[i])'
  <2>1. PICK k : k = plan[i]
    OBVIOUS
  <2>2. Passed(k)'
    BY <1>1, <2>1, PassedStays DEF EvidenceInv
  <2> QED BY <1>1, <2>1, <2>2
<1> QED BY <1>1, <1>2

\* A check that ends and has passed is one more that has.
LEMMA CheckPasses ==
  ASSUME Watching, Script, EvidenceInv, fails \subseteq fails', at <= Len(plan),
         at' = at + 1, step' = "check", fails' = {} => Passed(plan[at])
  PROVE  EvidenceInv'
<1> SUFFICES ASSUME fails' = {}
             PROVE  /\ \A i \in 1..at' - 1 : Passed(plan[i])'
                    /\ at' <= Len(plan') => Midway(plan[at])'
  BY DEF EvidenceInv
<1>1. fails = {} /\ plan' = plan /\ at \in Nat
  BY DEF Watching, Script
<1>2. ASSUME NEW i \in 1..at PROVE Passed(plan[i])'
  <2>1. PICK k : k = plan[i]
    OBVIOUS
  <2>2. Passed(k)
    <3>1. CASE i = at BY <2>1, <3>1
    <3>2. CASE i # at BY <1>1, <2>1, <3>2 DEF EvidenceInv
    <3> QED BY <3>1, <3>2
  <2>3. Passed(k)'
    BY <2>2, PassedStays
  <2> QED BY <1>1, <2>1, <2>3
<1>3. Midway(plan[at])'
  BY DEF Midway
<1> QED BY <1>1, <1>2, <1>3

\* Reading the next row.
LEMMA ReadKeepsRows ==
  ASSUME Script, Watching, RowsRead, dynamo_get_with_retry
  PROVE  RowsRead'
<1> DEFINE k == current
           x == Head(left)
           n == Len(CheckTxs[k]) - Len(left)
<1>1. /\ step = "fetch" /\ left # <<>> /\ k \in Posting
      /\ CheckTxs[k] \in Seq(Txs) /\ left \in Seq(Txs) /\ IsRest(left, CheckTxs[k])
  BY CheckIsWellFormed DEF dynamo_get_with_retry, Script, current
<1>2. /\ UNCHANGED <<status, attrs, reason, plan, at>> /\ current' = current
      /\ \A y \in Txs : HasRow(y)' <=> HasRow(y)
  BY DEF dynamo_get_with_retry, Watching, theRest, flowVars, rowVars, HasRow, current
<1>3. /\ n \in Nat /\ Len(CheckTxs[k]) - Len(Tail(left)) = n + 1 /\ n + 1 \in 1..Len(CheckTxs[k])
      /\ x = CheckTxs[k][n + 1] /\ x \in Txs
  <2>1. Len(left) <= Len(CheckTxs[k])
    BY <1>1 DEF IsRest
  <2> QED BY <1>1, <2>1, TailIsRest
<1>4. /\ IsFiniteSet(rows) /\ Cardinality(rows) \in Nat
      /\ Cardinality(rows) <= n
      /\ Cardinality(rows) = n => \A i \in 1..n : HasRow(CheckTxs[k][i])
      /\ \A r \in rows : \E i \in 1..Len(CheckTxs[k]) :
           r.tx = CheckTxs[k][i] /\ HasRow(r.tx) /\ r.ids \subseteq attrs[r.tx]
  BY FS_CardinalityType DEF RowsRead, Gone
<1>5. \A y \in Txs : HasRow(y) <=> status[y] # "none"
  BY DEF HasRow
<1>6. CASE UNCHANGED <<left, rows>>
  BY <1>2, <1>6 DEF RowsRead, Gone, HasRow
<1>7. CASE left' = Tail(left) /\ rows' = rows /\ ~HasRow(x)
  <2>1. Len(CheckTxs[k]) - Len(left') = n + 1
    BY <1>3, <1>7
  <2> HIDE DEF n, x, k
  <2>2. Cardinality(rows') <= n + 1 /\ Cardinality(rows') # n + 1
    BY <1>3, <1>4, <1>7
  <2> USE DEF k
  <2> QED BY <1>2, <1>4, <1>7, <2>1, <2>2 DEF RowsRead, HasRow
<1>8. CASE left' = Tail(left) /\ rows' = rows \cup {Row(x)} /\ HasRow(x)
  <2>1. Len(CheckTxs[k]) - Len(left') = n + 1
    BY <1>3, <1>8
  <2>2. Row(x).tx = x /\ Row(x).ids = attrs[x]
    BY DEF Row
  <2> HIDE DEF n, x
  <2>3. /\ IsFiniteSet(rows') /\ Cardinality(rows') \in Nat
        /\ Cardinality(rows') <= Cardinality(rows) + 1
    <3>1. PICK r : r = Row(x)
      OBVIOUS
    <3>2. rows' = rows \cup {r} /\ IsFiniteSet(rows) /\ Cardinality(rows) \in Nat
      BY <1>4, <1>8, <3>1
    <3>3. /\ IsFiniteSet(rows')
          /\ Cardinality(rows') \in {Cardinality(rows), Cardinality(rows) + 1}
      BY <3>2, FS_AddElement
    <3> QED BY <3>2, <3>3
  <2>4. Cardinality(rows') <= n + 1 /\ (Cardinality(rows') = n + 1 => Cardinality(rows) = n)
    BY <1>3, <1>4, <2>3
  <2>5. ASSUME NEW r \in rows'
        PROVE  \E i \in 1..Len(CheckTxs[k]) :
                 r.tx = CheckTxs[k][i] /\ status[r.tx] # "none" /\ r.ids \subseteq attrs[r.tx]
    <3>1. CASE r \in rows BY <1>4, <3>1 DEF HasRow
    <3>2. CASE r = Row(x)
      BY <1>3, <1>5, <1>8, <2>2, <3>2
    <3> QED BY <1>8, <3>1, <3>2
  <2>6. ASSUME Cardinality(rows') = n + 1, NEW i \in 1..n + 1
        PROVE  status[CheckTxs[k][i]] # "none"
    <3>1. CASE i = n + 1 BY <1>3, <1>5, <1>8, <3>1
    <3>2. CASE i # n + 1
      <4>1. i \in 1..n
        BY <1>3, <3>2
      <4> QED BY <1>4, <2>4, <2>6, <4>1 DEF HasRow
    <3> QED BY <3>1, <3>2
  <2> QED BY <1>2, <2>1, <2>3, <2>4, <2>5, <2>6 DEF RowsRead, Gone, HasRow
<1> QED BY <1>6, <1>7, <1>8 DEF dynamo_get_with_retry

\* The verdict over the rows.
LEMMA EvaluateSees ==
  ASSUME Script, Watching, Evaluate, Midway(plan[at]), fails' = {}
  PROVE  at' = at /\ Midway(plan[at])'
<1> DEFINE k == current
<1>1. /\ step = "fetch" /\ left = <<>> /\ Len(left) = 0 /\ k \in Posting /\ k = plan[at]
      /\ Len(CheckTxs[k]) \in Nat /\ (k # "risk" => Len(CheckTxs[k]) = 1)
      /\ AllAccepted(k) /\ RowsRead
  <2>1. step = "fetch" /\ left = <<>> /\ k \in Posting
    BY DEF Evaluate, Script, current
  <2> QED BY <2>1, CheckIsWellFormed DEF Midway, current, Posting
<1>2. \A w : Fails(w) => fails = {} /\ w = {}
  BY DEF Fails
<1>3. ~(rows = {} /\ k # "risk")
  <2> SUFFICES ASSUME rows = {} /\ k # "risk" PROVE FALSE
    OBVIOUS
  <2>1. Fails({"row"})
    BY DEF Evaluate
  <2> QED BY <1>2, <2>1
<1>4. /\ at' = at /\ step' = "probe" /\ UNCHANGED <<plan, left, rows, denied>>
      /\ Fails(CASE k = "low"   -> check_low_value
                 [] k = "high"  -> check_high_value
                 [] k = "fraud" -> check_fraud_detection
                 [] OTHER       -> check_risk_limit)
      /\ k = "high" => probes' = high_value_probes
      /\ k = "fraud" => probes' = Probe("log", <<"alert">>)
  BY <1>3 DEF Evaluate
<1>5. \A r \in rows : \E i \in 1..Len(CheckTxs[k]) :
        r.tx = CheckTxs[k][i] /\ HasRow(r.tx) /\ r.ids \subseteq attrs[r.tx]
  BY <1>1 DEF RowsRead
<1>6. AllStored(k)
  <2>1. CASE k # "risk"
    <3>1. PICK r \in rows : TRUE
      BY <1>3, <2>1
    <3>2. PICK i \in 1..Len(CheckTxs[k]) : r.tx = CheckTxs[k][i] /\ HasRow(r.tx)
      BY <1>5
    <3> QED BY <1>1, <2>1, <3>2 DEF AllStored
  <2>2. CASE k = "risk"
    <3>1. check_risk_limit = {}
      BY <1>2, <1>4, <2>2
    <3>2. ~(Cardinality(rows) < Len(CheckTxs[k]))
      BY <3>1 DEF check_risk_limit
    <3>3. Cardinality(rows) \in Nat /\ Cardinality(rows) <= Len(CheckTxs[k])
      BY <1>1, FS_CardinalityType DEF RowsRead
    <3>4. Cardinality(rows) = Len(CheckTxs[k]) - Len(left)
          /\ 1..Len(CheckTxs[k]) - Len(left) = 1..Len(CheckTxs[k])
      BY <1>1, <3>2, <3>3
    <3> QED BY <1>1, <3>4 DEF RowsRead, Gone, AllStored
  <2> QED BY <2>1, <2>2
<1>7. \A id : Having(id) # {} => Has(k, id)
  BY <1>5 DEF Having, Has
<1>8. Marked(k)
  <2>1. CASE k = "high"
    <3>1. check_high_value = {}
      BY <1>2, <1>4, <2>1
    <3> QED BY <1>7, <2>1, <3>1 DEF check_high_value, Marked
  <2>2. CASE k = "fraud"
    <3>1. check_fraud_detection = {}
      BY <1>2, <1>4, <2>2
    <3>2. Having("alert_id") # {}
      BY <3>1 DEF check_fraud_detection
    <3> QED BY <1>7, <2>2, <3>2 DEF Marked
  <2>3. CASE k = "risk"
    <3>1. check_risk_limit = {}
      BY <1>2, <1>4, <2>3
    <3>2. Having("breach_id") # {}
      BY <3>1 DEF check_risk_limit
    <3> QED BY <1>7, <2>3, <3>2 DEF Marked
  <2> QED BY <2>1, <2>2, <2>3 DEF Marked
<1>9. k = "high" => ComplianceSaw \/ LogProbe("compliance")'
  <2> SUFFICES ASSUME k = "high" PROVE ComplianceSaw \/ LogProbe("compliance")'
    OBVIOUS
  <2>1. CASE Having("violation_id") = {}
    BY <1>4, <2>1, ChecksProbe DEF LogProbe
  <2>2. CASE Having("violation_id") # {}
    BY <1>7, <2>2 DEF ComplianceSaw
  <2> QED BY <2>1, <2>2
<1>10. k = "fraud" => LogProbe("alert")'
  <2>1. 1 \in DOMAIN Probe("log", <<"alert">>)
    BY ChecksProbe
  <2> QED BY <1>4, <2>1, ChecksProbe DEF LogProbe
<1>11. /\ AllAccepted(k) => \A i \in 1..Len(CheckTxs[k]) : reply'[CheckTxs[k][i]] = "202"
       /\ UNCHANGED <<reply, status, attrs, judged, alerts, denied>>
  BY DEF Watching, theRest, flowVars, rowVars, AllAccepted
<1>12. PICK c : c = k
  OBVIOUS
<1>13. Midway(c)'
  BY <1>1, <1>4, <1>6, <1>8, <1>9, <1>10, <1>11, <1>12
     DEF Midway, AllAccepted, AllStored, Marked, Has, HasRow, ComplianceSaw
<1> QED BY <1>1, <1>4, <1>12, <1>13

\* A log probe fails unless there is a line, or the logs may not be read.
LEMMA ProbeSees ==
  ASSUME Script, Watching, RunProbe, Midway(plan[at]), fails' = {}
  PROVE  Midway(plan[at])'
<1>1. /\ step = "probe" /\ step' = step /\ UNCHANGED <<plan, at>> /\ probes # <<>>
      /\ probes \in Seq(AProbe) /\ probes' = Tail(probes)
      /\ plan[at] \in Posting
  BY DEF RunProbe, Script
<1>2. /\ Len(probes) \in Nat /\ Len(probes) >= 1 /\ Head(probes) = probes[1]
      /\ DOMAIN probes = 1..Len(probes) /\ DOMAIN Tail(probes) = 1..Len(probes) - 1
      /\ \A i \in 1..Len(probes) - 1 : Tail(probes)[i] = probes[i + 1]
  BY <1>1
<1>3. ASSUME NEW s \in {"compliance", "alert"}, LogProbe(s)
      PROVE  denied \/ LogProbe(s)' \/ Logged(probed, s)
  <2>1. PICK i \in 1..Len(probes) : probes[i] = [kind |-> "log", of |-> s]
    BY <1>2, <1>3 DEF LogProbe
  <2>2. CASE i = 1
    <3>1. probing.kind = "log" /\ probing.of = s
      BY <1>2, <2>1, <2>2 DEF probing
    <3>2. cw_has_log
      BY <3>1 DEF RunProbe
    <3>3. ~Fails({ProcessedTx})
      BY DEF Fails
    <3> QED BY <3>1, <3>2, <3>3 DEF cw_has_log
  <2>3. CASE i # 1
    <3>1. i - 1 \in 1..Len(probes) - 1 /\ (i - 1) + 1 = i
      BY <1>2, <2>3
    <3>2. i - 1 \in DOMAIN Tail(probes) /\ Tail(probes)[i - 1] = probes[i]
      BY <1>2, <3>1
    <3> QED BY <1>1, <2>1, <3>2 DEF LogProbe
  <2> QED BY <2>2, <2>3
<1>4. PICK k : k = plan[at]
  OBVIOUS
<1>5. /\ k = "high" /\ Logged(probed, "compliance") => ComplianceSaw
      /\ k = "fraud" /\ Logged(probed, "alert") => AlertSaw
  BY <1>4 DEF Logged, probed, current, ComplianceSaw, AlertSaw
<1>6. /\ k = "high" => ComplianceSaw \/ LogProbe("compliance")'
      /\ k = "fraud" => AlertSaw \/ LogProbe("alert")'
  BY <1>1, <1>3, <1>4, <1>5 DEF Midway, ComplianceSaw, AlertSaw
<1>7. UNCHANGED <<reply, status, attrs, judged, alerts, denied>>
  BY DEF Watching, theRest, flowVars, rowVars
<1>8. AllAccepted(k) /\ AllStored(k) /\ Marked(k)
  BY <1>1, <1>4 DEF Midway
<1>9. Midway(k)'
  BY <1>1, <1>6, <1>7, <1>8
     DEF Midway, AllAccepted, AllStored, Marked, Has, HasRow, ComplianceSaw, AlertSaw
<1> QED BY <1>1, <1>4, <1>9

\* Every step of the script keeps the evidence.
LEMMA EvidenceStep ==
  ASSUME Script, EvidenceInv, VerifyStep, UNCHANGED theRest
  PROVE  EvidenceInv'
<1>1. Watching /\ fails \subseteq fails' /\ plan' = plan
  BY DEF Watching, VerifyStep, Look, StartPosting, Post, PostReturns, Posted, Sleep,
         dynamo_get_with_retry, Dies, Evaluate, RunProbe, EndCheck, Exit,
         check_service_health, check_queue_status, check_audit_trail, Fails,
         sqs_depth, cw_has_log
<1>2. /\ UNCHANGED <<reply, status, attrs, judged, alerts, objects, denied>>
      /\ at \in Nat /\ Len(plan) \in Nat
  BY <1>1, CheckIsWellFormed DEF Watching, theRest, flowVars, rowVars, auditVars
<1>3. fails' = {} /\ at <= Len(plan) => fails = {} /\ Midway(plan[at])
  BY <1>1 DEF EvidenceInv
<1> DEFINE k == plan[at]
<1>4. CASE Look
  <2>1. at <= Len(plan) /\ at' = at + 1 /\ step' = "check" /\ k \in {"health", "queues", "audit"}
    BY <1>4 DEF Look, check_service_health, check_queue_status, check_audit_trail, NextCheck, current
  <2>2. k = "audit" /\ fails' = {} => objects # <<>>
    BY <1>4 DEF Look, check_service_health, check_queue_status, check_audit_trail, Fails, current
  <2>3. fails' = {} => Passed(k)
    BY <2>1, <2>2 DEF Passed, Posting
  <2> QED BY <1>1, <2>1, <2>3, CheckPasses
<1>5. CASE StartPosting \/ Post
  <2>1. at' = at
    BY <1>5 DEF StartPosting, Post
  <2>2. PICK c : c = k
    OBVIOUS
  <2>3. ASSUME fails' = {}, at <= Len(plan) PROVE Midway(c)'
    <3>1. CASE StartPosting
      <4>1. current \in Posting /\ step' = "post" /\ left' = CheckTxs[current] /\ current' = current
        BY <1>1, <2>1, <3>1 DEF StartPosting, current
      <4>2. Gone' = {}
        <5>1. Len(CheckTxs[current]) - Len(left') = 0
          BY <4>1, CheckIsWellFormed
        <5> QED BY <4>1, <5>1 DEF Gone
      <4> QED BY <4>1, <4>2 DEF Midway
    <3>2. CASE Post
      <4>1. step = "post" /\ step' = "sent" /\ Gone' = Gone
        BY <1>1, <3>2 DEF Post, Gone, current
      <4> QED BY <1>2, <1>3, <2>2, <2>3, <4>1 DEF Midway
    <3> QED BY <1>5, <3>1, <3>2
  <2>4. fails' = {} /\ at <= Len(plan) => Midway(plan[at])'
    BY <1>1, <2>1, <2>2, <2>3
  <2> QED BY <1>1, <2>1, <2>4, CheckGoesOn
<1>6. CASE PostReturns
  <2>1. /\ at' = at /\ step = "sent" /\ step' = "post" /\ left' = Tail(left) /\ current' = current
        /\ left # <<>>
    BY <1>1, <1>6 DEF PostReturns, current, Script
  <2>2. PICK c : c = k
    OBVIOUS
  <2>3. ASSUME fails' = {}, at <= Len(plan) PROVE Midway(c)'
    <3>1. /\ CheckTxs[c] \in Seq(Txs) /\ left \in Seq(Txs) /\ IsRest(left, CheckTxs[c]) /\ c = current
      BY <2>1, <2>2, CheckIsWellFormed DEF Script, current
    <3> DEFINE n == Len(CheckTxs[c]) - Len(left)
    <3>2. /\ Len(CheckTxs[c]) - Len(Tail(left)) = n + 1 /\ n \in Nat
          /\ Head(left) = CheckTxs[c][n + 1]
      <4>1. Len(left) <= Len(CheckTxs[c])
        BY <3>1 DEF IsRest
      <4> QED BY <2>1, <3>1, <4>1, TailIsRest
    <3>3. reply[Head(left)] = "202"
      BY <1>6, <2>3 DEF PostReturns, Fails
    <3>4. \A i \in 1..n : reply[CheckTxs[c][i]] = "202"
      BY <1>3, <2>1, <2>2, <2>3, <3>1 DEF Midway, Gone
    <3>5. Gone' = 1..n + 1
      BY <2>1, <3>1, <3>2 DEF Gone
    <3> HIDE DEF n
    <3>6. ASSUME NEW i \in 1..n + 1 PROVE reply'[CheckTxs[c][i]] = "202"
      <4>1. CASE i = n + 1 BY <1>2, <3>2, <3>3, <4>1
      <4>2. CASE i # n + 1 BY <1>2, <3>2, <3>4, <4>2
      <4> QED BY <4>1, <4>2
    <3> QED BY <2>1, <3>5, <3>6 DEF Midway
  <2>4. fails' = {} /\ at <= Len(plan) => Midway(plan[at])'
    BY <1>1, <2>1, <2>2, <2>3
  <2> QED BY <1>1, <2>1, <2>4, CheckGoesOn
<1>7. CASE Posted
  <2>1. PICK c : c = k
    OBVIOUS
  <2>2. /\ step = "post" /\ left = <<>> /\ Len(left) = 0 /\ fails' = fails
        /\ at <= Len(plan) /\ c = current /\ Len(CheckTxs[c]) \in Nat
    BY <1>7, <2>1, CheckIsWellFormed DEF Posted, Script, current
  <2>3. CASE <<current, "POST">> \in fails
    <3>1. at' = at + 1 /\ step' = "check" /\ fails' # {}
      BY <1>7, <2>2, <2>3 DEF Posted, NextCheck
    <3> QED BY <1>1, <2>2, <3>1, CheckPasses
  <2>4. CASE <<current, "POST">> \notin fails
    <3>1. at' = at /\ step' = "wait"
      BY <1>7, <2>4 DEF Posted
    <3>2. Gone = 1..Len(CheckTxs[c])
      BY <2>2 DEF Gone
    <3>3. fails' = {} => Midway(c)'
      BY <1>2, <1>3, <2>1, <2>2, <3>1, <3>2 DEF Midway, AllAccepted
    <3> QED BY <1>1, <2>1, <3>1, <3>3, CheckGoesOn
  <2> QED BY <2>3, <2>4
<1>8. CASE Sleep
  <2>1. PICK c : c = k
    OBVIOUS
  <2>2. /\ step = "wait" /\ step' = "fetch" /\ left' = CheckTxs[current] /\ at' = at
        /\ rows' = {} /\ c = current /\ current' = current /\ Len(CheckTxs[c]) \in Nat
    BY <1>1, <1>8, <2>1, CheckIsWellFormed DEF Sleep, Script, current
  <2>3. RowsRead'
    <3>1. Len(CheckTxs[c]) - Len(left') = 0 /\ 1..0 = {}
      BY <2>2
    <3>2. IsFiniteSet({}) /\ Cardinality({}) = 0
      BY FS_EmptySet
    <3> QED BY <2>2, <3>1, <3>2 DEF RowsRead, Gone
  <2>4. fails' = {} /\ at <= Len(plan) => Midway(c)'
    BY <1>2, <1>3, <2>1, <2>2, <2>3 DEF Midway, AllAccepted
  <2> QED BY <1>1, <2>1, <2>2, <2>4, CheckGoesOn
<1>9. CASE dynamo_get_with_retry
  <2>1. PICK c : c = k
    OBVIOUS
  <2>2. step = "fetch" /\ step' = "fetch" /\ at' = at
    BY <1>9 DEF dynamo_get_with_retry
  <2>3. fails' = {} /\ at <= Len(plan) => RowsRead'
    BY <1>1, <1>3, <1>9, <2>2, ReadKeepsRows DEF Midway
  <2>4. fails' = {} /\ at <= Len(plan) => Midway(c)'
    BY <1>2, <1>3, <2>1, <2>2, <2>3 DEF Midway, AllAccepted
  <2> QED BY <1>1, <2>1, <2>2, <2>4, CheckGoesOn
<1>10. CASE Evaluate
  <2>1. at <= Len(plan)
    BY <1>10 DEF Evaluate, Script
  <2>2. fails' = {} => at' = at /\ Midway(plan[at])'
    BY <1>1, <1>3, <1>10, <2>1, EvaluateSees
  <2>3. at' = at \/ (at' = at + 1 /\ step' = "check")
    BY <1>10 DEF Evaluate, NextCheck
  <2>4. CASE at' = at
    BY <1>1, <2>2, <2>4, CheckGoesOn
  <2>5. CASE at' = at + 1 /\ step' = "check"
    <3>1. fails' # {}
      BY <1>2, <2>2, <2>5
    <3> QED BY <1>1, <2>1, <2>5, <3>1, CheckPasses
  <2> QED BY <2>3, <2>4, <2>5
<1>11. CASE RunProbe
  <2>1. at' = at
    BY <1>11 DEF RunProbe
  <2>2. fails' = {} /\ at <= Len(plan) => Midway(plan[at])'
    BY <1>1, <1>3, <1>11, ProbeSees
  <2> QED BY <1>1, <2>1, <2>2, CheckGoesOn
<1>12. CASE EndCheck
  <2>1. /\ step = "probe" /\ probes = <<>> /\ at' = at + 1 /\ step' = "check" /\ at <= Len(plan)
    BY <1>12 DEF EndCheck, NextCheck, Script
  <2>2. \A s : ~LogProbe(s)
    BY <2>1 DEF LogProbe
  <2>3. fails' = {} => Passed(k)
    <3> SUFFICES ASSUME fails' = {} PROVE Passed(k)
      OBVIOUS
    <3>1. k \in Posting
      BY <2>1 DEF Script
    <3> QED BY <1>3, <2>1, <2>2, <3>1 DEF Midway, Passed, Posting
  <2> QED BY <1>1, <2>1, <2>3, CheckPasses
<1>13. CASE Dies \/ Exit
  <2>1. at' = at /\ step' \in {"died", "exit0", "exit1"}
    BY <1>13 DEF Dies, Exit
  <2>2. PICK c : c = k
    OBVIOUS
  <2>3. Midway(c)'
    BY <2>1 DEF Midway
  <2> QED BY <1>1, <2>1, <2>2, <2>3, CheckGoesOn
<1> QED BY <1>4, <1>5, <1>6, <1>7, <1>8, <1>9, <1>10, <1>11, <1>12, <1>13 DEF VerifyStep

\* No check is done when the script begins.
LEMMA EvidenceInit == Init => EvidenceInv
<1> SUFFICES ASSUME Init PROVE EvidenceInv
  OBVIOUS
<1>1. PICK p \in Plans : VerifyInit(p)
  BY DEF Init
<1>2. at = 1 /\ step = "check" /\ 1..at - 1 = {}
  BY <1>1 DEF VerifyInit
<1>3. PICK k : k = plan[at]
  OBVIOUS
<1>4. Midway(k)
  BY <1>2 DEF Midway
<1> QED BY <1>2, <1>3, <1>4 DEF EvidenceInv


-----------------------------------------------------------------------------
(* One tool, and the deployment.                                           *)

\* The deployment moves or one tool does; a tool leaves it as it is, except for
\* what it sends.
LEMMA OneMoves ==
  ASSUME [Next]_vars
  PROVE  /\ DeploymentNext \/ UNCHANGED theRest
         /\ (VerifyStep /\ UNCHANGED theRest) \/ UNCHANGED verifyVars
         /\ (ReconcileStep /\ UNCHANGED theRest) \/ UNCHANGED reconcileVars
         /\ (CascadeStep /\ UNCHANGED theRest) \/ UNCHANGED cascadeVars
         /\ (ViewStep /\ UNCHANGED theRest) \/ UNCHANGED viewVars
         /\ LoadStep \/ UNCHANGED loadVars
         /\ (\E r \in Chaos : ChaosStep(r)) \/ UNCHANGED chaosVars
         /\ UNCHANGED tool
         /\ \/ UNCHANGED posted \/ DeploymentNext
            \/ tool = "verify" /\ VerifyStep
            \/ tool = "reconcile" /\ ReconcileStep
            \/ tool = "cascade" /\ CascadeStep
            \/ tool = "views" /\ ViewStep
<1>1. CASE Moves
  BY <1>1 DEF Moves, others
<1>2. CASE Verifies
  BY <1>2 DEF Verifies, others
<1>3. CASE Reconciles
  BY <1>3 DEF Reconciles, others
<1>4. CASE Reports
  BY <1>4 DEF Reports, others
<1>5. CASE Views
  BY <1>5 DEF Views, others
<1>6. CASE Loads
  BY <1>6 DEF Loads, others, deploymentVars, theRest
<1>7. CASE Injects
  BY <1>7 DEF Injects, others, deploymentVars, theRest
<1>8. CASE UNCHANGED vars
  BY <1>8 DEF vars, deploymentVars, theRest
<1> QED BY <1>1, <1>2, <1>3, <1>4, <1>5, <1>6, <1>7, <1>8 DEF Next

\* Where the load of audit_test.py is.
CsvRow == [tx : Txs, status : {"202", "failed"}, ids : BOOLEAN]

\* The load: the users in flight have claimed their numbers, and a line of the file
\* that says 202 is about a transaction that was accepted.
Submission ==
  /\ unclaimed \in 1..Len(AuditTxs) + 1 /\ inFlight \subseteq 1..unclaimed - 1
  /\ Cardinality(inFlight) <= LoadUsers
  /\ csv \in Seq(CsvRow)
  /\ \A i \in DOMAIN csv : csv[i].status = "202" => reply[csv[i].tx] = "202"

\* Nobody has claimed a number, and the file is empty, at first.
LEMMA SubmissionInit == Init => Submission
<1> SUFFICES ASSUME Init PROVE Submission
  OBVIOUS
<1>1. inFlight = {} /\ unclaimed = 1 /\ csv = <<>>
  BY DEF Init, ReconcileInit
<1>2. /\ <<>> \in Seq(CsvRow) /\ DOMAIN <<>> = {} /\ Len(AuditTxs) \in Nat
      /\ LoadUsers \in Nat /\ Cardinality({}) = 0
  BY ReconcileAssumption, FS_EmptySet
<1> QED BY <1>1, <1>2 DEF Submission

\* The numbers in flight are finitely many.
LEMMA InFlightCounted ==
  ASSUME Submission
  PROVE  /\ IsFiniteSet(inFlight) /\ Cardinality(inFlight) \in Nat
         /\ Len(AuditTxs) \in Nat /\ unclaimed \in Nat /\ unclaimed \notin inFlight
         /\ \A n \in inFlight : n \in 1..Len(AuditTxs) /\ AuditTxs[n] \in Txs
<1>1. Len(AuditTxs) \in Nat /\ \A n \in 1..Len(AuditTxs) : AuditTxs[n] \in Txs
  BY ReconcileAssumption
<1>2. unclaimed \in Nat /\ unclaimed - 1 \in 0..Len(AuditTxs) /\ inFlight \subseteq 1..unclaimed - 1
  BY <1>1 DEF Submission
<1>3. IsFiniteSet(1..unclaimed - 1)
  BY <1>2, FS_Interval
<1>4. IsFiniteSet(inFlight) /\ Cardinality(inFlight) \in Nat
  BY <1>2, <1>3, FS_Subset, FS_CardinalityType
<1>5. unclaimed \notin inFlight /\ \A n \in inFlight : n \in 1..Len(AuditTxs)
  BY <1>1, <1>2
<1> QED BY <1>1, <1>2, <1>4, <1>5

\* Claiming a number, sending its transaction and writing its line keep the load.
LEMMA SubmissionStep ==
  ASSUME DeploymentTypeOK, Submission,
         (ReconcileStep /\ UNCHANGED theRest) \/ (UNCHANGED reconcileVars /\ Onward)
  PROVE  Submission'
<1>1. CASE UNCHANGED reconcileVars /\ Onward
  <2>1. \A i \in DOMAIN csv : csv[i].tx \in Txs
    <3>1. \A i \in DOMAIN csv : csv[i] \in CsvRow
      BY DEF Submission
    <3>2. \A row \in CsvRow : row.tx \in Txs
      BY DEF CsvRow
    <3> QED BY <3>1, <3>2
  <2>2. UNCHANGED <<inFlight, unclaimed, csv>>
    BY <1>1 DEF reconcileVars, loadingVars
  <2> QED BY <1>1, <2>1, <2>2 DEF Submission, Onward
<1>2. ASSUME UNCHANGED theRest, NEW n \in inFlight, write_row(n) PROVE Submission'
  <2> DEFINE x == AuditTxs[n]
  <2>1. x \in Txs /\ Len(csv) \in Nat
    BY InFlightCounted DEF Submission
  <2>2. PICK r \in {reply[x], "failed"} \ {"none"}, ids \in BOOLEAN :
          csv' = Append(csv, [tx |-> x, status |-> r, ids |-> ids /\ r = "202"])
    BY <1>2 DEF write_row
  <2>3. r \in {"202", "failed"} /\ (r = "202" => reply[x] = "202")
    <3> HIDE DEF x
    <3>1. reply[x] \in {"none", "202", "failed"} /\ r \in {reply[x], "failed"} \ {"none"}
      BY <2>1, <2>2 DEF DeploymentTypeOK
    <3> QED BY <3>1
  <2>4. PICK row \in CsvRow : csv' = Append(csv, row) /\ row.tx = x /\ row.status = r
    <3> HIDE DEF x
    <3>1. PICK b \in BOOLEAN : b = (ids /\ r = "202")
      BY Zenon
    <3>2. csv' = Append(csv, [tx |-> x, status |-> r, ids |-> b])
      BY <2>2, <3>1, Zenon
    <3>3. [tx |-> x, status |-> r, ids |-> b] \in CsvRow
      BY <2>1, <2>3 DEF CsvRow
    <3> QED BY <3>2, <3>3
  <2> HIDE DEF x
  <2>5. /\ csv' \in Seq(CsvRow) /\ csv'[Len(csv) + 1] = row
        /\ DOMAIN csv' = 1..Len(csv) + 1 /\ DOMAIN csv = 1..Len(csv)
        /\ \A i \in 1..Len(csv) : csv'[i] = csv[i]
    BY <2>4 DEF Submission
  <2>6. reply' = reply /\ inFlight' = inFlight \ {n} /\ unclaimed' = unclaimed
    BY <1>2 DEF write_row, theRest, flowVars
  <2>7. ASSUME NEW i \in DOMAIN csv', csv'[i].status = "202" PROVE reply'[csv'[i].tx] = "202"
    <3>1. CASE i = Len(csv) + 1
      BY <2>2, <2>3, <2>4, <2>5, <2>6, <2>7, <3>1
    <3>2. CASE i # Len(csv) + 1
      <4>1. i \in 1..Len(csv)
        BY <2>1, <2>5, <3>2
      <4> QED BY <2>5, <2>6, <2>7, <4>1 DEF Submission
    <3> QED BY <3>1, <3>2
  <2>8. Cardinality(inFlight') <= LoadUsers
    <3>1. IsFiniteSet(inFlight) /\ Cardinality(inFlight) \in Nat
      BY InFlightCounted
    <3>2. Cardinality(inFlight \ {n}) = Cardinality(inFlight) - 1
      BY <3>1, FS_RemoveElement
    <3>3. Cardinality(inFlight) <= LoadUsers /\ LoadUsers \in Nat
      BY ReconcileAssumption DEF Submission
    <3> QED BY <2>6, <3>1, <3>2, <3>3
  <2> QED BY <2>5, <2>6, <2>7, <2>8 DEF Submission
<1>3. CASE submit_audit_transaction /\ UNCHANGED theRest
  <2>1. /\ inFlight' = inFlight \cup {unclaimed} /\ unclaimed' = unclaimed + 1
        /\ UNCHANGED <<csv, reply>> /\ Idle /\ unclaimed <= Len(AuditTxs)
    BY <1>3 DEF submit_audit_transaction, theRest, flowVars
  <2>2. /\ IsFiniteSet(inFlight) /\ Cardinality(inFlight) \in Nat /\ Len(AuditTxs) \in Nat
        /\ unclaimed \in Nat /\ unclaimed \notin inFlight
    BY InFlightCounted
  <2>3. Cardinality(inFlight \cup {unclaimed}) = Cardinality(inFlight) + 1
    BY <2>2, FS_AddElement
  <2>4. Cardinality(inFlight) < LoadUsers /\ LoadUsers \in Nat
    BY <2>1, ReconcileAssumption DEF Idle
  <2>5. unclaimed' \in 1..Len(AuditTxs) + 1 /\ inFlight' \subseteq 1..unclaimed' - 1
    BY <2>1, <2>2 DEF Submission
  <2> QED BY <2>1, <2>2, <2>3, <2>4, <2>5 DEF Submission
<1>4. CASE UNCHANGED <<inFlight, unclaimed, csv>> /\ UNCHANGED theRest
  BY <1>4 DEF Submission, theRest, flowVars
<1>5. ReconcileStep => \/ \E n \in inFlight : write_row(n)
                       \/ submit_audit_transaction
                       \/ UNCHANGED <<inFlight, unclaimed, csv>>
  BY DEF ReconcileStep, quit, read_csv, check_dynamo, RowsDone, loadingVars,
         count_s3_audit_entries, check_dlqs, DlqsDone, scan_duplicates, ReadRaises, print_report
<1> QED BY <1>1, <1>2, <1>3, <1>4, <1>5

\* What everything else rests on.
BaseInv == DeploymentTypeOK /\ FlowInv /\ Script /\ Submission

\* The initial states satisfy the invariant of the deployment and the scripts.
LEMMA BaseInit == Init => BaseInv
BY DeploymentStart, ScriptInit, SubmissionInit DEF BaseInv

\* What is sent is up to the tools.
LEMMA DeploymentSendsNothing == DeploymentNext => UNCHANGED posted
<1>1. ASSUME NEW x \in Txs, NEW s \in subscribed, NEW wrote \in BOOLEAN, NEW done \in BOOLEAN
      PROVE  Attempt(x, s, wrote, done) \/ Settles(x, s) \/ Reviews(x, s) => UNCHANGED posted
  BY DEF Attempt, Settles, Reviews
<1>2. /\ \A x \in Txs : Serve(x) \/ Dispatch(x) => UNCHANGED posted
      /\ \A t \in Tasks : Stops(t) \/ Restarts(t) => UNCHANGED posted
      /\ Flush => UNCHANGED posted
  BY DEF Serve, Dispatch, Flush, Stops, Restarts, SetTask
<1> QED BY <1>1, <1>2 DEF DeploymentNext

\* Every step keeps BaseInv, and takes nothing back in the deployment.
LEMMA BaseStep == ASSUME BaseInv, [Next]_vars PROVE BaseInv' /\ Onward
<1> USE DEF BaseInv
<1>1. DeploymentTypeOK' /\ FlowInv' /\ Onward
  <2>1. CASE DeploymentNext
    BY <2>1, DeploymentGoesOn
  <2>2. CASE UNCHANGED theRest
    <3>1. posted \subseteq posted' /\ posted' \subseteq Txs
      <4>0. posted \subseteq Txs
        BY DEF DeploymentTypeOK
      <4>1. CASE UNCHANGED posted
        BY <4>0, <4>1
      <4>2. CASE VerifyStep
        <5>1. UNCHANGED posted \/ (left # <<>> /\ posted' = posted \cup {Head(left)})
          BY <4>2 DEF VerifyStep, Look, StartPosting, Post, PostReturns, Posted, Sleep,
             dynamo_get_with_retry, Dies, Evaluate, RunProbe, EndCheck, Exit,
             check_service_health, check_queue_status, check_audit_trail
        <5>2. left # <<>> => Head(left) \in Txs
          BY DEF Script
        <5> QED BY <4>0, <5>1, <5>2
      <4>3. CASE ReconcileStep
        <5>1. \/ UNCHANGED posted
              \/ unclaimed <= Len(AuditTxs) /\ posted' = posted \cup {AuditTxs[unclaimed]}
          BY <4>3 DEF ReconcileStep, submit_audit_transaction, write_row, quit, read_csv, check_dynamo, RowsDone,
             count_s3_audit_entries, check_dlqs, DlqsDone, scan_duplicates, ReadRaises, print_report
        <5>2. unclaimed <= Len(AuditTxs) => AuditTxs[unclaimed] \in Txs
          BY ReconcileAssumption DEF Submission
        <5> QED BY <4>0, <5>1, <5>2
      <4>4. CASE CascadeStep
        <5>1. UNCHANGED posted \/ \E x \in Experiments : posted' = posted \cup {x}
          BY <4>4 DEF CascadeStep, Experiment, RowsBegin, ObjectsBegin, check_ecs, check_queues, count_dynamo, count_s3,
                      run_report, ReadFails
        <5> QED BY <4>0, <5>1, CascadeAssumption
      <4>5. CASE ViewStep
        <5>1. UNCHANGED posted \/ \E x \in Traffic : posted' = posted \cup {x}
          BY <4>5 DEF ViewStep, Ask, ScanPage, ViewFails, DescribeServices, AddDepth, Reply, Arrives
        <5> QED BY <4>0, <5>1, DashboardAssumption
      <4>6. CASE DeploymentNext
        <5>3. UNCHANGED posted
          BY <4>6, DeploymentSendsNothing
        <5> QED BY <4>0, <5>3
      <4> QED BY <4>1, <4>2, <4>3, <4>4, <4>5, <4>6, OneMoves
    <3> QED BY <2>2, <3>1, SendingGoesOn
  <2> QED BY <2>1, <2>2, OneMoves
<1>2. Script'
  <2>1. CASE VerifyStep BY <2>1, ScriptStep
  <2>2. CASE UNCHANGED verifyVars BY <2>2 DEF Script, verifyVars, current
  <2> QED BY <2>1, <2>2, OneMoves
<1>3. Submission'
  <2>1. (ReconcileStep /\ UNCHANGED theRest) \/ (UNCHANGED reconcileVars /\ Onward)
    BY <1>1, OneMoves
  <2> QED BY <2>1, SubmissionStep
<1> QED BY <1>1, <1>2, <1>3

\* Nothing that a verdict rests on is taken back, by any step of the deployment or of
\* a tool: not a reply, a row, an id, a log line, a dispatched alert or the last
\* object, and a message whose reply is out only goes on from its queue.
THEOREM NothingIsTakenBack == Spec => [][Onward]_vars
<1>1. BaseInv /\ [Next]_vars => BaseInv' /\ Onward
  BY BaseStep
<1> QED BY <1>1, BaseInit, PTL DEF Spec

\* Exit code 0 of verify_system.py means what its checks say, for any list of
\* checks, any transactions and any way the deployment moves between two calls
\* of the script, with whatever goes wrong in it (main, and the verify_ functions).
THEOREM ExitZeroTells == Spec => []ExitZeroIsTrue
<1> DEFINE IInv == BaseInv /\ EvidenceInv
<1>1. Init => IInv
  BY BaseInit, EvidenceInit
<1>2. IInv /\ [Next]_vars => IInv'
  <2> SUFFICES ASSUME IInv, [Next]_vars PROVE IInv'
    OBVIOUS
  <2>1. BaseInv' /\ Onward
    BY BaseStep
  <2>2. CASE VerifyStep /\ UNCHANGED theRest
    BY <2>1, <2>2, EvidenceStep DEF BaseInv
  <2>3. CASE UNCHANGED verifyVars
    BY <2>1, <2>3, EvidenceStays DEF BaseInv
  <2> QED BY <2>2, <2>3, OneMoves
<1>3. IInv => ExitZeroIsTrue
  <2> SUFFICES ASSUME IInv, step = "exit0" PROVE ExitZeroIsTrue
    BY DEF ExitZeroIsTrue
  <2>1. /\ at > Len(plan) /\ fails = {} /\ Len(plan) \in Nat /\ at \in Nat
        /\ \A i \in 1..at - 1 : Passed(plan[i])
    BY CheckIsWellFormed DEF Script, EvidenceInv, BaseInv
  <2>2. ASSUME NEW k, Ran(k) PROVE Passed(k)
    BY <2>1, <2>2 DEF Ran
  <2>3. ASSUME NEW k \in Posting, Ran(k), NEW i \in 1..Len(CheckTxs[k])
        PROVE  HasRow(CheckTxs[k][i]) /\ reply[CheckTxs[k][i]] = "202"
    BY <2>2, <2>3 DEF Passed, AllAccepted, AllStored
  <2>4. /\ \A k \in {"high", "fraud"} : Ran(k) => Has(k, "alert_id")
        /\ Ran("risk") => Has("risk", "breach_id")
    BY <2>2 DEF Passed, Marked, Posting
  <2>5. /\ Ran("high") => ComplianceSaw
        /\ Ran("fraud") => AlertSaw
        /\ Ran("audit") => objects # <<>>
    BY <2>2 DEF Passed
  <2> QED BY <2>3, <2>4, <2>5 DEF ExitZeroIsTrue, ComplianceSaw, AlertSaw
<1> HIDE DEF IInv
<1> QED BY <1>1, <1>2, <1>3, PTL DEF Spec

-----------------------------------------------------------------------------
(* cascade_report.py.                                                      *)

\* When everything has been dealt with, the deployment adds no row and no object.
LEMMA RestStays ==
  ASSUME DeploymentTypeOK, FlowInv, AtRest, UNCHANGED posted, DeploymentNext \/ UNCHANGED theRest
  PROVE  AtRest' /\ objects' = objects /\ \A x \in Txs : HasRow(x)' <=> HasRow(x)
<1>1. \A x \in Txs : /\ "queued" \notin alerts[x]
                     /\ \A s \in Services : q[x][s] # "queue"
                     /\ x \in posted => reply[x] # "none"
  BY DEF AtRest, FlowInv
<1>2. CASE UNCHANGED theRest
  BY <1>2 DEF theRest, flowVars, auditVars, AtRest, HasRow
<1>3. ASSUME DeploymentNext
      PROVE  /\ UNCHANGED <<reply, alerts, buffer, objects>>
             /\ \A x \in Txs : HasRow(x)' <=> HasRow(x)
  <2>1. /\ \A x \in Txs : ~Serve(x) /\ ~Dispatch(x)
        /\ \A x \in Txs, s \in subscribed, wrote, done \in BOOLEAN : ~Attempt(x, s, wrote, done)
        /\ ~Flush
    <3>1. \A x \in Txs : ~Serve(x) /\ ~Dispatch(x)
      BY <1>1 DEF Serve, Write, Accept, Refuse, Replies, Dispatch
    <3>2. subscribed \subseteq Services
      BY DEF DeploymentTypeOK
    <3>3. ASSUME NEW x \in Txs, NEW s \in subscribed, NEW wrote, NEW done, Attempt(x, s, wrote, done)
          PROVE  FALSE
      BY <1>1, <3>2, <3>3 DEF Attempt, Handle
    <3> QED BY <3>1, <3>3 DEF Flush, AtRest
  <2>2. ASSUME NEW x \in Txs, NEW s \in subscribed, Settles(x, s) \/ Reviews(x, s)
        PROVE  /\ UNCHANGED <<reply, alerts, buffer, objects>>
               /\ \A y \in Txs : status'[y] # "none" <=> status[y] # "none"
    <3>1. s \in Services
      BY DEF DeploymentTypeOK
    <3>2. UNCHANGED <<reply, alerts, buffer, objects>>
      BY <2>2 DEF Settles, Reviews, Delete, DeadLetter, Review, auditVars
    <3>3. UNCHANGED status \/ (q[x][s] = "dlq" /\ status' = [status EXCEPT ![x] = "pending_manual_review"])
      BY <2>2 DEF Settles, Reviews, Delete, DeadLetter, Review
    <3>4. q[x][s] = "dlq" => status[x] # "none"
      BY <3>1 DEF FlowInv, HasRow
    <3> QED BY <3>2, <3>3, <3>4 DEF DeploymentTypeOK
  <2>3. ASSUME NEW t \in Tasks, Stops(t) \/ Restarts(t)
        PROVE  UNCHANGED <<reply, alerts, buffer, objects, status>>
    BY <2>3 DEF Stops, Restarts, SetTask, auditVars, flowVars
  <2> QED BY <1>3, <2>1, <2>2, <2>3 DEF DeploymentNext, HasRow
<1>4. CASE DeploymentNext
  <2>1. Onward
    BY <1>4, DeploymentGoesOn
  <2>2. ASSUME NEW x \in Txs, x \in posted, NEW s \in Services PROVE q'[x][s] # "queue"
    <3>1. reply[x] # "none" /\ q[x][s] # "queue"
      BY <1>1, <2>2
    <3>2. q'[x][s] = q[x][s] \/ q'[x][s] \in {"dlq", "deleted"}
      BY <2>1, <3>1 DEF Onward
    <3> QED BY <3>1, <3>2
  <2>3. posted \subseteq Txs
    BY DEF DeploymentTypeOK
  <2>4. \A x \in posted : "queued" \notin alerts[x] /\ reply[x] # "none"
    BY <1>1, <2>3
  <2> QED BY <1>3, <1>4, <2>2, <2>3, <2>4 DEF AtRest
<1> QED BY <1>2, <1>4

\* The transactions that have a row.
Stored == {x \in Txs : HasRow(x)}

\* What the report warns of.
WarnsOfLetters == "dead letters" \in says
WarnsOfObjects == "more objects" \in says
WarnsOfMissing == "not in S3" \in says

\* One of the reasons for fewer objects than rows.
Explained ==
  \/ unaccounted # {}
  \/ \E i \in Listed : Cardinality(objects[i]) > 1
  \/ \E i \in 1..olderObjects : ~(objects[i] \subseteq older)

\* What the report knows.  It warns only of dead letters that it has counted, and of
\* fewer objects than rows only for a reason that it has met; and what it has
\* counted when nothing was being worked on is still so.
ReportInv ==
  /\ section # "start" => tool = "cascade"
  /\ section = "start" => says = {} /\ ~quiet
  /\ says # {} => section = "end"
  /\ deadLetters \in Nat /\ (deadLetters > 0 => \E x \in Txs : "dlq" \in alerts[x])
  /\ WarnsOfLetters => deadLetters > 0
  /\ olderObjects \in 0..Len(objects) /\ unaccounted \subseteq Txs
  /\ section = "s3" => unaccounted \cap older = {} /\ stored \in {Cardinality(unaccounted), -1}
  /\ section = "discrepancy" /\ listed >= 0 /\ stored > listed => Explained
  /\ WarnsOfMissing => Explained
  /\ section # "start" /\ quiet =>
       /\ AtRest
       /\ section \in {"s3", "discrepancy"} => stored \in {Cardinality(InWindow), -1}
       /\ section = "discrepancy" => listed \in {Len(objects) - olderObjects, -1}
       /\ WarnsOfObjects => /\ Cardinality(InWindow) < Len(objects) - olderObjects
                            /\ listed = Len(objects) - olderObjects

\* The alerts in a place are finitely many.
LEMMA AlertsCounted ==
  ASSUME NEW where
  PROVE  AlertsIn(where) \in Nat /\ (AlertsIn(where) > 0 <=> \E x \in Txs : where \in alerts[x])
<1> DEFINE A == {x \in Txs : where \in alerts[x]}
<1>1. IsFiniteSet(A)
  BY FS_Subset, DeploymentAssumption
<1>2. Cardinality(A) \in Nat /\ (Cardinality(A) = 0 <=> A = {})
  BY <1>1, FS_CardinalityType, FS_EmptySet
<1> QED BY <1>2 DEF AlertsIn

\* The rows are finitely many, and so are those in the window.
LEMMA StoredCounted ==
  /\ IsFiniteSet(Stored) /\ Cardinality(Stored) \in Nat
  /\ InWindow = Stored \ older /\ IsFiniteSet(InWindow) /\ Cardinality(InWindow) \in Nat
<1>1. InWindow = Stored \ older /\ InWindow \subseteq Txs /\ Stored \subseteq Txs
  BY DEF InWindow, Stored
<1> QED BY <1>1, FS_Subset, FS_CardinalityType, DeploymentAssumption

\* Two members make a set larger than one.
LEMMA TwoAreMore ==
  ASSUME NEW S, IsFiniteSet(S), NEW a \in S, NEW b \in S, a # b
  PROVE  Cardinality(S) > 1
<1>1. IsFiniteSet({a}) /\ Cardinality({a}) = 1
  BY FS_Singleton
<1>2. Cardinality({a} \cup {b}) = 2
  BY <1>1, FS_AddElement
<1>3. {a} \cup {b} \subseteq S
  OBVIOUS
<1>4. Cardinality({a} \cup {b}) <= Cardinality(S)
  BY <1>3, FS_Subset
<1>5. Cardinality(S) \in Nat
  BY FS_CardinalityType
<1> QED BY <1>2, <1>4, <1>5

\* Objects are only added, at the end of the bucket.
LEMMA ObjectsGrow ==
  ASSUME DeploymentTypeOK, DeploymentNext \/ UNCHANGED theRest
  PROVE  /\ Len(objects) \in Nat /\ Len(objects') \in Nat /\ Len(objects) <= Len(objects')
         /\ DOMAIN objects = 1..Len(objects) /\ DOMAIN objects' = 1..Len(objects')
         /\ \A i \in 1..Len(objects) : objects'[i] = objects[i]
<1>1. objects \in Seq(SUBSET Txs) /\ buffer \in SUBSET Txs
  BY DEF DeploymentTypeOK
<1>2. objects' = objects \/ objects' = Append(objects, buffer)
  <2>1. CASE UNCHANGED theRest
    BY <2>1 DEF theRest, auditVars
  <2>2. CASE Flush
    BY <2>2 DEF Flush
  <2>3. ASSUME NEW x \in Txs, Serve(x) \/ Dispatch(x) PROVE UNCHANGED objects
    BY <2>3 DEF Serve, Dispatch, auditVars
  <2>4. ASSUME NEW x \in Txs, NEW s \in subscribed, NEW wrote \in BOOLEAN, NEW done \in BOOLEAN,
               Attempt(x, s, wrote, done)
        PROVE  UNCHANGED objects
    BY <2>4 DEF Attempt
  <2>5. ASSUME NEW x \in Txs, NEW s \in subscribed, Settles(x, s) \/ Reviews(x, s)
        PROVE  UNCHANGED objects
    BY <2>5 DEF Settles, Reviews, auditVars
  <2>6. ASSUME NEW t \in Tasks, Stops(t) \/ Restarts(t) PROVE UNCHANGED objects
    BY <2>6 DEF Stops, Restarts, SetTask, auditVars
  <2> QED BY <2>1, <2>2, <2>3, <2>4, <2>5, <2>6 DEF DeploymentNext
<1> QED BY <1>1, <1>2

\* A reason stays one.
LEMMA ExplainedStays ==
  ASSUME DeploymentTypeOK, DeploymentNext \/ UNCHANGED theRest,
         UNCHANGED <<unaccounted, older, olderObjects, listed>>,
         olderObjects \in 0..Len(objects), Explained
  PROVE  Explained'
<1> USE ObjectsGrow
<1>1. ASSUME NEW i \in Listed PROVE i \in Listed' /\ objects'[i] = objects[i]
  BY <1>1 DEF Listed
<1>2. ASSUME NEW i \in 1..olderObjects PROVE objects'[i] = objects[i]
  <2>1. i \in 1..Len(objects)
    OBVIOUS
  <2> QED BY <2>1
<1>3. CASE unaccounted # {}
  BY <1>3 DEF Explained
<1>4. ASSUME NEW i \in Listed, Cardinality(objects[i]) > 1 PROVE Explained'
  BY <1>1, <1>4 DEF Explained
<1>5. ASSUME NEW i \in 1..olderObjects, ~(objects[i] \subseteq older) PROVE Explained'
  BY <1>2, <1>5 DEF Explained
<1> QED BY <1>3, <1>4, <1>5 DEF Explained

\* When more rows are counted than objects, and every row is in an object, then one
\* of the objects has two rows, or a row is in an object that was not counted.
LEMMA MissingExplained ==
  ASSUME DeploymentTypeOK, NEW R, IsFiniteSet(R), R \cap older = {},
         \A x \in R : \E i \in DOMAIN objects : x \in objects[i],
         olderObjects \in 0..Len(objects), NEW l, l = Len(objects) - olderObjects, Cardinality(R) > l
  PROVE  \/ \E i \in DOMAIN objects : /\ olderObjects < i /\ i <= olderObjects + l
                                      /\ Cardinality(objects[i]) > 1
         \/ \E i \in 1..olderObjects : ~(objects[i] \subseteq older)
<1> DEFINE n == Len(objects)
           g == [x \in R |-> CHOOSE i \in DOMAIN objects : x \in objects[i]]
<1>1. /\ objects \in Seq(SUBSET Txs) /\ n \in Nat /\ DOMAIN objects = 1..n
      /\ olderObjects \in Nat /\ olderObjects <= n
  BY DEF DeploymentTypeOK
<1>2. \A x \in R : g[x] \in 1..n /\ x \in objects[g[x]]
  BY <1>1
<1> HIDE DEF g
<1>3. CASE \E x \in R : g[x] <= olderObjects
  <2>1. PICK x \in R : g[x] <= olderObjects
    BY <1>3
  <2>2. g[x] \in 1..olderObjects /\ x \in objects[g[x]] /\ x \notin older
    BY <1>1, <1>2, <2>1
  <2> QED BY <2>2
<1>4. CASE \A x \in R : ~(g[x] <= olderObjects)
  <2> DEFINE L == olderObjects + 1..n
  <2>1. \A x \in R : g[x] \in L
    BY <1>1, <1>2, <1>4
  <2>2. PICK h \in [R -> L] : \A x \in R : h[x] = g[x]
    <3> HIDE DEF L
    <3>1. [x \in R |-> g[x]] \in [R -> L]
      BY <2>1
    <3> QED BY <3>1
  <2>3. IsFiniteSet(L) /\ Cardinality(L) = l
    <3>1. PICK m \in Int : m = olderObjects + 1
      BY <1>1
    <3> HIDE DEF n
    <3>2. IsFiniteSet(m..n) /\ Cardinality(m..n) = IF m > n THEN 0 ELSE n - m + 1
      BY <1>1, <3>1, FS_Interval
    <3>3. (IF m > n THEN 0 ELSE n - m + 1) = n - olderObjects
      BY <1>1, <3>1
    <3>4. L = m..n
      BY <3>1
    <3> HIDE DEF L
    <3> QED BY <3>2, <3>3, <3>4 DEF n
  <2> HIDE DEF L
  <2>4. PICK a, b \in R : a # b /\ h[a] = h[b]
    BY <2>3, FS_PigeonHole
  <2>5. PICK i \in 1..n : i = g[a] /\ i = g[b]
    BY <1>2, <2>2, <2>4
  <2>6. a \in objects[i] /\ b \in objects[i] /\ olderObjects < i
    <3>1. a \in objects[i] /\ b \in objects[i]
      BY <1>2, <2>5
    <3>2. ~(i <= olderObjects)
      BY <1>4, <2>5
    <3> QED BY <1>1, <3>1, <3>2
  <2>7. IsFiniteSet(objects[i])
    <3>1. objects[i] \in SUBSET Txs
      BY <1>1, <2>6
    <3> QED BY <3>1, FS_Subset, DeploymentAssumption
  <2>8. Cardinality(objects[i]) > 1
    BY <2>4, <2>6, <2>7, TwoAreMore
  <2>9. i \in DOMAIN objects /\ i <= olderObjects + l
    BY <1>1, <2>6
  <2> QED BY <2>6, <2>8, <2>9
<1> QED BY <1>3, <1>4

\* The report has said nothing when it begins.
LEMMA ReportInit == Init => ReportInv
<1> SUFFICES ASSUME Init PROVE ReportInv
  OBVIOUS
<1>1. ~WarnsOfLetters /\ ~WarnsOfObjects /\ ~WarnsOfMissing
  BY Zenon DEF Init, CascadeInit, WarnsOfLetters, WarnsOfObjects, WarnsOfMissing
<1>2. Len(objects) \in Nat
  BY DeploymentStart DEF DeploymentTypeOK
<1> QED BY <1>1, <1>2 DEF Init, CascadeInit, ReportInv

\* What the report knows stays so while the deployment moves.
LEMMA ReportStays ==
  ASSUME BaseInv, ReportInv, [Next]_vars, UNCHANGED cascadeVars
  PROVE  ReportInv'
<1>1. Onward /\ DeploymentTypeOK /\ FlowInv
  BY BaseStep DEF BaseInv
<1>2. DeploymentNext \/ UNCHANGED theRest
  BY OneMoves
<1>3. UNCHANGED <<window, older, olderObjects, section, deadLetters, stored, listed, says, quiet,
                  unaccounted, tool>>
  BY OneMoves DEF cascadeVars, windowVars
<1>4. (\E x \in Txs : "dlq" \in alerts[x]) => \E x \in Txs : "dlq" \in alerts'[x]
  BY <1>1 DEF Onward
<1>5. olderObjects \in 0..Len(objects')
  <2>1. olderObjects \in 0..Len(objects)
    BY DEF ReportInv
  <2> QED BY <1>1, <1>2, <2>1, ObjectsGrow
<1>6. Explained => Explained'
  <2>1. olderObjects \in 0..Len(objects)
    BY DEF ReportInv
  <2> QED BY <1>1, <1>2, <1>3, <2>1, ExplainedStays
<1>7. ASSUME section # "start", quiet
      PROVE  AtRest' /\ InWindow' = InWindow /\ objects' = objects
  <2>1. AtRest /\ tool = "cascade"
    BY <1>7 DEF ReportInv
  <2>2. UNCHANGED posted
    <3>1. CASE CascadeStep
      BY <1>7, <3>1 DEF CascadeStep, Experiment, RowsBegin, ObjectsBegin, check_ecs, check_queues,
                        count_dynamo, count_s3, run_report, ReadFails
    <3>2. CASE DeploymentNext
      BY <3>2, DeploymentSendsNothing
    <3> QED BY <2>1, <3>1, <3>2, OneMoves
  <2>3. AtRest' /\ objects' = objects /\ \A x \in Txs : HasRow(x)' <=> HasRow(x)
    BY <1>1, <1>2, <2>1, <2>2, RestStays
  <2> QED BY <1>3, <2>3 DEF InWindow
<1>8. /\ WarnsOfLetters' <=> WarnsOfLetters
      /\ WarnsOfObjects' <=> WarnsOfObjects
      /\ WarnsOfMissing' <=> WarnsOfMissing
  BY <1>3 DEF WarnsOfLetters, WarnsOfObjects, WarnsOfMissing
<1> QED BY <1>3, <1>4, <1>5, <1>6, <1>7, <1>8 DEF ReportInv

\* A section of the report keeps what it knows.
LEMMA SectionKeeps ==
  ASSUME BaseInv, ReportInv, CascadeStep, UNCHANGED theRest, UNCHANGED tool, tool = "cascade"
  PROVE  ReportInv'
<1>0. /\ UNCHANGED <<tool, alerts, objects, status>> /\ tool = "cascade"
      /\ \A x : HasRow(x)' <=> HasRow(x)
  BY DEF theRest, flowVars, auditVars, HasRow
<1>1. Len(objects) \in Nat /\ DOMAIN objects = 1..Len(objects) /\ DeploymentTypeOK /\ FlowInv
  BY DEF BaseInv, DeploymentTypeOK
<1>2. UNCHANGED older => InWindow' = InWindow
  BY <1>0 DEF InWindow
<1>3. UNCHANGED <<older, olderObjects, listed, unaccounted>> => (Explained' <=> Explained)
  BY <1>0 DEF Explained, Listed
<1>4. /\ says = {} => ~WarnsOfLetters /\ ~WarnsOfObjects /\ ~WarnsOfMissing
      /\ says' = {} => ~WarnsOfLetters' /\ ~WarnsOfObjects' /\ ~WarnsOfMissing'
  BY Zenon DEF WarnsOfLetters, WarnsOfObjects, WarnsOfMissing
<1>5. CASE UNCHANGED posted /\ section' # "start"
  <2>1. AtRest' <=> AtRest
    BY <1>0, <1>5 DEF AtRest, theRest, flowVars, auditVars
  <2>2. CASE check_ecs
    <3>1. /\ section = "start" /\ section' = "queues" /\ quiet' = AtRest
          /\ UNCHANGED <<older, olderObjects, deadLetters, stored, listed, says, unaccounted>>
      BY <2>2 DEF check_ecs, windowVars
    <3>2. says' = {}
      BY <3>1 DEF ReportInv
    <3> QED BY <1>0, <1>4, <2>1, <3>1, <3>2 DEF ReportInv
  <2>3. CASE check_queues
    <3>1. deadLetters' \in Nat /\ (deadLetters' > 0 => \E x \in Txs : "dlq" \in alerts[x])
      BY <2>3, AlertsCounted DEF check_queues
    <3>2. /\ section = "queues" /\ section' = "dynamo"
          /\ UNCHANGED <<older, olderObjects, stored, listed, says, quiet, unaccounted>>
      BY <2>3 DEF check_queues, windowVars
    <3>3. says' = {}
      BY <3>2 DEF ReportInv
    <3> QED BY <1>0, <1>4, <2>1, <3>1, <3>2, <3>3 DEF ReportInv
  <2>4. CASE count_dynamo
    <3>1. /\ section = "dynamo" /\ section' = "s3"
          /\ stored' \in {Cardinality(InWindow), -1} /\ unaccounted' = InWindow
          /\ UNCHANGED <<older, olderObjects, deadLetters, listed, says, quiet>>
      BY <2>4 DEF count_dynamo, windowVars
    <3>2. says' = {}
      BY <3>1 DEF ReportInv
    <3>3. InWindow \subseteq Txs /\ InWindow \cap older = {}
      BY DEF InWindow
    <3> QED BY <1>0, <1>2, <1>4, <2>1, <3>1, <3>2, <3>3 DEF ReportInv
  <2>5. CASE count_s3
    <3>1. /\ section = "s3" /\ section' = "discrepancy"
          /\ listed' \in {Len(objects) - olderObjects, -1}
          /\ unaccounted' = {x \in unaccounted : \A i \in DOMAIN objects : x \notin objects[i]}
          /\ UNCHANGED <<older, olderObjects, deadLetters, stored, says, quiet>>
      BY <2>5 DEF count_s3, windowVars
    <3>2. says' = {}
      BY <3>1 DEF ReportInv
    <3>3. ASSUME listed' >= 0, stored > listed' PROVE Explained'
      <4>1. CASE unaccounted' # {}
        BY <4>1 DEF Explained
      <4>2. CASE unaccounted' = {}
        <5>1. \A x \in unaccounted : \E i \in DOMAIN objects : x \in objects[i]
          BY <3>1, <4>2
        <5>2. /\ unaccounted \cap older = {} /\ stored \in {Cardinality(unaccounted), -1}
              /\ olderObjects \in 0..Len(objects) /\ IsFiniteSet(unaccounted)
          BY <3>1, FS_Subset, DeploymentAssumption DEF ReportInv
        <5>3. PICK l : l = listed'
          OBVIOUS
        <5>4. l = Len(objects) - olderObjects /\ Cardinality(unaccounted) > l
          BY <1>1, <3>1, <3>3, <5>2, <5>3
        <5>5. \/ \E i \in DOMAIN objects : /\ olderObjects < i /\ i <= olderObjects + l
                                           /\ Cardinality(objects[i]) > 1
              \/ \E i \in 1..olderObjects : ~(objects[i] \subseteq older)
          BY <1>1, <5>1, <5>2, <5>4, MissingExplained
        <5> QED BY <1>0, <3>1, <5>3, <5>5 DEF Explained, Listed
      <4> QED BY <4>1, <4>2
    <3> QED BY <1>0, <1>2, <1>4, <2>1, <3>1, <3>2, <3>3 DEF ReportInv
  <2>6. CASE run_report
    <3>1. WarnsOfLetters' => deadLetters > 0
      BY <2>6, Zenon DEF run_report, Gap, WarnsOfLetters
    <3>2. WarnsOfObjects' => stored < listed /\ stored >= 0 /\ listed >= 0
      BY <2>6, Zenon DEF run_report, Gap, WarnsOfObjects
    <3>3. WarnsOfMissing' => stored > listed /\ listed >= 0
      BY <2>6, Zenon DEF run_report, Gap, WarnsOfMissing
    <3>4. /\ section = "discrepancy" /\ section' = "end"
          /\ UNCHANGED <<older, olderObjects, deadLetters, stored, listed, quiet, unaccounted>>
      BY <2>6 DEF run_report, windowVars
    <3>5. WarnsOfObjects' /\ quiet => /\ Cardinality(InWindow) < Len(objects) - olderObjects
                                      /\ listed = Len(objects) - olderObjects
      BY <1>1, <3>2, <3>4, StoredCounted DEF ReportInv
    <3>6. WarnsOfMissing' => Explained'
      BY <1>3, <3>3, <3>4 DEF ReportInv
    <3> QED BY <1>0, <1>2, <2>1, <3>1, <3>4, <3>5, <3>6 DEF ReportInv
  <2>7. CASE ReadFails
    <3>1. /\ section \in {"start", "queues", "dynamo", "s3"} /\ section' = "end"
          /\ UNCHANGED <<older, olderObjects, deadLetters, stored, listed, says, quiet, unaccounted>>
      BY <2>7 DEF ReadFails, windowVars
    <3>2. says' = {} /\ (section = "start" => ~quiet)
      BY <3>1 DEF ReportInv
    <3> QED BY <1>0, <1>2, <1>4, <2>1, <3>1, <3>2 DEF ReportInv
  <2> QED BY <1>5, <2>2, <2>3, <2>4, <2>5, <2>6, <2>7 DEF CascadeStep, Experiment, RowsBegin,
             ObjectsBegin, cascadeVars, windowVars, ReportInv
<1>6. CASE (\E x \in Experiments : Experiment(x)) \/ RowsBegin \/ ObjectsBegin
  <2>1. /\ section = "start" /\ section' = "start"
        /\ UNCHANGED <<deadLetters, says, quiet, unaccounted>>
        /\ olderObjects' = olderObjects \/ olderObjects' = Len(objects)
    BY <1>6 DEF Experiment, RowsBegin, ObjectsBegin, cascadeVars, windowVars
  <2>2. says' = {} /\ ~quiet'
    BY <2>1 DEF ReportInv
  <2>3. olderObjects' \in 0..Len(objects)
    BY <1>1, <2>1 DEF ReportInv
  <2> QED BY <1>0, <1>4, <2>1, <2>2, <2>3 DEF ReportInv
<1>7. \/ UNCHANGED posted /\ section' # "start"
      \/ (\E x \in Experiments : Experiment(x)) \/ RowsBegin \/ ObjectsBegin
  BY DEF CascadeStep, check_ecs, check_queues, count_dynamo, count_s3, run_report, ReadFails
<1> QED BY <1>5, <1>6, <1>7

\* Every step keeps what the report knows.
LEMMA ReportStep ==
  ASSUME BaseInv, ReportInv, [Next]_vars
  PROVE  ReportInv'
<1>1. CASE UNCHANGED cascadeVars
  BY <1>1, ReportStays
<1>2. CASE CascadeStep /\ UNCHANGED theRest /\ ~(UNCHANGED cascadeVars)
  <2>1. UNCHANGED tool /\ tool = "cascade"
    BY <1>2 DEF Next, vars, Moves, Verifies, Reconciles, Reports, Loads, Views, Injects, others
  <2> QED BY <1>2, <2>1, SectionKeeps
<1> QED BY <1>1, <1>2, OneMoves

\* When everything is at rest and fewer rows are counted than objects, a record was
\* stored twice, or one from before the window after it.
LEMMA ObjectsExplained ==
  ASSUME BaseInv, olderObjects \in 0..Len(objects), listed = Len(objects) - olderObjects,
         Cardinality(InWindow) < listed
  PROVE  \E x \in Txs : RecordsOf(x) > 1 \/ (x \in older /\ \E i \in Listed : x \in objects[i])
<1> DEFINE n == Len(objects)
           L == olderObjects + 1..n
           f == [i \in L |-> CHOOSE x \in objects[i] : TRUE]
<1>1. /\ objects \in Seq(SUBSET Txs) /\ FlowInv /\ n \in Nat /\ DOMAIN objects = 1..n
      /\ olderObjects \in Nat /\ olderObjects <= n
  BY DEF BaseInv, DeploymentTypeOK
<1>2. L = Listed /\ L \subseteq 1..n
  <2>1. olderObjects + listed = n
    BY <1>1
  <2> QED BY <1>1, <2>1 DEF Listed
<1>3. ASSUME NEW i \in L PROVE objects[i] # {} /\ objects[i] \subseteq Stored
  <2>1. i \in 1..n /\ objects[i] \in SUBSET Txs
    BY <1>1, <1>2
  <2> HIDE DEF n, L
  <2> QED BY <1>1, <2>1 DEF FlowInv, Stored
<1>4. \A i \in L : f[i] \in objects[i] /\ f[i] \in Stored
  BY <1>3
<1>5. CASE \E i \in L : f[i] \in older
  <2>1. PICK i \in L : f[i] \in older
    BY <1>5
  <2> HIDE DEF f, L
  <2>2. i \in Listed /\ f[i] \in objects[i] /\ f[i] \in Txs
    BY <1>2, <1>4 DEF Stored
  <2> QED BY <2>1, <2>2
<1>6. CASE \A i \in L : f[i] \notin older
  <2>1. f \in [L -> InWindow]
    BY <1>4, <1>6, StoredCounted
  <2>2. IsFiniteSet(L) /\ Cardinality(L) = listed
    <3>1. PICK m \in Int : m = olderObjects + 1
      BY <1>1
    <3> HIDE DEF n
    <3>2. IsFiniteSet(m..n) /\ Cardinality(m..n) = IF m > n THEN 0 ELSE n - m + 1
      BY <1>1, <3>1, FS_Interval
    <3>3. (IF m > n THEN 0 ELSE n - m + 1) = n - olderObjects
      BY <1>1, <3>1
    <3>4. L = m..n
      BY <3>1
    <3> HIDE DEF L
    <3> QED BY <3>2, <3>3, <3>4 DEF n
  <2> HIDE DEF f, n, L
  <2>3. PICK i, j \in L : i # j /\ f[i] = f[j]
    BY <2>1, <2>2, StoredCounted, FS_PigeonHole
  <2>4. PICK x : x = f[i]
    OBVIOUS
  <2> DEFINE H == {k \in DOMAIN objects : x \in objects[k]}
  <2>5. i \in H /\ j \in H
    BY <1>1, <1>2, <1>4, <2>3, <2>4
  <2>6. IsFiniteSet(H)
    <3>1. IsFiniteSet(1..n)
      BY <1>1, FS_Interval
    <3> QED BY <1>1, <3>1, FS_Subset
  <2>7. RecordsOf(x) = Cardinality(H)
    BY DEF RecordsOf
  <2> HIDE DEF H
  <2>8. Cardinality(H) > 1
    BY <2>3, <2>5, <2>6, TwoAreMore
  <2>9. x \in Txs
    BY <1>4, <2>4 DEF Stored
  <2> QED BY <2>7, <2>8, <2>9
<1> QED BY <1>5, <1>6

\* Each of the three warnings of cascade_report.py has one of the reasons that
\* CascadeWarningsAreTrue names, for any requests and any look-back window,
\* whatever goes wrong and however the deployment moves between its reads.  The
\* dead letters it warns of are there.  More objects than rows, when nothing was
\* being worked on, come from a record stored twice or from the edge of the
\* window.  Rows "NOT yet in S3" were in no object, or records share an object, or
\* the object of one was from before the window.
THEOREM CascadeWarnings == Spec => []CascadeWarningsAreTrue
<1> DEFINE IInv == BaseInv /\ ReportInv
<1>1. Init => IInv
  BY BaseInit, ReportInit
<1>2. IInv /\ [Next]_vars => IInv'
  BY BaseStep, ReportStep
<1>3. IInv => CascadeWarningsAreTrue
  <2> SUFFICES ASSUME IInv PROVE CascadeWarningsAreTrue
    OBVIOUS
  <2>1. "dead letters" \in says => AlertsIn("dlq") > 0
    BY AlertsCounted DEF ReportInv, WarnsOfLetters
  <2>2. ASSUME WarnsOfObjects, quiet
        PROVE \E x \in Txs : RecordsOf(x) > 1 \/ (x \in older /\ \E i \in Listed : x \in objects[i])
    <3>1. section # "start"
      BY <2>2, Zenon DEF ReportInv, WarnsOfObjects
    <3>2. /\ Cardinality(InWindow) < Len(objects) - olderObjects
          /\ listed = Len(objects) - olderObjects /\ olderObjects \in 0..Len(objects)
      BY <2>2, <3>1 DEF ReportInv
    <3>3. Cardinality(InWindow) < listed
      BY <3>2
    <3> QED BY <3>2, <3>3, ObjectsExplained
  <2>3. WarnsOfMissing => Explained
    BY DEF ReportInv
  <2> QED BY <2>1, <2>2, <2>3, Zenon DEF CascadeWarningsAreTrue, WarnsOfObjects, WarnsOfMissing, Explained
<1> HIDE DEF IInv
<1> QED BY <1>1, <1>2, <1>3, PTL DEF Spec

-----------------------------------------------------------------------------
(* reconcile.py.                                                           *)

\* A set of numbers has a least one.
LEMMA LeastNumber ==
  ASSUME NEW S, S \subseteq Nat, S # {}
  PROVE  \E n \in S : \A m \in S : n <= m
<1>1. PICK n \in S : \A m \in S : <<m, n>> \notin OpToRel(<, Nat)
  BY NatLessThanWellFounded, WFMin
<1>2. \A m \in S : ~(m < n)
  BY <1>1 DEF OpToRel
<1> QED BY <1>2

\* Min picks a member.
LEMMA MinIsThere == ASSUME NEW S, S \subseteq Nat, S # {} PROVE Min(S) \in S
BY LeastNumber DEF Min

\* The transaction in row i of the file, which was accepted.
Filed(i) == csv[i].tx

\* Queue k is one of the deployment, and holds no dead letter about an accepted
\* transaction.
Clear(k) == DLQS[k] \in Services => \A i \in Accepted : q[Filed(i)][DLQS[k]] # "dlq"

\* What the script has seen so far.
VerdictInv ==
  /\ stage = "rows" => pending \subseteq Accepted
  /\ stage = "dlqs" => pending \subseteq 1..5
  /\ missingRows # {} => misread
  /\ duplicates = {}
  /\ totalDlq \in Nat
  /\ totalDlq > 0 => \E x \in Txs, s \in Services : q[x][s] = "dlq" \/ <<x, s>> \in reviewed
  /\ settled => /\ stage \notin {"submit", "quit"}
                /\ \A i \in Accepted, s \in Services : q[Filed(i)][s] # "queue"
  /\ settled /\ ~misread /\ ~reviewers /\ totalDlq = 0 =>
       /\ stage = "dlqs" => \A k \in (1..5) \ pending : Clear(k)
       /\ stage \in {"scan", "report", "reconciled"} => \A k \in 1..5 : Clear(k)
  /\ stage = "reconciled" => totalDlq = 0
  /\ stage = "issues" => missingRows # {} \/ totalDlq # 0

\* An accepted transaction has been answered, has its row and keeps it.
LEMMA AcceptedIsStored ==
  ASSUME BaseInv, NEW i \in Accepted
  PROVE  /\ i \in Nat /\ i \in DOMAIN csv /\ Filed(i) \in Txs
         /\ reply[Filed(i)] = "202" /\ HasRow(Filed(i))
         /\ \A s \in Route(Filed(i)) : q[Filed(i)][s] # "none"
<1>1. i \in DOMAIN csv /\ csv[i].status = "202" /\ csv \in Seq(CsvRow)
  BY DEF Accepted, BaseInv, Submission
<1>2. csv[i] \in CsvRow /\ i \in Nat
  BY <1>1
<1>3. Filed(i) \in Txs
  BY <1>2 DEF CsvRow, Filed
<1>4. reply[Filed(i)] = "202"
  BY <1>1 DEF BaseInv, Submission, Filed
<1> QED BY <1>1, <1>2, <1>3, <1>4 DEF BaseInv, FlowInv

\* What a read of a dead-letter queue tells.
LEMMA ReadingTells ==
  ASSUME BaseInv, NEW s, NEW d \in DlqReadings(s)
  PROVE  /\ d \in Nat
         /\ d > 0 => s \in Services /\ \E x \in Txs : q[x][s] = "dlq"
         /\ d = 0 /\ ~reviewers /\ s \in Services => \A x \in Txs : q[x][s] # "dlq"
<1> DEFINE D == {x \in Txs : q[x][s] = "dlq"}
           n == IF s \in Services THEN Cardinality(D) ELSE 0
<1>1. IsFiniteSet(D)
  BY FS_Subset, DeploymentAssumption
<1>2. Cardinality(D) \in Nat /\ (Cardinality(D) = 0 <=> D = {})
  BY <1>1, FS_CardinalityType, FS_EmptySet
<1>3. d \in IF reviewers THEN 0..n ELSE {n}
  BY DEF DlqReadings
<1>4. D = {} <=> \A x \in Txs : q[x][s] # "dlq"
  OBVIOUS
<1> HIDE DEF D
<1> QED BY <1>2, <1>3, <1>4

\* Nothing has been read when reconcile.py begins.
LEMMA VerdictInit == Init => VerdictInv
BY DEF Init, ReconcileInit, VerdictInv

\* What was found stays true while the deployment moves.
LEMMA VerdictStays ==
  ASSUME BaseInv, VerdictInv, Onward, UNCHANGED reconcileVars
  PROVE  VerdictInv'
<1>1. /\ UNCHANGED <<stage, csv, pending, missingRows, totalDlq, duplicates, misread, settled, reviewers>>
      /\ Accepted' = Accepted /\ \A i : Filed(i)' = Filed(i)
  BY DEF reconcileVars, Onward, choices, Accepted, Filed
<1>2. ASSUME NEW i \in Accepted, NEW s \in Services, q[Filed(i)][s] # "queue"
      PROVE  /\ q'[Filed(i)][s] # "queue"
             /\ q[Filed(i)][s] # "dlq" => q'[Filed(i)][s] # "dlq"
  BY <1>2, AcceptedIsStored DEF Onward
<1>3. ASSUME NEW k \in 1..5, settled, Clear(k) PROVE Clear(k)'
  BY <1>1, <1>2, <1>3 DEF Clear, VerdictInv
<1>4. ASSUME NEW x \in Txs, NEW s \in Services, q[x][s] = "dlq" \/ <<x, s>> \in reviewed
      PROVE  q'[x][s] = "dlq" \/ <<x, s>> \in reviewed'
  <2>1. q[x][s] # "none" => reply[x] # "none"
    BY DEF BaseInv, FlowInv
  <2> QED BY <1>4, <2>1 DEF Onward
<1> QED BY <1>1, <1>2, <1>3, <1>4 DEF VerdictInv

\* A step of the script.
LEMMA VerdictStep ==
  ASSUME BaseInv, VerdictInv, ReconcileStep, UNCHANGED theRest
  PROVE  VerdictInv'
<1>0. UNCHANGED <<q, reviewed, reviewers, status, reply>>
  BY DEF theRest, flowVars, choices
<1>f. UNCHANGED csv => /\ Accepted' = Accepted /\ \A i : Filed(i)' = Filed(i)
                       /\ \A k : Clear(k)' <=> Clear(k)
  BY <1>0 DEF Accepted, Filed, Clear
<1>1. CASE submit_audit_transaction \/ (\E n \in inFlight : write_row(n)) \/ quit
  <2>1. stage \in {"submit", "quit"} /\ stage' \in {"submit", "quit"} /\ ~settled
        /\ UNCHANGED <<pending, missingRows, totalDlq, duplicates, misread, settled>>
    BY <1>1 DEF submit_audit_transaction, write_row, quit, VerdictInv
  <2> QED BY <1>0, <2>1 DEF VerdictInv
<1>2. CASE read_csv
  <2>1. /\ stage' \in {"rows", "no rows"} /\ pending' = Accepted /\ UNCHANGED <<csv, missingRows, totalDlq, duplicates, misread>>
        /\ settled' => \A x \in posted, s \in Services : q[x][s] # "queue"
    BY <1>2 DEF read_csv
  <2>2. \A i \in Accepted : Filed(i) \in posted
    BY AcceptedIsStored DEF BaseInv, FlowInv
  <2> QED BY <1>0, <1>f, <2>1, <2>2 DEF VerdictInv
<1>3. CASE check_dynamo
  <2> DEFINE i == Min(pending)
             row == csv[i]
  <2>1. i \in pending /\ i \in Accepted
    <3>1. pending \subseteq Accepted /\ pending # {}
      BY <1>3 DEF check_dynamo, VerdictInv
    <3>2. pending \subseteq Nat
      BY <3>1, AcceptedIsStored
    <3> QED BY <3>1, <3>2, MinIsThere
  <2>2. HasRow(row.tx)
    BY <2>1, AcceptedIsStored DEF Filed
  <2>3. PICK answered \in BOOLEAN :
          /\ IF row.ids /\ answered /\ HasRow(row.tx)
             THEN found' = found + 1 /\ UNCHANGED missingRows
             ELSE missingRows' = missingRows \cup {row.tx} /\ UNCHANGED found
          /\ misread' = (misread \/ ~answered \/ ~row.ids)
    BY <1>3 DEF check_dynamo
  <2>4. (missingRows' # {} => misread') /\ (misread => misread')
    <3> HIDE DEF row
    <3>1. missingRows # {} => misread
      BY DEF VerdictInv
    <3> QED BY <2>2, <2>3, <3>1, Zenon
  <2>5. /\ stage = "rows" /\ pending' = pending \ {i}
        /\ UNCHANGED <<stage, csv, totalDlq, duplicates, settled>>
    BY <1>3 DEF check_dynamo
  <2> HIDE DEF i
  <2> QED BY <1>0, <1>f, <2>4, <2>5 DEF VerdictInv
<1>4. CASE RowsDone
  BY <1>0, <1>4, <1>f DEF RowsDone, VerdictInv
<1>5. CASE count_s3_audit_entries
  <2>1. DOMAIN DLQS = 1..5
    BY DEF DLQS
  <2> QED BY <1>0, <1>5, <1>f, <2>1 DEF count_s3_audit_entries, VerdictInv
<1>6. CASE check_dlqs
  <2> DEFINE k == Min(pending)
  <2>1. k \in pending /\ k \in 1..5 /\ stage = "dlqs" /\ pending \subseteq 1..5
    <3>1. pending \subseteq 1..5 /\ pending # {} /\ stage = "dlqs"
      BY <1>6 DEF check_dlqs, VerdictInv
    <3>2. pending \subseteq Nat
      BY <3>1
    <3> QED BY <3>1, <3>2, MinIsThere
  <2>2. PICK d \in DlqReadings(DLQS[k]) \cup {-1} :
          /\ totalDlq' = IF d > 0 THEN totalDlq + d ELSE totalDlq
          /\ misread' = (misread \/ d = -1)
    BY <1>6 DEF check_dlqs
  <2>3. /\ pending' = pending \ {k}
        /\ UNCHANGED <<stage, csv, missingRows, duplicates, settled>>
    BY <1>6 DEF check_dlqs
  <2>4. /\ d \in Nat \/ d = -1
        /\ d > 0 => \E x \in Txs, s \in Services : q[x][s] = "dlq"
        /\ d = 0 /\ ~reviewers => Clear(k)
    <3>1. CASE d = -1 BY <3>1
    <3>2. CASE d \in DlqReadings(DLQS[k])
      BY <3>2, ReadingTells, AcceptedIsStored DEF Clear
    <3> QED BY <2>2, <3>1, <3>2
  <2> HIDE DEF k
  <2>5. /\ totalDlq' \in Nat /\ (misread => misread')
        /\ totalDlq' > 0 => \E x \in Txs, s \in Services : q[x][s] = "dlq" \/ <<x, s>> \in reviewed
        /\ totalDlq' = 0 /\ ~misread' => totalDlq = 0 /\ d = 0
    <3>1. (misread => misread') /\ (~misread' => d # -1)
      BY <2>2, Zenon
    <3>2. /\ totalDlq \in Nat
          /\ totalDlq > 0 => \E x \in Txs, s \in Services : q[x][s] = "dlq" \/ <<x, s>> \in reviewed
      BY DEF VerdictInv
    <3>3. totalDlq' = IF d > 0 THEN totalDlq + d ELSE totalDlq
      BY <2>2, Zenon
    <3>4. totalDlq' \in Nat /\ (totalDlq' > 0 => d > 0 \/ totalDlq > 0)
      BY <2>4, <3>2, <3>3
    <3>5. totalDlq' = 0 => totalDlq = 0 /\ (d = 0 \/ d = -1)
      BY <2>4, <3>2, <3>3
    <3>6. totalDlq' > 0 => \E x \in Txs, s \in Services : q[x][s] = "dlq" \/ <<x, s>> \in reviewed
      BY <2>4, <3>2, <3>4
    <3> QED BY <3>1, <3>4, <3>5, <3>6
  <2>6. ASSUME settled, ~misread', ~reviewers, totalDlq' = 0, NEW j \in (1..5) \ pending'
        PROVE  Clear(j)
    <3>1. CASE j = k
      BY <2>4, <2>5, <2>6, <3>1
    <3>2. CASE j # k
      BY <2>1, <2>3, <2>5, <2>6, <3>2 DEF VerdictInv
    <3> QED BY <3>1, <3>2
  <2> QED BY <1>0, <1>f, <2>1, <2>3, <2>5, <2>6 DEF VerdictInv
<1>7. CASE DlqsDone
  BY <1>0, <1>7, <1>f DEF DlqsDone, VerdictInv
<1>8. CASE scan_duplicates
  <2>1. duplicates' = {}
    BY <1>8 DEF scan_duplicates, Copies
  <2> QED BY <1>0, <1>8, <1>f, <2>1 DEF scan_duplicates, VerdictInv
<1>9. CASE ReadRaises
  BY <1>0, <1>9, <1>f DEF ReadRaises, VerdictInv
<1>10. CASE print_report
  BY <1>0, <1>10, <1>f DEF print_report, VerdictInv
<1> QED BY <1>1, <1>2, <1>3, <1>4, <1>5, <1>6, <1>7, <1>8, <1>9, <1>10 DEF ReconcileStep

\* The verdict of reconcile.py, for any list of transactions, whatever goes wrong and
\* however the deployment moves between its reads: an accepted transaction has its row;
\* "fully reconciled" means that each service on its route has judged it, if all
\* had come to rest, all queues could be read and nobody takes dead letters out;
\* and there are no issues unless a read failed or something was dead-lettered.
THEOREM ReconcileVerdict == Spec => []ReconcileVerdictIsTrue
<1> DEFINE IInv == BaseInv /\ VerdictInv
<1>1. Init => IInv
  BY BaseInit, VerdictInit
<1>2. IInv /\ [Next]_vars => IInv'
  <2> SUFFICES ASSUME IInv, [Next]_vars PROVE IInv'
    OBVIOUS
  <2>1. BaseInv' /\ Onward
    BY BaseStep
  <2> QED BY <2>1, OneMoves, VerdictStays, VerdictStep
<1>3. IInv => ReconcileVerdictIsTrue
  <2> SUFFICES ASSUME IInv PROVE ReconcileVerdictIsTrue
    OBVIOUS
  <2>1. ASSUME stage = "reconciled", NEW i \in Accepted
        PROVE  /\ HasRow(Filed(i))
               /\ settled /\ ~misread /\ ~reviewers => \A s \in Route(Filed(i)) : <<Filed(i), s>> \in judged
    <3>1. HasRow(Filed(i)) /\ Filed(i) \in Txs
      BY AcceptedIsStored
    <3>2. ASSUME settled, ~misread, ~reviewers, NEW s \in Route(Filed(i))
          PROVE  <<Filed(i), s>> \in judged
      <4>1. s \in Services /\ s \in FilteredServices \cup UnfilteredServices
        BY DEF Route, RoutedTo, BaseInv, DeploymentTypeOK
      <4>2. PICK k \in 1..5 : s = DLQS[k]
        BY <4>1 DEF FilteredServices, UnfilteredServices, DLQS
      <4>3. q[Filed(i)][s] # "none" /\ q[Filed(i)][s] # "queue"
        BY <3>2, <4>1, AcceptedIsStored DEF VerdictInv
      <4>4. q[Filed(i)][s] # "dlq"
        BY <2>1, <3>2, <4>1, <4>2 DEF VerdictInv, Clear
      <4>5. q[Filed(i)][s] = "deleted"
        BY <3>1, <4>1, <4>3, <4>4 DEF BaseInv, DeploymentTypeOK
      <4> QED BY <3>1, <3>2, <4>1, <4>5 DEF BaseInv, FlowInv
    <3> QED BY <3>1, <3>2
  <2>2. ASSUME stage = "issues", ~misread
        PROVE  \E x \in Txs, s \in Services : q[x][s] = "dlq" \/ <<x, s>> \in reviewed
    BY <2>2 DEF VerdictInv
  <2> QED BY <2>1, <2>2 DEF ReconcileVerdictIsTrue, Filed
<1> HIDE DEF IInv
<1> QED BY <1>1, <1>2, <1>3, PTL DEF Spec

-----------------------------------------------------------------------------
(* The stages of the load test.                                            *)

\* The end, the users and the rate of stage i.
End(i)   == _STAGES[i].end
Goal(i)  == _STAGES[i].users
Rate(i)  == _STAGES[i].rate

\* When stage i begins, and with how many users.
Begin(i) == IF i = 1 THEN 0 ELSE End(i - 1)
From(i)  == IF i = 1 THEN 0 ELSE Goal(i - 1)

\* The stages follow one another, and each is long enough for its rate.
LEMMA StagesFit ==
  /\ DOMAIN _STAGES = 1..11 /\ End(11) = 1050 /\ Goal(11) = 0
  /\ \A i \in 1..11 :
       /\ End(i) \in Nat /\ Goal(i) \in Nat /\ Rate(i) \in Nat /\ From(i) \in Nat /\ Begin(i) \in Nat
       /\ Begin(i) < End(i) /\ End(i) <= 1050
       /\ Goal(i) - From(i) <= Rate(i) * (End(i) - Begin(i))
       /\ From(i) - Goal(i) <= Rate(i) * (End(i) - Begin(i))
       /\ \A j \in 1..11 : i < j => End(i) <= Begin(j)
<1>1. DOMAIN _STAGES = 1..11
  BY SMT DEF _STAGES
<1>2. /\ End(1) = 30 /\ End(2) = 150 /\ End(3) = 180 /\ End(4) = 360 /\ End(5) = 390 /\ End(6) = 570
      /\ End(7) = 600 /\ End(8) = 780 /\ End(9) = 810 /\ End(10) = 990 /\ End(11) = 1050
  BY SMT DEF _STAGES, Stage, End
<1>3. /\ Goal(1) = 100 /\ Goal(2) = 100 /\ Goal(3) = 500 /\ Goal(4) = 500 /\ Goal(5) = 1000
      /\ Goal(6) = 1000 /\ Goal(7) = 2000 /\ Goal(8) = 2000 /\ Goal(9) = 3000 /\ Goal(10) = 3000
      /\ Goal(11) = 0
  BY SMT DEF _STAGES, Stage, Goal
<1>4. /\ Rate(1) = 4 /\ Rate(2) = 100 /\ Rate(3) = 14 /\ Rate(4) = 500 /\ Rate(5) = 17
      /\ Rate(6) = 1000 /\ Rate(7) = 34 /\ Rate(8) = 2000 /\ Rate(9) = 34 /\ Rate(10) = 3000
      /\ Rate(11) = 50
  BY SMT DEF _STAGES, Stage, Rate
<1>5. ASSUME NEW i \in 1..11
      PROVE  i \in {1, 2, 3, 4, 5, 6, 7, 8, 9, 10, 11}
  BY SMT
<1>6. ASSUME NEW i \in 1..11
      PROVE  /\ End(i) \in Nat /\ Goal(i) \in Nat /\ Rate(i) \in Nat /\ From(i) \in Nat /\ Begin(i) \in Nat
             /\ Begin(i) < End(i) /\ End(i) <= 1050
  BY <1>2, <1>3, <1>4, <1>5, SMT DEF Begin, From
<1>7. ASSUME NEW i \in 1..11
      PROVE  /\ Goal(i) - From(i) <= Rate(i) * (End(i) - Begin(i))
             /\ From(i) - Goal(i) <= Rate(i) * (End(i) - Begin(i))
  BY <1>2, <1>3, <1>4, <1>5, SMT DEF Begin, From
<1>8. ASSUME NEW i \in 1..11, NEW j \in 1..11, i < j
      PROVE  End(i) <= Begin(j)
  <2>1. Begin(j) = End(j - 1) /\ j - 1 \in 1..11 /\ i <= j - 1
    BY <1>8, SMT DEF Begin
  <2>2. \A k, l \in 1..11 : k <= l => End(k) <= End(l)
    BY <1>2, <1>5, SMT
  <2> QED BY <2>1, <2>2, SMT
<1> QED BY <1>1, <1>2, <1>3, <1>6, <1>7, <1>8, SMT

\* Going towards a goal: two steps are one of their sum, and far enough is there.
LEMMA TowardsAdds ==
  ASSUME NEW n \in Nat, NEW goal \in Nat, NEW a \in Nat, NEW b \in Nat
  PROVE  /\ Towards(n, goal, a) \in Nat
         /\ Towards(Towards(n, goal, a), goal, b) = Towards(n, goal, a + b)
         /\ Towards(n, goal, 0) = n
         /\ Towards(goal, goal, a) = goal
         /\ goal - n <= a /\ n - goal <= a => Towards(n, goal, a) = goal
BY SMT DEF Towards

\* The number of users follows from the time alone.
OnCourse ==
  /\ runTime \in Nat /\ runTime <= 1050
  /\ \A i \in 1..11 : runTime \in Begin(i)..End(i) =>
       users = Towards(From(i), Goal(i), Rate(i) * (runTime - Begin(i)))
  /\ over => runTime = 1050

\* The test begins on course.
LEMMA OnCourseInit == Init => OnCourse
<1> SUFFICES ASSUME Init PROVE OnCourse
  OBVIOUS
<1>1. runTime = 0 /\ users = 0 /\ over = FALSE
  BY DEF Init, LoadInit
<1>2. ASSUME NEW i \in 1..11, runTime \in Begin(i)..End(i)
      PROVE  users = Towards(From(i), Goal(i), Rate(i) * (runTime - Begin(i)))
  <2>1. i = 1
    <3>1. CASE 1 < i
      <4>1. 1 \in 1..11 /\ Begin(1) < End(1) /\ End(1) <= Begin(i) /\ Begin(1) = 0
        BY <3>1, StagesFit, SMT DEF Begin
      <4>2. Begin(i) \in Nat /\ End(1) \in Nat /\ End(i) \in Nat
        BY <4>1, StagesFit
      <4> QED BY <1>1, <1>2, <4>1, <4>2, SMT
    <3> QED BY <3>1, SMT
  <2>2. From(1) = 0 /\ Begin(1) = 0 /\ Goal(1) \in Nat /\ Rate(1) \in Nat
    BY <2>1, StagesFit DEF From, Begin
  <2>3. Rate(1) * (0 - 0) = 0
    BY <2>2, SMT
  <2>4. Towards(0, Goal(1), 0) = 0
    BY <2>2, TowardsAdds
  <2> QED BY <1>1, <2>1, <2>2, <2>3, <2>4
<1> QED BY <1>1, <1>2, SMT DEF OnCourse

\* The stage of a second is the first one that is not over.
LEMMA CurrentStage ==
  ASSUME runTime \in Nat, Ahead(runTime) # {}
  PROVE  \E i \in 1..11 : /\ Current(runTime) = _STAGES[i]
                          /\ Begin(i) <= runTime /\ runTime < End(i)
<1> DEFINE A == Ahead(runTime)
<1>1. A \subseteq 1..11 /\ \A i \in 1..11 : i \in A <=> runTime < End(i)
  BY StagesFit DEF Ahead, End
<1>2. A \subseteq Nat /\ A # {}
  BY <1>1
<1>3. PICK i \in A : i = CHOOSE k \in A : \A j \in A : k <= j
  BY <1>2, LeastNumber
<1>4. \A j \in A : i <= j
  BY <1>2, <1>3, LeastNumber
<1>5. Begin(i) <= runTime
  <2>1. CASE i = 1
    BY <2>1 DEF Begin
  <2>2. CASE i # 1
    <3>1. i - 1 \in 1..11 /\ Begin(i) = End(i - 1)
      BY <1>1, <2>2 DEF Begin
    <3>2. i - 1 \notin A
      BY <1>1, <1>4
    <3>3. End(i - 1) \in Nat
      BY <3>1, StagesFit
    <3> QED BY <1>1, <3>1, <3>2, <3>3
  <2> QED BY <2>1, <2>2
<1> QED BY <1>1, <1>3, <1>5 DEF Current

\* Every second keeps the test on course.
LEMMA OnCourseStep == ASSUME OnCourse, [Next]_vars PROVE OnCourse'
<1>1. CASE UNCHANGED <<runTime, users, over>>
  BY <1>1 DEF OnCourse
<1>2. CASE tick /\ Ahead(runTime) = {}
  <2>1. UNCHANGED <<runTime, users>> /\ over' = TRUE
    BY <1>2 DEF tick
  <2>2. ~(runTime < End(11))
    BY <1>2, StagesFit, SMT DEF Ahead, End
  <2>3. runTime = 1050
    BY <2>2, StagesFit, SMT DEF OnCourse
  <2> QED BY <2>1, <2>3 DEF OnCourse
<1>3. CASE tick /\ Ahead(runTime) # {}
  <2>1. PICK i \in 1..11 : /\ Current(runTime) = _STAGES[i]
                           /\ Begin(i) <= runTime /\ runTime < End(i)
    BY <1>3, CurrentStage DEF OnCourse
  <2>2. /\ users' = Towards(users, Goal(i), Rate(i)) /\ runTime' = runTime + 1
        /\ over' = over /\ ~over
    BY <1>3, <2>1 DEF tick, Goal, Rate
  <2>3. /\ runTime \in Nat /\ End(i) \in Nat /\ Begin(i) \in Nat /\ Goal(i) \in Nat /\ From(i) \in Nat
        /\ Rate(i) \in Nat /\ End(i) <= 1050
    BY StagesFit DEF OnCourse
  <2>4. users = Towards(From(i), Goal(i), Rate(i) * (runTime - Begin(i)))
    BY <2>1, <2>3 DEF OnCourse
  <2> DEFINE a == Rate(i) * (runTime - Begin(i))
             m == runTime' - Begin(i)
  <2>5. a \in Nat /\ m \in Nat /\ a + Rate(i) = Rate(i) * m
    <3>1. \A r, k \in Nat : r * k \in Nat /\ r * k + r = r * (k + 1)
      BY SMT
    <3>2. runTime - Begin(i) \in Nat /\ m = runTime - Begin(i) + 1
      BY <2>1, <2>2, <2>3
    <3> QED BY <2>3, <3>1, <3>2
  <2>6. users' = Towards(From(i), Goal(i), Rate(i) * m)
    <3> HIDE DEF a
    <3>1. users' = Towards(Towards(From(i), Goal(i), a), Goal(i), Rate(i))
      BY <2>2, <2>4 DEF a
    <3>2. PICK n \in Nat, g \in Nat, r \in Nat : n = From(i) /\ g = Goal(i) /\ r = Rate(i)
      BY <2>3
    <3>3. Towards(Towards(n, g, a), g, r) = Towards(n, g, a + r)
      BY <2>5, TowardsAdds
    <3> QED BY <2>5, <3>1, <3>2, <3>3
  <2>7. ASSUME NEW j \in 1..11, runTime' \in Begin(j)..End(j)
        PROVE  users' = Towards(From(j), Goal(j), Rate(j) * (runTime' - Begin(j)))
    <3>1. CASE j = i
      BY <2>6, <3>1
    <3>2. CASE j < i
      <4>1. End(j) <= Begin(i) /\ End(j) \in Nat /\ Begin(j) \in Nat
        BY <3>2, StagesFit
      <4> QED BY <2>1, <2>2, <2>3, <2>7, <4>1
    <3>3. CASE i < j
      <4>1. /\ End(i) <= Begin(j) /\ Begin(j) \in Nat /\ End(j) \in Nat
            /\ Goal(j) \in Nat /\ Rate(j) \in Nat /\ From(j) \in Nat
        BY <3>3, StagesFit
      <4>2. runTime' = Begin(j) /\ End(i) = Begin(j)
        BY <2>1, <2>2, <2>3, <2>7, <4>1
      <4>3. From(j) = Goal(i)
        <5>1. j = i + 1
          <6>1. CASE i + 1 < j
            <7>0. PICK k \in 1..11 : k = i + 1
              BY <6>1
            <7>1. k = i + 1 /\ End(k) <= Begin(j) /\ Begin(k) < End(k)
              BY <6>1, <7>0, StagesFit
            <7>2. Begin(k) = End(i) /\ End(k) \in Nat
              <8>1. k # 1 /\ k - 1 = i
                BY <7>1
              <8> QED BY <7>0, <8>1, StagesFit DEF Begin
            <7> QED BY <2>3, <4>1, <4>2, <7>1, <7>2
          <6> QED BY <3>3, <6>1
        <5> QED BY <5>1 DEF From
      <4>4. m = End(i) - Begin(i)
        BY <2>3, <4>1, <4>2
      <4>5. users' = Goal(i)
        <5> DEFINE b == Rate(i) * m
        <5>1. /\ b \in Nat /\ Goal(i) - From(i) <= b /\ From(i) - Goal(i) <= b
          BY <2>3, <2>5, <4>4, StagesFit
        <5> HIDE DEF b
        <5>2. Towards(From(i), Goal(i), b) = Goal(i)
          <6>1. PICK n \in Nat, g \in Nat : n = From(i) /\ g = Goal(i)
            BY <2>3
          <6>2. Towards(n, g, b) = g
            BY <5>1, <6>1, TowardsAdds
          <6> QED BY <6>1, <6>2
        <5> QED BY <2>6, <5>2 DEF b
      <4>6. Rate(j) * (runTime' - Begin(j)) = 0
        <5>1. runTime' - Begin(j) = 0
          BY <2>3, <4>1, <4>2
        <5> QED BY <4>1, <5>1, SMT
      <4>7. Towards(From(j), Goal(j), 0) = From(j)
        BY <4>1, TowardsAdds
      <4> QED BY <4>3, <4>5, <4>6, <4>7
    <3> QED BY <3>1, <3>2, <3>3
  <2> HIDE DEF a, m
  <2>8. runTime' \in Nat /\ runTime' <= 1050
    BY <2>1, <2>2, <2>3, SMT
  <2>9. ~over'
    BY <2>2, Zenon
  <2> QED BY <2>7, <2>8, <2>9 DEF OnCourse
<1>4. CASE LoadStep
  BY <1>1, <1>2, <1>3, <1>4 DEF LoadStep, _post_transaction, tick
<1> QED BY <1>1, <1>4, OneMoves DEF loadVars

\* When a hold of staged_load.py begins its users are there and stay, and nobody
\* is left when the test stops: the ramps are long enough for their rates.
THEOREM StagesReach == Spec => []StagesReachTarget
<1>1. OnCourse => StagesReachTarget
  <2> SUFFICES ASSUME OnCourse PROVE StagesReachTarget
    OBVIOUS
  <2>1. ASSUME NEW i \in DOMAIN _STAGES \ {1}, _STAGES[i].users = _STAGES[i - 1].users,
               runTime \in _STAGES[i - 1].end.._STAGES[i].end
        PROVE  users = _STAGES[i].users
    <3>1. i \in 1..11 /\ From(i) = Goal(i) /\ runTime \in Begin(i)..End(i)
      BY <2>1, StagesFit DEF From, Goal, Begin, End
    <3>2. users = Towards(Goal(i), Goal(i), Rate(i) * (runTime - Begin(i)))
      BY <3>1 DEF OnCourse
    <3>3. Rate(i) * (runTime - Begin(i)) \in Nat /\ Goal(i) \in Nat
      <4>1. Rate(i) \in Nat /\ runTime - Begin(i) \in Nat /\ Goal(i) \in Nat
        BY <3>1, StagesFit DEF OnCourse
      <4>2. \A r, k \in Nat : r * k \in Nat
        BY SMT
      <4> QED BY <4>1, <4>2
    <3> QED BY <3>2, <3>3, TowardsAdds DEF Goal
  <2>2. ASSUME over PROVE users = 0
    <3>1. runTime = 1050 /\ 11 \in 1..11
      BY <2>2, SMT DEF OnCourse
    <3>2. /\ End(11) = 1050 /\ Goal(11) = 0 /\ Begin(11) \in Nat /\ Rate(11) \in Nat /\ From(11) \in Nat
          /\ Begin(11) < End(11)
      BY <3>1, StagesFit
    <3> DEFINE b == Rate(11) * (End(11) - Begin(11))
    <3>3. users = Towards(From(11), Goal(11), b)
      BY <3>1, <3>2, SMT DEF OnCourse
    <3>4. Goal(11) - From(11) <= b /\ From(11) - Goal(11) <= b
      BY <3>1, StagesFit
    <3>5. b \in Nat
      <4>1. End(11) - Begin(11) \in Nat
        BY <3>2, SMT
      <4>2. \A r, k \in Nat : r * k \in Nat
        BY SMT
      <4> QED BY <3>2, <4>1, <4>2
    <3> HIDE DEF b
    <3>6. PICK n \in Nat : n = From(11)
      BY <3>2
    <3>7. Towards(n, 0, b) = 0
      BY <3>2, <3>4, <3>5, <3>6, TowardsAdds
    <3> QED BY <3>2, <3>3, <3>6, <3>7
  <2> QED BY <2>1, <2>2 DEF StagesReachTarget
<1> QED BY <1>1, OnCourseInit, OnCourseStep, PTL DEF Spec

-----------------------------------------------------------------------------
(* Sorting a finite set.                                                   *)

\* A family of subsets of a finite set has a member that includes no other.
LEMMA SmallestMember ==
  ASSUME NEW S, IsFiniteSet(S), NEW C, C \subseteq SUBSET S, C # {}
  PROVE  \E s \in C : \A r \in C : r \subseteq s => r = s
<1>1. IsWellFoundedOn(StrictSubsetOrdering(S), SUBSET S)
  BY FS_StrictSubsetOrderingWellFounded, FS_FiniteSubsetsOfFinite
<1>2. PICK s \in C : \A r \in C : <<r, s>> \notin StrictSubsetOrdering(S)
  BY <1>1, WFMin
<1> QED BY <1>2 DEF StrictSubsetOrdering

\* A finite set that is not empty has an element with a greatest key.
LEMMA GreatestKey ==
  ASSUME NEW S, IsFiniteSet(S), S # {}, NEW key, \A s \in S : key[s] \in Int
  PROVE  \E m \in S : \A s \in S : key[s] <= key[m]
<1> SUFFICES ASSUME ~ \E m \in S : \A s \in S : key[s] <= key[m] PROVE FALSE
  OBVIOUS
<1> DEFINE C == {T \in SUBSET S : T # {} /\ ~ \E m \in T : \A s \in T : key[s] <= key[m]}
<1>1. PICK T \in C : \A R \in C : R \subseteq T => R = T
  <2>1. C \subseteq SUBSET S /\ C # {}
    OBVIOUS
  <2> HIDE DEF C
  <2> QED BY <2>1, SmallestMember
<1>2. PICK u \in T : TRUE
  OBVIOUS
<1>3. CASE T = {u}
  BY <1>3
<1>4. CASE T # {u}
  <2>1. T \ {u} # {} /\ T \ {u} # T /\ T \ {u} \in SUBSET S
    BY <1>2, <1>4
  <2>2. PICK m \in T \ {u} : \A s \in T \ {u} : key[s] <= key[m]
    BY <1>1, <2>1
  <2>3. key[m] \in Int /\ key[u] \in Int
    BY <1>2, <2>2
  <2>4. CASE key[m] <= key[u]
    <3>1. \A s \in T : key[s] <= key[u]
      BY <2>2, <2>3, <2>4
    <3> QED BY <1>2, <3>1
  <2>5. CASE key[u] <= key[m]
    <3>1. \A s \in T : key[s] <= key[m]
      BY <2>2, <2>3, <2>5
    <3> QED BY <2>2, <3>1
  <2> QED BY <2>3, <2>4, <2>5
<1> QED BY <1>3, <1>4

\* f lists the elements of S, each once and with ascending keys.
Sorts(f, S, key) ==
  /\ f \in [1..Cardinality(S) -> S]
  /\ IsInjective(f)
  /\ \A i, j \in DOMAIN f : i < j => key[f[i]] <= key[f[j]]

\* A finite set can be sorted: a smallest set that cannot would be one without
\* its greatest element.
LEMMA SortExists ==
  ASSUME NEW S, IsFiniteSet(S), NEW key, \A s \in S : key[s] \in Int
  PROVE  \E f : Sorts(f, S, key)
<1> SUFFICES ASSUME ~ \E f : Sorts(f, S, key) PROVE FALSE
  OBVIOUS
<1> DEFINE C == {T \in SUBSET S : ~ \E f : Sorts(f, T, key)}
<1>1. PICK T \in C : \A R \in C : R \subseteq T => R = T
  <2>1. C \subseteq SUBSET S /\ C # {}
    OBVIOUS
  <2> HIDE DEF C
  <2> QED BY <2>1, SmallestMember
<1>2. IsFiniteSet(T) /\ Cardinality(T) \in Nat /\ \A s \in T : key[s] \in Int
  BY <1>1, FS_Subset, FS_CardinalityType
<1>3. T # {}
  <2>1. SUFFICES ASSUME T = {} PROVE FALSE
    OBVIOUS
  <2> DEFINE f == [i \in 1..0 |-> i]
  <2>2. Cardinality(T) = 0
    BY <2>1, FS_EmptySet
  <2>3. 1..0 = {}
    BY SMT
  <2>4. f \in [1..Cardinality(T) -> T] /\ DOMAIN f = {}
    BY <2>2, <2>3
  <2>5. Sorts(f, T, key)
    BY <2>4, Zenon DEF Sorts, IsInjective
  <2> QED BY <1>1, <2>5
<1>4. PICK m \in T : \A s \in T : key[s] <= key[m]
  BY <1>2, <1>3, GreatestKey
<1> DEFINE R == T \ {m}
           n == Cardinality(T)
<1>5. Cardinality(R) = n - 1 /\ n \in Nat \ {0}
  BY <1>2, <1>3, FS_RemoveElement, FS_EmptySet
<1>6. PICK f : Sorts(f, R, key)
  BY <1>1
<1> DEFINE g == [i \in 1..n |-> IF i = n THEN m ELSE f[i]]
<1> HIDE DEF n
<1>7. \A i \in 1..n : i # n => i \in 1..(n - 1)
  BY <1>5
<1>8. f \in [1..(n - 1) -> R]
  BY <1>5, <1>6 DEF Sorts
<1>9. g \in [1..n -> T]
  BY <1>7, <1>8
<1>10. \A i \in 1..n : (i = n /\ g[i] = m) \/ (i \in 1..(n - 1) /\ g[i] = f[i] /\ g[i] \in R)
  BY <1>7, <1>8
<1>11. IsInjective(g)
  BY <1>6, <1>8, <1>9, <1>10 DEF Sorts, IsInjective
<1>12. ASSUME NEW i \in 1..n, NEW j \in 1..n, i < j PROVE key[g[i]] <= key[g[j]]
  <2>1. i \in 1..(n - 1) /\ g[i] = f[i]
    BY <1>5, <1>10, <1>12
  <2>2. CASE j = n
    BY <1>4, <1>9, <1>10, <1>5, <2>2
  <2>3. CASE j # n
    <3>1. j \in 1..(n - 1) /\ g[j] = f[j]
      BY <1>10, <2>3
    <3> QED BY <1>6, <1>8, <1>12, <2>1, <3>1 DEF Sorts
  <2> QED BY <2>2, <2>3
<1>13. Sorts(g, T, key)
  <2>1. DOMAIN g = 1..n
    BY <1>9
  <2> HIDE DEF g
  <2> QED BY <1>9, <1>11, <1>12, <2>1 DEF Sorts, n
<1> QED BY <1>1, <1>13

\* What Ascending returns: all elements, each once and with ascending keys.
LEMMA AscendingSorts ==
  ASSUME NEW S, IsFiniteSet(S), NEW key, \A s \in S : key[s] \in Int
  PROVE  /\ Ascending(S, key) \in Seq(S) /\ Len(Ascending(S, key)) = Cardinality(S)
         /\ Cardinality(S) \in Nat
         /\ IsInjective(Ascending(S, key))
         /\ \A s \in S : \E i \in 1..Cardinality(S) : Ascending(S, key)[i] = s
         /\ \A i, j \in 1..Cardinality(S) : i < j => key[Ascending(S, key)[i]] <= key[Ascending(S, key)[j]]
<1> DEFINE f == Ascending(S, key)
           n == Cardinality(S)
<1>1. Sorts(f, S, key)
  <2>1. PICK g : Sorts(g, S, key)
    BY SortExists
  <2> QED BY <2>1 DEF Sorts, Ascending
<1>2. n \in Nat
  BY FS_CardinalityType
<1> HIDE DEF f
<1>3. f \in [1..n -> S] /\ IsInjective(f) /\ DOMAIN f = 1..n
  BY <1>1 DEF Sorts
<1>4. f \in Seq(S) /\ Len(f) = n
  <2> HIDE DEF n
  <2> QED BY <1>2, <1>3
<1>5. f \in Surjection(1..n, S)
  <2>1. IsFiniteSet(1..n) /\ Cardinality(1..n) = n
    <3> HIDE DEF n
    <3>1. Cardinality(1..n) = (IF 1 > n THEN 0 ELSE n - 1 + 1) /\ IsFiniteSet(1..n)
      BY <1>2, FS_Interval
    <3> QED BY <1>2, <3>1
  <2>2. f \in Injection(1..n, S)
    BY <1>3, Zenon DEF Injection, IsInjective
  <2> QED BY <2>1, <2>2, FS_Injection
<1>6. \A s \in S : \E i \in 1..n : f[i] = s
  BY <1>5 DEF Surjection
<1>7. \A i, j \in 1..n : i < j => key[f[i]] <= key[f[j]]
  BY <1>1, <1>3 DEF Sorts
<1> QED BY <1>2, <1>3, <1>4, <1>6, <1>7 DEF f

-----------------------------------------------------------------------------
(* What a scan of the dashboard returns.                                   *)

\* The words that are shown for a row.
Words == {"none", "pending", "clean", "flagged", "blocked", "pending_manual_review",
          "Fraud alert", "Clean", "Pending"}
\* A row as a scan returns it.
AnItem == [tx : Txs, status : Words]

\* The transactions that a list of rows tells of, and that it tells each once.
Told(seq)  == {seq[i].tx : i \in 1..Len(seq)}
Apart(seq) == \A i, j \in 1..Len(seq) : i # j => seq[i].tx # seq[j].tx

\* The rows that are asked for.
Matching == {x \in Rows : Matches(x)}

\* A row is shown as a transaction and a word.
LEMMA ItemTyped ==
  ASSUME DeploymentTypeOK, NEW x \in Txs
  PROVE  Item(x) \in AnItem /\ Item(x).tx = x
<1>1. status[x] \in {"none", "pending", "clean", "flagged", "blocked", "pending_manual_review"}
  BY DEF DeploymentTypeOK
<1>2. status[x] \in Words
  BY <1>1, Zenon DEF Words
<1>3. DisplayStatus(x) \in Words
  BY Zenon DEF DisplayStatus, Words
<1>4. (IF view = "explore" THEN DisplayStatus(x) ELSE status[x]) \in Words
  BY <1>2, <1>3, Zenon
<1> QED BY <1>4, Zenon DEF Item, AnItem

\* The first elements of a sequence.
LEMMA FirstOfTells ==
  ASSUME NEW S, NEW seq \in Seq(S), NEW n \in Nat
  PROVE  /\ FirstOf(seq, n) \in Seq(S)
         /\ Len(FirstOf(seq, n)) = (IF n < Len(seq) THEN n ELSE Len(seq))
         /\ \A i \in 1..Len(FirstOf(seq, n)) : i \in 1..Len(seq) /\ FirstOf(seq, n)[i] = seq[i]
<1> DEFINE m == IF n < Len(seq) THEN n ELSE Len(seq)
<1>1. m \in 0..Len(seq) /\ m \in Int /\ 1 \in Int
  OBVIOUS
<1> HIDE DEF m
<1>2. \A i \in 1..m : seq[i] \in S
  BY <1>1
<1>3. /\ SubSeq(seq, 1, m) \in Seq(S)
      /\ Len(SubSeq(seq, 1, m)) = IF 1 <= m THEN m - 1 + 1 ELSE 0
      /\ \A i \in 1..m - 1 + 1 : SubSeq(seq, 1, m)[i] = seq[1 + i - 1]
  BY <1>1, <1>2, SubSeqProperties
<1>4. /\ Len(SubSeq(seq, 1, m)) = m
      /\ \A i \in 1..m : SubSeq(seq, 1, m)[i] = seq[i]
  BY <1>1, <1>3
<1> QED BY <1>1, <1>3, <1>4 DEF FirstOf, m

\* A page of a scan: its rows lie beyond the ones that were read, and it leaves
\* out none before its last one.
LEMMA PageTells ==
  /\ Page \in Seq(Beyond) /\ Range(Page) \subseteq Beyond /\ Beyond \subseteq Txs
  /\ Len(Page) = Cardinality(Beyond) => Range(Page) = Beyond
  /\ Page # <<>> => /\ Page[Len(Page)] \in Beyond
                    /\ \A x \in Beyond : Position[x] <= Position[Page[Len(Page)]] => x \in Range(Page)
                    /\ \A x \in Range(Page) : Position[x] <= Position[Page[Len(Page)]]
<1> DEFINE A == Ascending(Beyond, Position)
           n == Cardinality(Beyond)
<1>1. IsFiniteSet(Beyond) /\ Beyond \subseteq Txs
  BY FS_Subset, DeploymentAssumption DEF Beyond, Rows
<1>2. Position \in [Txs -> Nat \ {0}] /\ IsInjective(Position)
  BY DashboardAssumption, Zenon DEF Injection
<1>3. \A x \in Beyond : Position[x] \in Int
  BY <1>1, <1>2
<1>4. /\ A \in Seq(Beyond) /\ Len(A) = n /\ n \in Nat /\ IsInjective(A)
      /\ \A x \in Beyond : \E i \in 1..n : A[i] = x
      /\ \A i, j \in 1..n : i < j => Position[A[i]] <= Position[A[j]]
  BY <1>1, <1>3, AscendingSorts
<1> HIDE DEF A, n
<1>5. PageSize \in Nat /\ Page = FirstOf(A, PageSize)
  BY DashboardAssumption DEF Page, A
<1>6. /\ Page \in Seq(Beyond) /\ Len(Page) <= n
      /\ \A i \in 1..Len(Page) : i \in 1..n /\ Page[i] = A[i]
  BY <1>4, <1>5, FirstOfTells
<1>7. Range(Page) \subseteq Beyond /\ DOMAIN Page = 1..Len(Page) /\ Len(Page) \in Nat
  BY <1>6 DEF Range
<1>8. ASSUME Len(Page) = n PROVE Range(Page) = Beyond
  <2>1. \A x \in Beyond : \E i \in DOMAIN Page : Page[i] = x
    BY <1>4, <1>6, <1>7, <1>8
  <2> QED BY <1>7, <2>1 DEF Range
<1>9. ASSUME Page # <<>>
      PROVE  /\ Page[Len(Page)] \in Beyond
             /\ \A x \in Beyond : Position[x] <= Position[Page[Len(Page)]] => x \in Range(Page)
             /\ \A x \in Range(Page) : Position[x] <= Position[Page[Len(Page)]]
  <2> DEFINE l == Len(Page)
             y == Page[l]
  <2>1. l \in 1..n /\ l \in 1..Len(Page) /\ y \in Beyond /\ y = A[l]
    BY <1>6, <1>7, <1>9
  <2>2. \A i \in 1..n : Position[A[i]] \in Nat /\ A[i] \in Txs
    BY <1>1, <1>2, <1>4
  <2> HIDE DEF l, y
  <2>3. ASSUME NEW x \in Beyond, Position[x] <= Position[y] PROVE x \in Range(Page)
    <3>1. PICK i \in 1..n : A[i] = x
      BY <1>4
    <3>2. CASE i <= l
      <4>1. i \in DOMAIN Page /\ Page[i] = x
        BY <1>6, <1>7, <3>1, <3>2 DEF l
      <4> QED BY <4>1 DEF Range
    <3>3. CASE l < i
      <4>1. Position[y] <= Position[x]
        BY <1>4, <2>1, <3>1, <3>3
      <4>2. Position[x] = Position[y]
        BY <2>1, <2>2, <2>3, <3>1, <4>1
      <4>3. x = y
        BY <1>2, <2>1, <2>2, <3>1, <4>2 DEF IsInjective
      <4>4. DOMAIN A = 1..n
        BY <1>4
      <4>5. i = l
        BY <1>4, <2>1, <3>1, <4>3, <4>4 DEF IsInjective
      <4> QED BY <3>3, <4>5, <2>1
    <3> QED BY <2>1, <3>1, <3>2, <3>3
  <2>4. ASSUME NEW x \in Range(Page) PROVE Position[x] <= Position[y]
    <3>1. PICK i \in 1..Len(Page) : x = Page[i]
      BY <1>7 DEF Range
    <3>2. CASE i = l
      BY <2>1, <2>2, <3>1, <3>2 DEF y, l
    <3>3. CASE i # l
      <4>1. i \in 1..n /\ x = A[i]
        BY <1>6, <3>1
      <4>2. i < l
        <5>1. i \in 1..l /\ l \in Nat
          BY <1>7 DEF l
        <5> QED BY <3>3, <5>1
      <4> QED BY <1>4, <2>1, <4>1, <4>2
    <3> QED BY <3>2, <3>3
  <2> QED BY <2>1, <2>3, <2>4 DEF l, y
<1> QED BY <1>1, <1>6, <1>7, <1>8, <1>9 DEF n

\* A list that tells each of its transactions once is as long as they are many.
LEMMA ToldCounted ==
  ASSUME NEW seq \in Seq(AnItem), Apart(seq)
  PROVE  IsFiniteSet(Told(seq)) /\ Cardinality(Told(seq)) = Len(seq) /\ Told(seq) \subseteq Txs
<1> DEFINE n == Len(seq)
           f == [i \in 1..n |-> seq[i].tx]
<1>1. n \in Nat /\ \A i \in 1..n : seq[i] \in AnItem
  OBVIOUS
<1>2. \A i \in 1..n : seq[i].tx \in Txs
  BY <1>1 DEF AnItem
<1>3. IsFiniteSet(1..n) /\ Cardinality(1..n) = n
  <2> HIDE DEF n
  <2>1. Cardinality(1..n) = (IF 1 > n THEN 0 ELSE n - 1 + 1) /\ IsFiniteSet(1..n)
    BY <1>1, FS_Interval
  <2> QED BY <1>1, <2>1
<1>4. f \in [1..n -> Told(seq)] /\ \A t \in Told(seq) : \E i \in 1..n : f[i] = t
  BY DEF Told
<1>5. \A i, j \in 1..n : f[i] = f[j] => i = j
  BY DEF Apart
<1> HIDE DEF f, n
<1>6. ExistsBijection(1..n, Told(seq))
  <2>1. f \in Injection(1..n, Told(seq)) /\ f \in Surjection(1..n, Told(seq))
    BY <1>4, <1>5 DEF Injection, Surjection, IsInjective
  <2> QED BY <2>1 DEF ExistsBijection, Bijection
<1>7. IsFiniteSet(Told(seq)) /\ Cardinality(Told(seq)) = n
  BY <1>3, <1>6, FS_Bijection
<1> QED BY <1>2, <1>7 DEF Told, n

\* A page adds to the rows of the scan those of its own that match.
LEMMA ScannedTells ==
  ASSUME DeploymentTypeOK, items \in Seq(AnItem), Apart(items),
         \A x \in Told(items) : x \in Txs /\ Position[x] <= reached, reached \in Nat
  PROVE  /\ Scanned \in Seq(AnItem) /\ Apart(Scanned)
         /\ Told(Scanned) = Told(items) \cup {x \in Range(Page) : Matches(x)}
<1> DEFINE K == {x \in Range(Page) : Matches(x)}
           A == Ascending(K, Position)
           B == [i \in 1..Len(A) |-> Item(A[i])]
<1>1. K \subseteq Beyond /\ Beyond \subseteq Txs
  BY PageTells
<1>2. IsFiniteSet(K)
  BY <1>1, FS_Subset, DeploymentAssumption
<1>3. Position \in [Txs -> Nat \ {0}]
  BY DashboardAssumption, Zenon DEF Injection
<1>4. \A x \in K : Position[x] \in Int
  BY <1>1, <1>3
<1> HIDE DEF K
<1>5. /\ A \in Seq(K) /\ IsInjective(A)
      /\ \A x \in K : \E i \in 1..Len(A) : A[i] = x
  BY <1>2, <1>4, AscendingSorts
<1> HIDE DEF A
<1>6. \A i \in 1..Len(A) : A[i] \in K /\ Item(A[i]) \in AnItem /\ Item(A[i]).tx = A[i]
  BY <1>1, <1>5, ItemTyped
<1>7. Len(A) \in Nat /\ DOMAIN A = 1..Len(A)
  BY <1>5
<1>8. B \in Seq(AnItem) /\ Len(B) = Len(A) /\ \A i \in 1..Len(A) : B[i].tx = A[i]
  BY <1>6, <1>7
<1> HIDE DEF B
<1>9. Scanned = items \o B
  BY DEF Scanned, B, A, K
<1>10. /\ Scanned \in Seq(AnItem) /\ Len(Scanned) = Len(items) + Len(B)
       /\ Len(items) \in Nat
       /\ \A i \in 1..Len(Scanned) :
            \/ i \in 1..Len(items) /\ Scanned[i] = items[i]
            \/ i - Len(items) \in 1..Len(B) /\ i > Len(items) /\ Scanned[i] = B[i - Len(items)]
       /\ \A i \in 1..Len(items) : i \in 1..Len(Scanned) /\ Scanned[i] = items[i]
       /\ \A i \in 1..Len(B) : i + Len(items) \in 1..Len(Scanned) /\ Scanned[i + Len(items)] = B[i]
  <2> DEFINE m == Len(items)
             b == Len(B)
  <2>1. /\ Scanned \in Seq(AnItem) /\ Len(Scanned) = m + b
        /\ \A i \in 1..m + b : Scanned[i] = IF i <= m THEN items[i] ELSE B[i - m]
    <3>1. PICK S : S = AnItem
      OBVIOUS
    <3>2. PICK s \in Seq(S) : s = items
      BY <3>1
    <3>3. PICK t \in Seq(S) : t = B
      BY <1>8, <3>1
    <3>4. /\ s \o t \in Seq(S) /\ Len(s \o t) = Len(s) + Len(t)
          /\ \A i \in 1..Len(s) + Len(t) : (s \o t)[i] = IF i <= Len(s) THEN s[i] ELSE t[i - Len(s)]
      BY ConcatProperties, Zenon
    <3> QED BY <1>9, <3>1, <3>2, <3>3, <3>4, Zenon
  <2>2. m \in Nat /\ b \in Nat
    BY <1>8
  <2> HIDE DEF m, b
  <2>3. \A i \in 1..m + b : \/ i \in 1..m /\ Scanned[i] = items[i]
                            \/ i - m \in 1..b /\ i > m /\ Scanned[i] = B[i - m]
    BY <2>1, <2>2
  <2>4. \A i \in 1..m : i \in 1..m + b /\ Scanned[i] = items[i]
    BY <2>1, <2>2
  <2>5. ASSUME NEW i \in 1..b PROVE i + m \in 1..m + b /\ Scanned[i + m] = B[i]
    <3>1. PICK j \in 1..m + b : j = i + m
      BY <2>2
    <3>2. ~(j <= m) /\ j - m = i
      BY <2>2, <3>1
    <3>3. Scanned[j] = B[j - m]
      BY <2>1, <3>2
    <3> QED BY <3>1, <3>2, <3>3
  <2> QED BY <2>1, <2>2, <2>3, <2>4, <2>5 DEF m, b
<1>11. \A i \in 1..Len(B) : B[i].tx = A[i] /\ A[i] \in K /\ A[i] \in Beyond
  BY <1>1, <1>6, <1>8
<1>12. ASSUME NEW i \in 1..Len(Scanned), NEW j \in 1..Len(Scanned), i # j
       PROVE  Scanned[i].tx # Scanned[j].tx
  <2>1. ASSUME NEW k \in 1..Len(items), NEW l \in 1..Len(B) PROVE items[k].tx # B[l].tx
    <3>1. items[k].tx \in Told(items)
      BY DEF Told
    <3>2. B[l].tx \in Txs /\ Position[B[l].tx] > reached
      BY <1>1, <1>11 DEF Beyond
    <3>3. items[k].tx \in Txs /\ Position[items[k].tx] <= reached
      BY <3>1
    <3> QED BY <1>3, <3>2, <3>3
  <2>2. ASSUME NEW k \in 1..Len(B), NEW l \in 1..Len(B), k # l PROVE B[k].tx # B[l].tx
    BY <1>5, <1>7, <1>8, <1>11, <2>2 DEF IsInjective
  <2>3. CASE i \in 1..Len(items) /\ j \in 1..Len(items)
    BY <1>10, <1>12, <2>3 DEF Apart
  <2>4. CASE i > Len(items) /\ j > Len(items)
    <3>0. \A n \in 1..Len(Scanned) : n > Len(items) =>
            \E k \in 1..Len(B) : k = n - Len(items) /\ Scanned[n] = B[k]
      BY <1>10
    <3>1. PICK k \in 1..Len(B) : k = i - Len(items) /\ Scanned[i] = B[k]
      BY <2>4, <3>0
    <3>2. PICK l \in 1..Len(B) : l = j - Len(items) /\ Scanned[j] = B[l]
      BY <2>4, <3>0, Zenon
    <3>3. k # l
      BY <1>10, <1>12, <2>4, <3>1, <3>2
    <3> QED BY <2>2, <3>1, <3>2, <3>3
  <2>5. CASE i \in 1..Len(items) /\ j > Len(items)
    <3>1. PICK l \in 1..Len(B) : Scanned[j] = B[l]
      BY <1>10, <2>5
    <3>2. Scanned[i] = items[i]
      BY <1>10, <2>5
    <3> QED BY <2>1, <2>5, <3>1, <3>2
  <2>6. CASE i > Len(items) /\ j \in 1..Len(items)
    <3>1. PICK k \in 1..Len(B) : Scanned[i] = B[k]
      BY <1>10, <2>6
    <3>2. Scanned[j] = items[j]
      BY <1>10, <2>6
    <3> QED BY <2>1, <2>6, <3>1, <3>2
  <2> QED BY <1>10, <2>3, <2>4, <2>5, <2>6
<1>13. Told(Scanned) = Told(items) \cup K
  <2>1. ASSUME NEW i \in 1..Len(Scanned) PROVE Scanned[i].tx \in Told(items) \cup K
    <3>1. CASE i \in 1..Len(items) /\ Scanned[i] = items[i]
      BY <3>1 DEF Told
    <3>2. CASE i - Len(items) \in 1..Len(B) /\ Scanned[i] = B[i - Len(items)]
      BY <1>11, <3>2
    <3> QED BY <1>10, <3>1, <3>2
  <2>2. ASSUME NEW i \in 1..Len(items) PROVE items[i].tx \in Told(Scanned)
    BY <1>10 DEF Told
  <2>3. ASSUME NEW x \in K PROVE x \in Told(Scanned)
    <3>1. PICK i \in 1..Len(A) : A[i] = x
      BY <1>5
    <3>2. Scanned[i + Len(items)].tx = x /\ i + Len(items) \in 1..Len(Scanned)
      BY <1>8, <1>10, <3>1
    <3> QED BY <3>2 DEF Told
  <2> QED BY <2>1, <2>2, <2>3 DEF Told
<1> QED BY <1>10, <1>12, <1>13 DEF Apart, K

\* What the explorer shows of the rows of its scan: all of them when they are no
\* more than the limit, each once and newest first.
LEMMA RecentTells ==
  ASSUME NEW told \in Seq(AnItem), Apart(told), ask.limit \in Nat
  PROVE  /\ Recent(told) \in Seq(AnItem) /\ Apart(Recent(told))
         /\ Told(Recent(told)) \subseteq Told(told)
         /\ Len(told) <= ask.limit => Told(told) \subseteq Told(Recent(told))
         /\ \A i, j \in 1..Len(Recent(told)) :
              i < j => Stamp[Recent(told)[i].tx] >= Stamp[Recent(told)[j].tx]
<1> DEFINE F == FirstOf(told, ask.limit)
           K == Range(F)
           key == [i \in K |-> -Stamp[i.tx]]
           R == Ascending(K, key)
<1>1. /\ F \in Seq(AnItem) /\ Len(F) = (IF ask.limit < Len(told) THEN ask.limit ELSE Len(told))
      /\ \A i \in 1..Len(F) : i \in 1..Len(told) /\ F[i] = told[i]
  BY FirstOfTells
<1> HIDE DEF F
<1>2. DOMAIN F = 1..Len(F) /\ Len(F) \in Nat /\ Len(told) \in Nat
  BY <1>1
<1>3. K \subseteq AnItem /\ \A k \in K : \E i \in 1..Len(F) : k = told[i] /\ i \in 1..Len(told)
  BY <1>1, <1>2 DEF Range
<1>4. IsFiniteSet(K)
  <2>1. IsFiniteSet(1..Len(F))
    BY <1>2, FS_Interval
  <2>2. F \in Surjection(1..Len(F), K)
    <3>1. F \in [1..Len(F) -> K]
      BY <1>1, <1>2 DEF Range
    <3>2. \A k \in K : \E i \in 1..Len(F) : F[i] = k
      BY <1>2 DEF Range
    <3> QED BY <3>1, <3>2 DEF Surjection
  <2> QED BY <2>1, <2>2, FS_Surjection
<1>5. Len(told) <= ask.limit => \A i \in 1..Len(told) : told[i] \in K
  <2>1. ASSUME Len(told) <= ask.limit, NEW i \in 1..Len(told) PROVE told[i] \in K
    <3>1. i \in DOMAIN F /\ F[i] = told[i]
      BY <1>1, <1>2, <2>1
    <3> QED BY <3>1 DEF Range
  <2> QED BY <2>1
<1> HIDE DEF K
<1>6. \A k \in K : k.tx \in Txs /\ Stamp[k.tx] \in Nat /\ key[k] = -Stamp[k.tx]
  <2>1. \A k \in K : k.tx \in Txs
    BY <1>3 DEF AnItem
  <2> QED BY <2>1, DashboardAssumption
<1>7. \A k \in K : key[k] \in Int
  BY <1>6
<1> HIDE DEF key
<1>8. /\ R \in Seq(K) /\ IsInjective(R)
      /\ \A k \in K : \E i \in 1..Len(R) : R[i] = k
      /\ \A i, j \in 1..Len(R) : i < j => key[R[i]] <= key[R[j]]
  BY <1>4, <1>7, AscendingSorts
<1> HIDE DEF R
<1>9. Recent(told) = R
  BY DEF Recent, R, K, F, key
<1>10. \A i \in 1..Len(R) : R[i] \in K
  BY <1>8
<1>11. R \in Seq(AnItem) /\ DOMAIN R = 1..Len(R)
  BY <1>3, <1>8
<1>12. \A k, l \in K : k.tx = l.tx => k = l
  BY <1>3 DEF Apart
<1>13. Apart(R)
  BY <1>8, <1>10, <1>11, <1>12 DEF Apart, IsInjective
<1>14. Told(R) \subseteq Told(told)
  <2>1. ASSUME NEW i \in 1..Len(R) PROVE R[i].tx \in Told(told)
    <3>1. PICK j \in 1..Len(told) : R[i] = told[j]
      BY <1>3, <1>10
    <3> QED BY <3>1 DEF Told
  <2> QED BY <2>1 DEF Told
<1>15. ASSUME Len(told) <= ask.limit PROVE Told(told) \subseteq Told(R)
  <2>1. ASSUME NEW i \in 1..Len(told) PROVE told[i].tx \in Told(R)
    <3>1. PICK j \in 1..Len(R) : R[j] = told[i]
      BY <1>5, <1>8, <1>15
    <3> QED BY <3>1 DEF Told
  <2> QED BY <2>1 DEF Told
<1>16. ASSUME NEW i \in 1..Len(R), NEW j \in 1..Len(R), i < j
       PROVE  Stamp[R[i].tx] >= Stamp[R[j].tx]
  <2>1. key[R[i]] <= key[R[j]]
    BY <1>8, <1>16
  <2>2. PICK a \in Nat, b \in Nat : /\ a = Stamp[R[i].tx] /\ b = Stamp[R[j].tx]
                                    /\ key[R[i]] = -a /\ key[R[j]] = -b
    BY <1>6, <1>10
  <2>3. a >= b
    BY <2>1, <2>2
  <2> QED BY <2>2, <2>3
<1> QED BY <1>9, <1>11, <1>13, <1>14, <1>15, <1>16

\* Where a view is: the rows it has returned so far are rows of the table that are
\* asked for, each once; while a scan lasts they are at positions it has reached and
\* leave out none of those there that the table held when the question came.
ScanInv ==
  /\ before \subseteq Rows /\ reached \in Nat /\ ask \in Questions \cup {NoAsk}
  /\ items \in Seq(AnItem) /\ Apart(items) /\ Told(items) \subseteq Matching
  /\ view = "none" => items = <<>> /\ reached = 0
  /\ view \in {"metrics", "metrics depths", "measured"} => ask = NoAsk
  /\ view \in {"explore", "metrics"} =>
       /\ \A x \in Told(items) : Position[x] <= reached
       /\ \A x \in before : Matches(x) /\ Position[x] <= reached => x \in Told(items)
  /\ view \in {"metrics depths", "measured"} => before \subseteq Told(items)
  /\ view = "explored" =>
       /\ Cardinality(Matching) <= ask.limit => \A x \in before : Matches(x) => x \in Told(items)
       /\ \A i, j \in 1..Len(items) : i < j => Stamp[items[i].tx] >= Stamp[items[j].tx]

\* No scan has begun.
LEMMA ScanInit == Init => ScanInv
<1> SUFFICES ASSUME Init PROVE ScanInv
  OBVIOUS
<1>1. /\ view = "none" /\ ask = NoAsk /\ reached = 0 /\ items = <<>> /\ before = {}
  BY DEF Init, DashboardInit
<1>2. <<>> \in Seq(AnItem) /\ Len(<<>>) = 0
  OBVIOUS
<1>3. 1..0 = {}
  OBVIOUS
<1>4. Told(items) = {} /\ Apart(items)
  BY <1>1, <1>2, <1>3 DEF Told, Apart
<1> QED BY <1>1, <1>2, <1>4 DEF ScanInv

\* Every question has a limit.
LEMMA LimitIsNatural == ASSUME ask \in Questions \cup {NoAsk} PROVE ask.limit \in Nat
BY DashboardAssumption DEF NoAsk

\* Rows are asked for by what does not change in them.
LEMMA MatchesStays ==
  ASSUME UNCHANGED ask
  PROVE  \A x : Matches(x)' <=> Matches(x)
BY DEF Matches, Event

\* The table is finite, and so is what is asked for of it.
LEMMA RowsCounted ==
  /\ IsFiniteSet(Rows) /\ Cardinality(Rows) \in Nat
  /\ Matching \subseteq Rows /\ IsFiniteSet(Matching) /\ Cardinality(Matching) \in Nat
  /\ Rows \subseteq Txs
BY FS_Subset, FS_CardinalityType, DeploymentAssumption DEF Rows, Matching

\* Rows that are added while the scan goes on take nothing away from it.
LEMMA ScanStays ==
  ASSUME ScanInv, Onward, UNCHANGED viewVars
  PROVE  ScanInv'
<1>1. UNCHANGED <<view, ask, reached, items, before>>
  BY DEF viewVars
<1>2. Rows \subseteq Rows' /\ \A x : Matches(x)' <=> Matches(x)
  BY <1>1, MatchesStays DEF Onward, Rows
<1>3. Matching \subseteq Matching'
  BY <1>2 DEF Matching
<1>4. IsFiniteSet(Matching') /\ Cardinality(Matching') \in Nat
  BY FS_Subset, FS_CardinalityType, DeploymentAssumption DEF Rows, Matching
<1>5. Cardinality(Matching) <= Cardinality(Matching') /\ Cardinality(Matching) \in Nat
  BY <1>3, <1>4, FS_Subset, RowsCounted
<1>6. ask.limit \in Nat
  BY LimitIsNatural DEF ScanInv
<1>7. Cardinality(Matching') <= ask.limit => Cardinality(Matching) <= ask.limit
  BY <1>4, <1>5, <1>6
<1>8. /\ Told(items)' = Told(items) /\ (Apart(items)' <=> Apart(items))
      /\ (Cardinality(Matching) <= ask.limit)' <=> Cardinality(Matching') <= ask.limit
  BY <1>1 DEF Told, Apart
<1> QED BY <1>1, <1>2, <1>3, <1>7, <1>8 DEF ScanInv

\* What a page leaves to be read.
LEMMA PageGoesOn ==
  ASSUME BaseInv, ScanInv, view \in {"explore", "metrics"}
  PROVE  /\ Scanned \in Seq(AnItem) /\ Apart(Scanned) /\ Told(Scanned) \subseteq Matching
         /\ Page # <<>> =>
              /\ Position[Page[Len(Page)]] \in Nat
              /\ \A x \in Told(Scanned) : Position[x] <= Position[Page[Len(Page)]]
              /\ \A x \in before : Matches(x) /\ Position[x] <= Position[Page[Len(Page)]] => x \in Told(Scanned)
         /\ Len(Page) = Cardinality(Beyond) => \A x \in before : Matches(x) => x \in Told(Scanned)
<1> DEFINE last == Position[Page[Len(Page)]]
<1>1. Position \in [Txs -> Nat \ {0}]
  BY DashboardAssumption, Zenon DEF Injection
<1>2. /\ items \in Seq(AnItem) /\ Apart(items) /\ reached \in Nat /\ DeploymentTypeOK
      /\ \A x \in Told(items) : x \in Txs /\ Position[x] <= reached
  BY RowsCounted DEF ScanInv, BaseInv
<1>3. /\ Scanned \in Seq(AnItem) /\ Apart(Scanned)
      /\ Told(Scanned) = Told(items) \cup {x \in Range(Page) : Matches(x)}
  BY <1>2, ScannedTells
<1>4. \A x \in Beyond : x \in Rows /\ Position[x] > reached /\ Position[x] \in Nat
  BY <1>1, RowsCounted DEF Beyond
<1>5. Told(Scanned) \subseteq Matching
  BY <1>3, <1>4, PageTells DEF ScanInv, Matching
<1>6. ASSUME NEW x \in before, Matches(x)
      PROVE  x \in Told(items) \/ x \in Beyond
  <2>1. x \in Rows /\ Position[x] \in Nat
    BY <1>1, RowsCounted DEF ScanInv
  <2>2. CASE Position[x] <= reached
    BY <1>6, <2>2 DEF ScanInv
  <2>3. CASE Position[x] > reached
    BY <2>1, <2>3 DEF Beyond
  <2> QED BY <1>2, <2>1, <2>2, <2>3
<1>7. ASSUME Page # <<>>
      PROVE  /\ last \in Nat
             /\ \A x \in Told(Scanned) : Position[x] <= last
             /\ \A x \in before : Matches(x) /\ Position[x] <= last => x \in Told(Scanned)
  <2>1. last \in Nat /\ last > reached
    BY <1>4, <1>7, PageTells
  <2>2. \A x \in Told(items) : Position[x] <= last
    BY <1>1, <1>2, <2>1
  <2>3. \A x \in Range(Page) : Position[x] <= last
    BY <1>7, PageTells
  <2>4. \A x \in Beyond : Position[x] <= last => x \in Range(Page)
    BY <1>7, PageTells
  <2> HIDE DEF last
  <2> QED BY <1>3, <1>6, <2>1, <2>2, <2>3, <2>4
<1>8. ASSUME Len(Page) = Cardinality(Beyond)
      PROVE  \A x \in before : Matches(x) => x \in Told(Scanned)
  BY <1>3, <1>6, <1>8, PageTells
<1> QED BY <1>3, <1>5, <1>7, <1>8

\* The explorer has enough: if no more rows match than the limit, it has them all.
LEMMA ExploreEnds ==
  ASSUME BaseInv, ScanInv, view = "explore",
         Len(Page) = Cardinality(Beyond) \/ Len(Scanned) >= ask.limit
  PROVE  /\ Recent(Scanned) \in Seq(AnItem) /\ Apart(Recent(Scanned))
         /\ Told(Recent(Scanned)) \subseteq Matching
         /\ Cardinality(Matching) <= ask.limit =>
              \A x \in before : Matches(x) => x \in Told(Recent(Scanned))
         /\ \A i, j \in 1..Len(Recent(Scanned)) :
              i < j => Stamp[Recent(Scanned)[i].tx] >= Stamp[Recent(Scanned)[j].tx]
<1> DEFINE told == Scanned
<1>1. /\ told \in Seq(AnItem) /\ Apart(told) /\ Told(told) \subseteq Matching
      /\ Len(Page) = Cardinality(Beyond) => \A x \in before : Matches(x) => x \in Told(told)
  BY PageGoesOn
<1>2. ask.limit \in Nat
  BY LimitIsNatural DEF ScanInv
<1>e. Len(Page) = Cardinality(Beyond) \/ Len(told) >= ask.limit
  OBVIOUS
<1> HIDE DEF told
<1>3. /\ Recent(told) \in Seq(AnItem) /\ Apart(Recent(told))
      /\ Told(Recent(told)) \subseteq Told(told)
      /\ Len(told) <= ask.limit => Told(told) \subseteq Told(Recent(told))
      /\ \A i, j \in 1..Len(Recent(told)) :
           i < j => Stamp[Recent(told)[i].tx] >= Stamp[Recent(told)[j].tx]
  BY <1>1, <1>2, RecentTells
<1>4. IsFiniteSet(Told(told)) /\ Cardinality(Told(told)) = Len(told) /\ Len(told) \in Nat
  BY <1>1, ToldCounted
<1>5. Cardinality(Told(told)) <= Cardinality(Matching) /\ Cardinality(Matching) \in Nat
  BY <1>1, RowsCounted, FS_Subset
<1>6. ASSUME Cardinality(Matching) <= ask.limit, NEW x \in before, Matches(x)
      PROVE  x \in Told(Recent(told))
  <2>1. Len(told) <= ask.limit
    BY <1>2, <1>4, <1>5, <1>6
  <2>2. x \in Matching
    BY <1>6 DEF ScanInv, Matching
  <2>3. CASE Len(Page) = Cardinality(Beyond)
    BY <1>1, <1>3, <1>6, <2>1, <2>3
  <2>4. CASE Len(told) >= ask.limit
    <3>1. Cardinality(Told(told)) = Cardinality(Matching)
      BY <1>2, <1>4, <1>5, <1>6, <2>4
    <3>2. Told(told) = Matching
      BY <1>1, <3>1, RowsCounted, FS_Subset
    <3> QED BY <1>3, <2>1, <2>2, <3>2
  <2> QED BY <1>e, <2>3, <2>4
<1>7. Told(Recent(told)) \subseteq Matching
  BY <1>1, <1>3
<1> QED BY <1>3, <1>6, <1>7 DEF told

\* A step of a view.
LEMMA ScanStep ==
  ASSUME BaseInv, ScanInv, ViewStep, UNCHANGED theRest, Onward
  PROVE  ScanInv'
<1>0. /\ UNCHANGED status /\ Rows' = Rows /\ \A y : HasRow(y)' <=> HasRow(y)
  BY DEF theRest, flowVars, Rows, HasRow
<1>1. ASSUME UNCHANGED ask
      PROVE  Matching' = Matching /\ \A x : Matches(x)' <=> Matches(x)
  BY <1>0, <1>1, MatchesStays DEF Matching
<1>2. ASSUME UNCHANGED items
      PROVE  Told(items)' = Told(items) /\ (Apart(items)' <=> Apart(items))
  BY <1>2 DEF Told, Apart
<1>3. ASSUME NEW v \in {"explore", "metrics", "services"}, NEW question \in Questions \cup {NoAsk},
             Ask(v, question), v = "metrics" => question = NoAsk
      PROVE  ScanInv'
  <2>1. /\ items = <<>> /\ reached = 0 /\ UNCHANGED <<items, reached>>
        /\ view' = v /\ ask' = question /\ before' = Rows
    BY <1>3 DEF Ask, ScanInv
  <2>2. <<>> \in Seq(AnItem) /\ Len(<<>>) = 0 /\ 1..0 = {}
    OBVIOUS
  <2>3. Told(items) = {}
    BY <2>1, <2>2 DEF Told
  <2>4. \A x \in Rows : Position[x] \in Nat \ {0}
    <3>1. Position \in [Txs -> Nat \ {0}]
      BY DashboardAssumption, Zenon DEF Injection
    <3> QED BY <3>1, RowsCounted
  <2>5. \A x \in Rows : ~(Position[x] <= 0)
    BY <2>4
  <2> QED BY <1>0, <1>2, <1>3, <2>1, <2>3, <2>5 DEF ScanInv
<1>4. CASE ScanPage
  <2>1. /\ view \in {"explore", "metrics"} /\ UNCHANGED <<ask, before>>
    BY <1>4 DEF ScanPage
  <2>2. \/ /\ view = "explore" /\ view' = "explored" /\ UNCHANGED reached
           /\ Len(Page) = Cardinality(Beyond) \/ Len(Scanned) >= ask.limit
           /\ items' = Recent(Scanned)
        \/ /\ view = "metrics" /\ view' = "metrics depths" /\ UNCHANGED reached
           /\ Len(Page) = Cardinality(Beyond)
           /\ items' = Scanned
        \/ /\ UNCHANGED view /\ Page # <<>>
           /\ items' = Scanned /\ reached' = Position[Page[Len(Page)]]
    <3>1. PICK last \in {b \in BOOLEAN : IF b THEN Len(Page) = Cardinality(Beyond) ELSE Page # <<>>} :
       CASE view = "explore" /\ (last \/ Len(Scanned) >= ask.limit) ->
              items' = Recent(Scanned) /\ view' = "explored" /\ UNCHANGED <<reached, toRead>>
         [] view = "metrics" /\ last ->
              items' = Scanned /\ view' = "metrics depths" /\ toRead' = MetricQueues /\ UNCHANGED reached
         [] OTHER ->
              /\ items' = Scanned /\ reached' = Position[Page[Len(Page)]]
              /\ UNCHANGED <<view, toRead>>
      BY <1>4, Zenon DEF ScanPage
    <3>2. last \in BOOLEAN /\ IF last THEN Len(Page) = Cardinality(Beyond) ELSE Page # <<>>
      BY <3>1, Zenon
    <3>3. CASE view = "explore" /\ (last \/ Len(Scanned) >= ask.limit)
      <4>1. items' = Recent(Scanned) /\ view' = "explored" /\ UNCHANGED reached
        BY <3>1, <3>3, Zenon
      <4> QED BY <3>2, <3>3, <4>1, Zenon
    <3>4. CASE view = "metrics" /\ last
      <4>1. items' = Scanned /\ view' = "metrics depths" /\ UNCHANGED reached
        BY <3>1, <3>4, Zenon
      <4> QED BY <3>2, <3>4, <4>1, Zenon
    <3>5. CASE ~(view = "explore" /\ (last \/ Len(Scanned) >= ask.limit)) /\ ~(view = "metrics" /\ last)
      <4>1. items' = Scanned /\ reached' = Position[Page[Len(Page)]] /\ UNCHANGED view
        BY <3>1, <3>5, Zenon
      <4>2. ~last
        BY <2>1, <3>5, Zenon
      <4> QED BY <3>2, <4>1, <4>2, Zenon
    <3> QED BY <3>3, <3>4, <3>5, Zenon
  <2>3. Matching' = Matching /\ \A x : Matches(x)' <=> Matches(x)
    BY <1>1, <2>1
  <2>4. /\ Scanned \in Seq(AnItem) /\ Apart(Scanned) /\ Told(Scanned) \subseteq Matching
        /\ Page # <<>> =>
             /\ Position[Page[Len(Page)]] \in Nat
             /\ \A x \in Told(Scanned) : Position[x] <= Position[Page[Len(Page)]]
             /\ \A x \in before : Matches(x) /\ Position[x] <= Position[Page[Len(Page)]] => x \in Told(Scanned)
        /\ Len(Page) = Cardinality(Beyond) => \A x \in before : Matches(x) => x \in Told(Scanned)
    BY <2>1, PageGoesOn
  <2>5. before \subseteq Rows /\ reached \in Nat /\ ask \in Questions \cup {NoAsk}
        /\ (view = "metrics" => ask = NoAsk)
    BY DEF ScanInv
  <2>6. Told(items)' = Told(items') /\ (Apart(items)' <=> Apart(items'))
    BY DEF Told, Apart
  <2>7. CASE /\ view = "explore" /\ view' = "explored" /\ UNCHANGED reached
             /\ Len(Page) = Cardinality(Beyond) \/ Len(Scanned) >= ask.limit
             /\ items' = Recent(Scanned)
    <3> DEFINE r == Recent(Scanned)
    <3>1. /\ r \in Seq(AnItem) /\ Apart(r) /\ Told(r) \subseteq Matching
          /\ Cardinality(Matching) <= ask.limit => \A x \in before : Matches(x) => x \in Told(r)
          /\ \A i, j \in 1..Len(r) : i < j => Stamp[r[i].tx] >= Stamp[r[j].tx]
      BY <2>7, ExploreEnds
    <3>2. items' = r
      BY <2>7
    <3> HIDE DEF r
    <3> QED BY <1>0, <2>1, <2>3, <2>5, <2>6, <2>7, <3>1, <3>2 DEF ScanInv
  <2>8. CASE /\ view = "metrics" /\ view' = "metrics depths" /\ UNCHANGED reached
             /\ Len(Page) = Cardinality(Beyond)
             /\ items' = Scanned
    <3>1. ask = NoAsk
      BY <2>5, <2>8
    <3>2. \A x \in before : Matches(x)
      BY <3>1 DEF Matches, NoAsk
    <3> QED BY <1>0, <2>1, <2>3, <2>4, <2>5, <2>6, <2>8, <3>1, <3>2 DEF ScanInv
  <2>9. CASE /\ UNCHANGED view /\ Page # <<>>
             /\ items' = Scanned /\ reached' = Position[Page[Len(Page)]]
    <3> DEFINE l == Position[Page[Len(Page)]]
               s == Scanned
    <3>1. /\ s \in Seq(AnItem) /\ Apart(s) /\ Told(s) \subseteq Matching
          /\ l \in Nat /\ \A x \in Told(s) : Position[x] <= l
          /\ \A x \in before : Matches(x) /\ Position[x] <= l => x \in Told(s)
          /\ items' = s /\ reached' = l
      BY <2>4, <2>9
    <3> HIDE DEF l, s
    <3> QED BY <1>0, <2>1, <2>3, <2>5, <2>6, <2>9, <3>1 DEF ScanInv
  <2> QED BY <2>2, <2>7, <2>8, <2>9
<1>5. CASE ViewFails \/ DescribeServices
  <2>1. /\ UNCHANGED <<ask, reached, items, before>>
        /\ view' \in {"500", "status depths"}
    BY <1>5 DEF ViewFails, DescribeServices
  <2> QED BY <1>0, <1>1, <1>2, <2>1 DEF ScanInv
<1>6. CASE AddDepth \/ Reply
  <2>1. /\ UNCHANGED <<ask, reached, items, before>>
        /\ \/ UNCHANGED view
           \/ view = "metrics depths" /\ view' = "measured"
           \/ view' = "seen"
    BY <1>6 DEF AddDepth, Reply
  <2> QED BY <1>0, <1>1, <1>2, <2>1 DEF ScanInv
<1>7. CASE \E x \in Traffic : Arrives(x)
  <2>1. UNCHANGED viewVars
    BY <1>7 DEF Arrives
  <2> QED BY <2>1, ScanStays
<1>8. CASE \E question \in Questions : Ask("explore", question)
  BY <1>3, <1>8
<1>9. CASE Ask("metrics", NoAsk) \/ Ask("services", NoAsk)
  BY <1>3, <1>9
<1> QED BY <1>4, <1>5, <1>6, <1>7, <1>8, <1>9 DEF ViewStep

\* Rows that are inserted while the pages are read displace none, for any table,
\* question, limit and size of the pages: the explorer shows every row that matched
\* when it was asked unless more match than its limit, once and newest first, and
\* the metrics count each row that was there once.
THEOREM ScansComplete == Spec => []ScansAreComplete
<1> DEFINE IInv == BaseInv /\ ScanInv
<1>1. Init => IInv
  BY BaseInit, ScanInit
<1>2. IInv /\ [Next]_vars => IInv'
  <2> SUFFICES ASSUME IInv, [Next]_vars PROVE IInv'
    OBVIOUS
  <2>1. BaseInv' /\ Onward
    BY BaseStep
  <2>2. (ViewStep /\ UNCHANGED theRest) \/ UNCHANGED viewVars
    BY OneMoves
  <2> QED BY <2>1, <2>2, ScanStep, ScanStays
<1>3. IInv => ScansAreComplete
  <2> SUFFICES ASSUME ScanInv PROVE ScansAreComplete
    OBVIOUS
  <2>0. DOMAIN items = 1..Len(items) /\ Len(items) \in Nat
    <3>1. items \in Seq(AnItem)
      BY Zenon DEF ScanInv
    <3> QED BY <3>1
  <2>1. \A x \in Told(items) : Shown(x)
    BY <2>0 DEF Told, Shown
  <2>2. ASSUME view = "explored"
        PROVE  /\ Cardinality({x \in Rows : Matches(x)}) <= ask.limit =>
                    \A x \in before : Matches(x) => Shown(x)
               /\ \A i, j \in DOMAIN items :
                    i < j => items[i].tx # items[j].tx /\ Stamp[items[i].tx] >= Stamp[items[j].tx]
    <3>1. Cardinality({x \in Rows : Matches(x)}) <= ask.limit =>
            \A x \in before : Matches(x) => Shown(x)
      BY <2>1, <2>2 DEF ScanInv, Matching
    <3>2. ASSUME NEW i \in DOMAIN items, NEW j \in DOMAIN items, i < j
          PROVE  items[i].tx # items[j].tx /\ Stamp[items[i].tx] >= Stamp[items[j].tx]
      <4>1. i \in 1..Len(items) /\ j \in 1..Len(items) /\ i # j
        BY <2>0, <3>2
      <4> QED BY <2>2, <3>2, <4>1 DEF ScanInv, Apart
    <3> QED BY <3>1, <3>2
  <2>3. ASSUME view = "measured" PROVE Len(items) \in Cardinality(before)..Cardinality(Rows)
    <3>1. before \subseteq Told(items) /\ Told(items) \subseteq Rows
      BY <2>3, RowsCounted DEF ScanInv
    <3>2. IsFiniteSet(Told(items)) /\ Cardinality(Told(items)) = Len(items)
      BY ToldCounted DEF ScanInv
    <3>3. Cardinality(before) <= Len(items) /\ Cardinality(before) \in Nat
      BY <3>1, <3>2, FS_Subset, FS_CardinalityType
    <3>4. Len(items) <= Cardinality(Rows) /\ Cardinality(Rows) \in Nat
      BY <3>1, <3>2, FS_Subset, RowsCounted
    <3> QED BY <2>0, <3>3, <3>4
  <2> QED BY <2>2, <2>3 DEF ScansAreComplete
<1> HIDE DEF IInv
<1> QED BY <1>1, <1>2, <1>3, PTL DEF Spec

-----------------------------------------------------------------------------
(* The types of the tools' own variables.                                  *)

\* What Script leaves out of the type of verify_system.py.
ScriptTypes ==
  /\ tries \in 0..Retries /\ (\A r \in rows : r.tx \in Txs)
  /\ fails \subseteq Verified \X Findings /\ denied \in BOOLEAN /\ calm \in BOOLEAN

\* What a check reports as failed is a word.
LEMMA WhatFails ==
  /\ Tasks \subseteq Findings
  /\ {"depth"} \subseteq Findings /\ {"bucket"} \subseteq Findings /\ {"objects"} \subseteq Findings
  /\ {"POST"} \subseteq Findings /\ {"row"} \subseteq Findings /\ {ProcessedTx} \subseteq Findings
  /\ check_low_value \subseteq Findings /\ check_high_value \subseteq Findings
  /\ check_fraud_detection \subseteq Findings /\ check_risk_limit \subseteq Findings
<1> USE DEF Findings
<1>1. /\ Tasks \subseteq Findings
      /\ {"depth"} \subseteq Findings /\ {"bucket"} \subseteq Findings /\ {"objects"} \subseteq Findings
      /\ {"POST"} \subseteq Findings /\ {"row"} \subseteq Findings
  OBVIOUS
<1>2. {ProcessedTx} \subseteq Findings
  BY DEF ProcessedTx
<1>3. check_low_value \subseteq Findings
  BY DEF check_low_value
<1>4. check_high_value \subseteq Findings
  BY DEF check_high_value
<1>5. check_fraud_detection \subseteq Findings
  BY DEF check_fraud_detection
<1>6. check_risk_limit \subseteq Findings
  BY DEF check_risk_limit
<1> QED BY <1>1, <1>2, <1>3, <1>4, <1>5, <1>6

\* Reporting keeps the type of what is reported.
LEMMA FailsTyped ==
  ASSUME fails \subseteq Verified \X Findings, current \in Verified, NEW what, what \subseteq Findings,
         Fails(what)
  PROVE  fails' \subseteq Verified \X Findings
<1>1. \A w \in what : <<current, w>> \in Verified \X Findings
  BY Zenon
<1>2. fails' = fails \cup {<<current, w>> : w \in what}
  BY DEF Fails
<1> QED BY <1>1, <1>2, Zenon

\* The script begins with nothing read or reported.
LEMMA ScriptTypesInit == Init => ScriptTypes
<1> SUFFICES ASSUME Init PROVE ScriptTypes
  OBVIOUS
<1>1. PICK p \in Plans : VerifyInit(p)
  BY DEF Init
<1>2. p.denied \in BOOLEAN /\ Retries \in Nat
  BY VerifyAssumption
<1> QED BY <1>1, <1>2 DEF VerifyInit, ScriptTypes

\* Every step of the script keeps the types of what it has read and reported.
LEMMA ScriptTypesStep ==
  ASSUME BaseInv, ScriptTypes, VerifyStep
  PROVE  ScriptTypes'
<1> USE DEF ScriptTypes
<1>0. /\ Retries \in Nat /\ tries \in 0..Retries /\ denied \in BOOLEAN /\ calm \in BOOLEAN
      /\ \A r \in rows : r.tx \in Txs
      /\ fails \subseteq Verified \X Findings
  BY VerifyAssumption
<1>c. /\ step = "check" /\ at <= Len(plan) => current \in Verified
      /\ step \in {"sent", "fetch", "probe"} => current \in Verified
  BY DEF BaseInv, Script, current, Verified
<1>1. CASE Look
  <2>1. UNCHANGED <<tries, rows, denied>> /\ calm' \in BOOLEAN /\ current \in Verified
    BY <1>0, <1>1, <1>c DEF Look, check_service_health, check_queue_status, check_audit_trail
  <2>2. \E what : what \subseteq Findings /\ Fails(what)
    <3>1. CASE check_service_health
      <4>1. {t \in Tasks : ~Running(t)} \subseteq Findings
        BY WhatFails
      <4> QED BY <3>1, <4>1, Zenon DEF check_service_health
    <3>2. CASE check_queue_status
      <4>1. \E unreadable \in BOOLEAN : Fails(IF unreadable THEN {"depth"} ELSE {})
        BY <3>2, Zenon DEF check_queue_status
      <4>2. \A b \in BOOLEAN : (IF b THEN {"depth"} ELSE {}) \subseteq Findings
        BY WhatFails
      <4> QED BY <4>1, <4>2, Zenon
    <3>3. CASE check_audit_trail
      <4>1. \E unreadable \in BOOLEAN :
              Fails(IF unreadable THEN {"bucket"} ELSE IF objects = <<>> THEN {"objects"} ELSE {})
        BY <3>3, Zenon DEF check_audit_trail
      <4>2. \A b \in BOOLEAN :
              (IF b THEN {"bucket"} ELSE IF objects = <<>> THEN {"objects"} ELSE {}) \subseteq Findings
        BY WhatFails
      <4> QED BY <4>1, <4>2, Zenon
    <3> QED BY <1>1, <3>1, <3>2, <3>3, Zenon DEF Look
  <2> QED BY <1>0, <2>1, <2>2, FailsTyped
<1>2. CASE StartPosting BY <1>0, <1>2 DEF StartPosting
<1>3. CASE Post         BY <1>0, <1>3 DEF Post
<1>4. CASE PostReturns
  <2>1. UNCHANGED <<tries, rows, denied>> /\ calm' \in BOOLEAN /\ current \in Verified
        /\ (UNCHANGED fails \/ Fails({"POST"}))
    BY <1>0, <1>4, <1>c DEF PostReturns
  <2> QED BY <1>0, <2>1, WhatFails, FailsTyped
<1>5. CASE Posted       BY <1>0, <1>5 DEF Posted
<1>6. CASE Sleep        BY <1>0, <1>6 DEF Sleep
<1>7. CASE dynamo_get_with_retry
  <2>1. UNCHANGED <<fails, denied, calm>> /\ tries' \in 0..Retries
    BY <1>0, <1>7 DEF dynamo_get_with_retry
  <2>2. rows' = rows \/ rows' = rows \cup {Row(Head(left))}
    BY <1>7 DEF dynamo_get_with_retry
  <2>3. Head(left) \in Txs
    BY <1>7 DEF dynamo_get_with_retry, BaseInv, Script
  <2>4. Row(Head(left)).tx = Head(left)
    BY DEF Row
  <2> QED BY <1>0, <2>1, <2>2, <2>3, <2>4
<1>8. CASE Dies         BY <1>0, <1>8 DEF Dies
<1>9. CASE Evaluate
  <2>1. UNCHANGED <<tries, rows, denied, calm>> /\ current \in Verified
    BY <1>9, <1>c DEF Evaluate
  <2>2. \/ Fails({"row"}) \/ Fails(check_low_value) \/ Fails(check_high_value)
        \/ Fails(check_fraud_detection) \/ Fails(check_risk_limit)
    BY <1>9, Zenon DEF Evaluate
  <2> QED BY <1>0, <2>1, <2>2, WhatFails, FailsTyped
<1>10. CASE RunProbe
  <2>1. UNCHANGED <<tries, rows, denied>> /\ current \in Verified
    BY <1>10, <1>c DEF RunProbe
  <2>2. sqs_depth => calm' \in BOOLEAN /\ (Fails({ProcessedTx}) \/ Fails({}))
    BY <1>0 DEF sqs_depth
  <2>3. cw_has_log => \/ sqs_depth
                      \/ calm' \in BOOLEAN /\ (UNCHANGED fails \/ Fails({ProcessedTx}) \/ Fails({}))
    <3>0. calm \in BOOLEAN
      BY <1>0
    <3> SUFFICES ASSUME cw_has_log
                 PROVE  \/ sqs_depth
                        \/ calm' \in BOOLEAN /\ (UNCHANGED fails \/ Fails({ProcessedTx}) \/ Fails({}))
      OBVIOUS
    <3> QED BY <3>0 DEF cw_has_log
  <2>4. calm' \in BOOLEAN /\ (UNCHANGED fails \/ Fails({ProcessedTx}) \/ Fails({}))
    BY <1>10, <2>2, <2>3 DEF RunProbe
  <2>5. {} \subseteq Findings
    OBVIOUS
  <2> QED BY <1>0, <2>1, <2>4, <2>5, WhatFails, FailsTyped
<1>11. CASE EndCheck    BY <1>0, <1>11 DEF EndCheck
<1>12. CASE Exit        BY <1>0, <1>12 DEF Exit
<1> QED BY <1>1, <1>2, <1>3, <1>4, <1>5, <1>6, <1>7, <1>8, <1>9, <1>10, <1>11, <1>12
        DEF VerifyStep

\* The type of verify_system.py.
LEMMA VerifyTyped == BaseInv /\ ScriptTypes => VerifyTypeOK
BY DEF BaseInv, Script, ScriptTypes, VerifyTypeOK, AProbe, ProbeKinds

\* The type of reconcile.py.
LEMMA ReconcileTyped ==
  ASSUME BaseInv, VerdictInv, ReconcileTypeOK, BaseInv',
         ReconcileStep \/ UNCHANGED reconcileVars
  PROVE  ReconcileTypeOK'
<1>0. /\ pending \subseteq Nat /\ found \in Nat /\ missingRows \subseteq Txs
      /\ totalDlq \in Nat /\ duplicates \subseteq Txs /\ misread \in BOOLEAN /\ settled \in BOOLEAN
  BY Zenon DEF ReconcileTypeOK
<1>1. \A i \in DOMAIN csv' : csv'[i] \in [tx : Txs, status : {"202", "failed"}, ids : BOOLEAN]
  <2>1. csv' \in Seq(CsvRow)
    BY DEF BaseInv, Submission
  <2>2. \A i \in DOMAIN csv' : csv'[i] \in CsvRow
    BY <2>1
  <2> QED BY <2>2, Zenon DEF CsvRow
<1>l. /\ unclaimed' \in 1..Len(AuditTxs) + 1
      /\ inFlight' \subseteq 1..unclaimed' - 1 /\ Cardinality(inFlight') <= LoadUsers
  BY DEF BaseInv, Submission
<1>2. \A i \in Accepted : i \in Nat /\ csv[i].tx \in Txs
  BY AcceptedIsStored DEF Filed
<1>3. CASE UNCHANGED reconcileVars
  BY <1>3, Zenon DEF reconcileVars, loadingVars, ReconcileTypeOK
<1>4. CASE submit_audit_transaction \/ (\E n \in inFlight : write_row(n)) \/ quit
  BY <1>0, <1>1, <1>l, <1>4, Zenon DEF submit_audit_transaction, write_row, quit, ReconcileTypeOK
<1>5. CASE read_csv
  <2>1. (\A x \in posted, s \in Services : q[x][s] # "queue") \in BOOLEAN
    OBVIOUS
  <2>2. settled' \in BOOLEAN
    BY <1>5, Zenon DEF read_csv
  <2>3. pending' \subseteq Nat
    BY <1>2, <1>5 DEF read_csv
  <2>4. stage' \in {"rows", "no rows"} /\ UNCHANGED <<found, missingRows, totalDlq, duplicates, misread>>
    BY <1>5, Zenon DEF read_csv
  <2> QED BY <1>0, <1>1, <1>l, <2>2, <2>3, <2>4, Zenon DEF ReconcileTypeOK
<1>6. CASE check_dynamo
  <2> DEFINE i == Min(pending)
             row == csv[i]
  <2>1. i \in Accepted /\ pending \subseteq Nat
    <3>1. pending \subseteq Accepted /\ pending # {} /\ pending \subseteq Nat
      BY <1>0, <1>6, Zenon DEF check_dynamo, VerdictInv
    <3> QED BY <3>1, MinIsThere
  <2>2. row.tx \in Txs
    BY <1>2, <2>1
  <2>3. PICK answered \in BOOLEAN :
          /\ IF row.ids /\ answered /\ HasRow(row.tx)
             THEN found' = found + 1 /\ UNCHANGED missingRows
             ELSE missingRows' = missingRows \cup {row.tx} /\ UNCHANGED found
          /\ misread' = (misread \/ ~answered \/ ~row.ids)
    BY <1>6 DEF check_dynamo
  <2>4. misread' \in BOOLEAN
    BY <2>3, Zenon
  <2>5. pending' = pending \ {i} /\ UNCHANGED <<stage, csv, totalDlq, duplicates, settled>>
    BY <1>6 DEF check_dynamo
  <2> HIDE DEF row, i
  <2>6. found' \in Nat /\ missingRows' \subseteq Txs
    <3>1. \/ found' = found + 1 /\ UNCHANGED missingRows
          \/ missingRows' = missingRows \cup {row.tx} /\ UNCHANGED found
      BY <2>3, Zenon
    <3> QED BY <1>0, <2>2, <3>1
  <2>7. pending' \subseteq Nat
    BY <1>0, <2>5
  <2> QED BY <1>0, <1>1, <1>l, <2>4, <2>5, <2>6, <2>7, Zenon DEF ReconcileTypeOK
<1>7. CASE RowsDone \/ scan_duplicates \/ ReadRaises \/ print_report \/ DlqsDone
  <2>1. duplicates' \subseteq Txs
    BY <1>0, <1>7 DEF RowsDone, scan_duplicates, ReadRaises, print_report, DlqsDone
  <2>2. /\ stage' \in {"s3", "report", "died", "reconciled", "issues", "scan"}
        /\ UNCHANGED <<pending, found, missingRows, totalDlq, misread, settled>>
    BY <1>7 DEF RowsDone, scan_duplicates, ReadRaises, print_report, DlqsDone
  <2> QED BY <1>0, <1>1, <1>l, <2>1, <2>2, Zenon DEF ReconcileTypeOK
<1>8. CASE count_s3_audit_entries
  <2>1. DOMAIN DLQS \subseteq Nat
    <3>1. DOMAIN DLQS = 1..5
      BY SMT DEF DLQS
    <3> QED BY <3>1
  <2>2. /\ stage' = "dlqs" /\ pending' = DOMAIN DLQS
        /\ UNCHANGED <<found, missingRows, totalDlq, duplicates, misread, settled>>
    BY <1>8 DEF count_s3_audit_entries
  <2> QED BY <1>0, <1>1, <1>l, <2>1, <2>2, Zenon DEF ReconcileTypeOK
<1>9. CASE check_dlqs
  <2>1. PICK d \in DlqReadings(DLQS[Min(pending)]) \cup {-1} :
          /\ totalDlq' = IF d > 0 THEN totalDlq + d ELSE totalDlq
          /\ misread' = (misread \/ d = -1)
    BY <1>9 DEF check_dlqs
  <2>2. d \in Nat \cup {-1}
    BY ReadingTells
  <2>3. totalDlq' \in Nat
    <3>1. totalDlq' = totalDlq \/ (d > 0 /\ totalDlq' = totalDlq + d)
      BY <2>1, Zenon
    <3> QED BY <1>0, <2>2, <3>1
  <2>4. misread' \in BOOLEAN
    BY <2>1, Zenon
  <2>5. pending' \subseteq pending /\ UNCHANGED <<stage, csv, found, missingRows, duplicates, settled>>
    BY <1>9 DEF check_dlqs
  <2>6. pending' \subseteq Nat
    BY <1>0, <2>5
  <2> QED BY <1>0, <1>1, <1>l, <2>3, <2>4, <2>5, <2>6, Zenon DEF ReconcileTypeOK
<1> QED BY <1>3, <1>4, <1>5, <1>6, <1>7, <1>8, <1>9 DEF ReconcileStep

\* The type of cascade_report.py.
LEMMA CascadeTyped ==
  ASSUME BaseInv, ReportInv, CascadeTypeOK, (CascadeStep /\ UNCHANGED theRest) \/ UNCHANGED cascadeVars
  PROVE  CascadeTypeOK'
<1>1. CASE (\E x \in Experiments : Experiment(x)) \/ UNCHANGED cascadeVars
  BY <1>1, Zenon DEF Experiment, cascadeVars, windowVars, CascadeTypeOK
<1>2. CASE RowsBegin
  <2>1. older' \subseteq Txs
    <3>1. posted \subseteq Txs
      BY DEF BaseInv, DeploymentTypeOK
    <3> QED BY <1>2, <3>1 DEF RowsBegin
  <2>2. /\ window' = "rows"
        /\ UNCHANGED <<olderObjects, section, degraded, unprocessed, deadLetters, stored, listed, says,
                       quiet, unaccounted>>
    BY <1>2, Zenon DEF RowsBegin
  <2> QED BY <2>1, <2>2, Zenon DEF CascadeTypeOK
<1>3. CASE ObjectsBegin
  <2>1. Len(objects) \in Nat
    BY DEF BaseInv, DeploymentTypeOK
  <2> QED BY <1>3, <2>1, Zenon DEF ObjectsBegin, CascadeTypeOK
<1>4. CASE check_ecs
  <2>1. AtRest \in BOOLEAN
    BY Zenon DEF AtRest
  <2>2. /\ degraded' \subseteq Tasks /\ section' = "queues" /\ quiet' = AtRest
        /\ UNCHANGED <<windowVars, unprocessed, deadLetters, stored, listed, says, unaccounted>>
    BY <1>4 DEF check_ecs
  <2> QED BY <2>1, <2>2, Zenon DEF CascadeTypeOK, windowVars
<1>5. CASE check_queues
  <2>1. unprocessed' \in Nat /\ deadLetters' \in Nat
    BY <1>5, AlertsCounted DEF check_queues
  <2>2. section' = "dynamo" /\ UNCHANGED <<windowVars, degraded, stored, listed, says, quiet, unaccounted>>
    BY <1>5 DEF check_queues
  <2> QED BY <2>1, <2>2, Zenon DEF CascadeTypeOK, windowVars
<1>6. CASE count_dynamo
  <2>1. stored' \in Nat \cup {-1} /\ unaccounted' \subseteq Txs
    BY <1>6, StoredCounted DEF count_dynamo, InWindow
  <2>2. section' = "s3" /\ UNCHANGED <<windowVars, degraded, unprocessed, deadLetters, listed, says, quiet>>
    BY <1>6 DEF count_dynamo
  <2> QED BY <2>1, <2>2, Zenon DEF CascadeTypeOK, windowVars
<1>7. CASE count_s3
  <2>1. listed' \in Nat \cup {-1}
    <3>1. Len(objects) \in Nat /\ olderObjects \in 0..Len(objects)
      BY <1>7 DEF BaseInv, DeploymentTypeOK, ReportInv
    <3> QED BY <1>7, <3>1 DEF count_s3
  <2>2. unaccounted' \subseteq Txs
    <3>1. unaccounted \subseteq Txs
      BY Zenon DEF CascadeTypeOK
    <3> QED BY <1>7, <3>1 DEF count_s3
  <2>3. section' = "discrepancy" /\ UNCHANGED <<windowVars, degraded, unprocessed, deadLetters, stored, says, quiet>>
    BY <1>7 DEF count_s3
  <2> QED BY <2>1, <2>2, <2>3, Zenon DEF CascadeTypeOK, windowVars
<1>8. CASE run_report
  <2>1. says' \subseteq {"not in S3", "more objects", "match", "dead letters",
                         "no dead letters", "cannot compute"}
    BY <1>8, Zenon DEF run_report, Gap
  <2>2. section' = "end" /\ UNCHANGED <<windowVars, degraded, unprocessed, deadLetters, stored, listed,
                                        quiet, unaccounted>>
    BY <1>8, Zenon DEF run_report
  <2> QED BY <2>1, <2>2, Zenon DEF CascadeTypeOK, windowVars
<1>9. CASE ReadFails
  BY <1>9, Zenon DEF ReadFails, CascadeTypeOK, windowVars
<1> QED BY <1>1, <1>2, <1>3, <1>4, <1>5, <1>6, <1>7, <1>8, <1>9 DEF CascadeStep

\* What LogInv and ScanInv leave out of the type of the dashboard.
QueueRead == [sum : Sums, of : Tasks]

DashboardTypes ==
  /\ accepted \subseteq Chaos
  /\ view \in Phases
  /\ toRead \in Seq(QueueRead) /\ Len(toRead) <= 12
  /\ depths \in [Sums -> Nat]
  /\ healthy \subseteq Tasks

\* The dashboard begins with nothing accepted, read or shown.
LEMMA DashboardTypesInit == Init => DashboardTypes
<1> SUFFICES ASSUME Init PROVE DashboardTypes
  OBVIOUS
<1>1. /\ accepted = {} /\ view = "none" /\ toRead = <<>> /\ depths = [n \in Sums |-> 0] /\ healthy = {}
  BY DEF Init, DashboardInit
<1>2. <<>> \in Seq(QueueRead) /\ Len(<<>>) <= 12
  OBVIOUS
<1>3. view \in Phases
  BY <1>1, Zenon DEF Phases
<1> QED BY <1>1, <1>2, <1>3 DEF DashboardTypes

\* The queues of the sums.
LEMMA QueuesTyped ==
  /\ MetricQueues \in Seq(QueueRead) /\ Len(MetricQueues) <= 12
  /\ StatusQueues \in Seq(QueueRead) /\ Len(StatusQueues) <= 12
<1>1. ASSUME NEW where \in {"queue", "dlq"}
      PROVE  QueuesOf(where) \in Seq(QueueRead) /\ Len(QueuesOf(where)) = 6
  <2> DEFINE Of(n, s) == [sum |-> <<n, where>>, of |-> s]
  <2>1. \A n \in {"high", "low", "alert"}, s \in Tasks : Of(n, s) \in QueueRead
    BY Zenon DEF QueueRead, Sums
  <2>2. \A s \in {"fraud", "risk", "compliance", "analytics", "audit-logging", "alert"} : s \in Tasks
    BY DEF Tasks, FilteredServices, UnfilteredServices
  <2>3. /\ Of("high", "fraud") \in QueueRead /\ Of("high", "risk") \in QueueRead
        /\ Of("high", "compliance") \in QueueRead /\ Of("low", "analytics") \in QueueRead
        /\ Of("low", "audit-logging") \in QueueRead /\ Of("alert", "alert") \in QueueRead
    BY <2>1, <2>2
  <2>4. QueuesOf(where) = <<Of("high", "fraud"), Of("high", "risk"), Of("high", "compliance"),
                            Of("low", "analytics"), Of("low", "audit-logging"), Of("alert", "alert")>>
    BY Zenon DEF QueuesOf
  <2> HIDE DEF Of
  <2> QED BY <2>3, <2>4
<1>2. /\ QueuesOf("queue") \in Seq(QueueRead) /\ Len(QueuesOf("queue")) = 6
      /\ QueuesOf("dlq") \in Seq(QueueRead) /\ Len(QueuesOf("dlq")) = 6
  BY <1>1
<1>3. /\ QueuesOf("queue") \o QueuesOf("dlq") \in Seq(QueueRead)
      /\ Len(QueuesOf("queue") \o QueuesOf("dlq")) = 12
  <2>1. PICK a \in Seq(QueueRead) : a = QueuesOf("queue") /\ Len(a) = 6
    BY <1>2
  <2>2. PICK b \in Seq(QueueRead) : b = QueuesOf("dlq") /\ Len(b) = 6
    BY <1>2
  <2>3. a \o b \in Seq(QueueRead) /\ Len(a \o b) = Len(a) + Len(b)
    BY ConcatProperties, Zenon
  <2>4. Len(a \o b) = 12
    <3>1. Len(a \o b) = 6 + 6
      BY <2>1, <2>2, <2>3, Zenon
    <3>2. 6 + 6 = 12
      OBVIOUS
    <3> QED BY <3>1, <3>2, Zenon
  <2>5. a \o b = QueuesOf("queue") \o QueuesOf("dlq")
    BY <2>1, <2>2, Zenon
  <2> QED BY <2>3, <2>4, <2>5, Zenon
<1>4. MetricQueues = QueuesOf("queue") /\ StatusQueues = QueuesOf("queue") \o QueuesOf("dlq")
  BY Zenon DEF MetricQueues, StatusQueues
<1>5. 6 <= 12 /\ 12 <= 12
  OBVIOUS
<1> QED BY <1>2, <1>3, <1>4, <1>5, Zenon

\* A queue holds a number of messages.
LEMMA DepthCounted == ASSUME NEW s, NEW where PROVE Depth(s, where) \in Nat
<1> DEFINE D == {x \in Txs : s \in Services /\ q[x][s] = where}
<1>1. IsFiniteSet(D)
  BY FS_Subset, DeploymentAssumption
<1>2. Cardinality(D) \in Nat
  BY <1>1, FS_CardinalityType
<1> HIDE DEF D
<1>3. \A place : AlertsIn(place) \in Nat
  BY AlertsCounted
<1> QED BY <1>2, <1>3 DEF Depth, D

\* Every step of the dashboard keeps those types.
LEMMA DashboardTypesStep ==
  ASSUME DashboardTypes, [Next]_vars
  PROVE  DashboardTypes'
<1>0. /\ accepted \subseteq Chaos /\ view \in Phases
      /\ toRead \in Seq(QueueRead) /\ Len(toRead) <= 12
      /\ depths \in [Sums -> Nat] /\ healthy \subseteq Tasks
  BY DEF DashboardTypes
<1>1. accepted' \subseteq Chaos
  <2>1. CASE UNCHANGED chaosVars
    BY <1>0, <2>1 DEF chaosVars
  <2>2. ASSUME NEW r \in Chaos, ChaosStep(r) PROVE accepted' \subseteq Chaos
    <3>1. accepted' \in {accepted, accepted \cup {r}}
      BY <2>2 DEF ChaosStep, UpdateService, ReadDelay, SetDelay, Prepend, Assign, Trim
    <3> QED BY <1>0, <3>1
  <2> QED BY <2>1, <2>2, OneMoves
<1>2. CASE UNCHANGED viewVars
  BY <1>0, <1>1, <1>2 DEF viewVars, DashboardTypes
<1>3. CASE ViewStep /\ ~(UNCHANGED viewVars)
  <2>1. view' \in Phases
    <3>1. \/ view' \in {"explore", "metrics", "services", "explored", "500", "seen", "measured"}
          \/ view' = "metrics depths" \/ view' = "status depths" \/ UNCHANGED view
      BY <1>3, Zenon DEF ViewStep, Ask, ScanPage, ViewFails, DescribeServices, AddDepth, Reply, Arrives, viewVars
    <3> QED BY <1>0, <3>1, Zenon DEF Phases
  <2>2. /\ toRead' \in {toRead, MetricQueues, StatusQueues} \/ (toRead # <<>> /\ toRead' = Tail(toRead))
        /\ healthy' \in {healthy, {t \in Tasks : Running(t)}}
    BY <1>3, Zenon DEF ViewStep, Ask, ScanPage, ViewFails, DescribeServices, AddDepth, Reply, Arrives, viewVars
  <2>3. toRead' \in Seq(QueueRead) /\ Len(toRead') <= 12
    <3>1. CASE toRead' \in {toRead, MetricQueues, StatusQueues}
      BY <1>0, <3>1, QueuesTyped
    <3>2. CASE toRead # <<>> /\ toRead' = Tail(toRead)
      <4>1. Tail(toRead) \in Seq(QueueRead) /\ Len(Tail(toRead)) = Len(toRead) - 1 /\ Len(toRead) \in Nat
        BY <1>0, <3>2
      <4> QED BY <1>0, <3>2, <4>1
    <3> QED BY <2>2, <3>1, <3>2
  <2>4. depths' \in [Sums -> Nat]
    <3>1. CASE AddDepth
      <4> DEFINE next == Head(toRead)
      <4>1. toRead # <<>> /\ \E d \in 0..Depth(next.of, next.sum[2]) :
               depths' = [depths EXCEPT ![next.sum] = @ + d]
        BY <3>1, Zenon DEF AddDepth
      <4>2. next \in QueueRead
        BY <1>0, <4>1
      <4>3. next.sum \in Sums
        BY <4>2 DEF QueueRead
      <4> HIDE DEF next
      <4>4. PICK n \in Nat : n = Depth(next.of, next.sum[2])
        BY DepthCounted
      <4>5. PICK d \in 0..n : depths' = [depths EXCEPT ![next.sum] = @ + d]
        BY <4>1, <4>4
      <4>6. PICK k \in Sums : k = next.sum
        BY <4>3
      <4>7. depths[k] + d \in Nat
        BY <1>0, <4>5, <4>6
      <4> QED BY <1>0, <4>5, <4>6, <4>7
    <3>2. CASE ~AddDepth
      <4>1. UNCHANGED depths
        BY <1>3, <3>2, Zenon DEF ViewStep, Ask, ScanPage, ViewFails, DescribeServices, Reply, Arrives, viewVars
      <4> QED BY <1>0, <4>1
    <3> QED BY <3>1, <3>2
  <2>5. healthy' \subseteq Tasks
    BY <1>0, <2>2
  <2> QED BY <1>1, <2>1, <2>3, <2>4, <2>5 DEF DashboardTypes
<1> QED BY <1>2, <1>3, OneMoves

\* The type of the dashboard.
LEMMA DashboardTyped == LogInv /\ ScanInv /\ DashboardTypes => DashboardTypeOK
<1> SUFFICES ASSUME LogInv, ScanInv, DashboardTypes PROVE DashboardTypeOK
  OBVIOUS
<1>1. /\ thread \in [Chaos -> {"new", "read", "log", "assign", "trim", "cut", "ok", "500"}]
      /\ local \in [Chaos -> Seq(Chaos \cup {0, 3000})]
      /\ delays \in {0, 3000} /\ events \in Seq(Chaos)
  <2>1. PICK U : U = Unlogged \cup Holding \cup {"trim", "ok"}
    OBVIOUS
  <2>2. U = {"new", "read", "log", "assign", "trim", "cut", "ok", "500"}
    BY <2>1 DEF Unlogged, Holding
  <2>3. /\ thread \in [Chaos -> U] /\ local \in [Chaos -> Seq(Chaos \cup {0, 3000})]
        /\ delays \in {0, 3000} /\ events \in Seq(Chaos)
    BY <2>1 DEF LogInv, IsLog
  <2> QED BY <2>2, <2>3
<1>2. ask \in Questions \cup {NoAsk} /\ reached \in Nat /\ before \subseteq Txs
  <2>1. ask \in Questions \cup {NoAsk} /\ reached \in Nat /\ before \subseteq Rows
    BY Zenon DEF ScanInv
  <2> QED BY <2>1, RowsCounted
<1>3. \A i \in DOMAIN items : items[i].tx \in Txs
  <2>1. items \in Seq(AnItem)
    BY Zenon DEF ScanInv
  <2>2. \A i \in DOMAIN items : items[i] \in AnItem
    BY <2>1
  <2>3. \A a \in AnItem : a.tx \in Txs
    BY DEF AnItem
  <2> QED BY <2>2, <2>3
<1>4. /\ accepted \subseteq Chaos /\ view \in Phases /\ Len(toRead) <= 12
      /\ depths \in [Sums -> Nat] /\ healthy \subseteq Tasks
  BY DEF DashboardTypes
<1> QED BY <1>1, <1>2, <1>3, <1>4 DEF DashboardTypeOK

\* The users of the load test, and what they post.
LEMMA UsersTyped ==
  ASSUME OnCourse, users \in Nat, over \in BOOLEAN, [Next]_vars
  PROVE  users' \in Nat /\ over' \in BOOLEAN
<1>1. CASE tick
  <2>1. CASE Ahead(runTime) = {}
    BY <1>1, <2>1 DEF tick
  <2>2. CASE Ahead(runTime) # {}
    <3>1. PICK i \in 1..11 : Current(runTime) = _STAGES[i]
      BY <2>2, CurrentStage DEF OnCourse
    <3>2. users' = Towards(users, Goal(i), Rate(i)) /\ over' = over
      BY <1>1, <2>2, <3>1 DEF tick, Goal, Rate
    <3>3. PICK g \in Nat, r \in Nat : g = Goal(i) /\ r = Rate(i)
      BY StagesFit
    <3>4. Towards(users, g, r) \in Nat
      BY <3>3, TowardsAdds
    <3> QED BY <3>2, <3>3, <3>4
  <2> QED BY <2>1, <2>2
<1>2. CASE _post_transaction
  BY <1>2 DEF _post_transaction
<1>3. CASE UNCHANGED loadVars
  BY <1>3 DEF loadVars
<1> QED BY <1>1, <1>2, <1>3, OneMoves DEF LoadStep

\* A task of the load test posts a valid request.
LEMMA PostsAreValid == PostInv => lastPost = NoPost \/ ValidRequest(lastPost.body)
<1> SUFFICES ASSUME PostInv, lastPost # NoPost PROVE ValidRequest(lastPost.body)
  OBVIOUS
<1>0. PICK task \in {"low", "medium", "high"}, type \in TransactionTypes :
        \E amount \in AmountOf[task] : lastPost = [task |-> task, body |-> Payload(amount, type)]
  BY Zenon DEF PostInv
<1>1. PICK amount \in AmountOf[task] : lastPost = [task |-> task, body |-> Payload(amount, type)]
  BY <1>0
<1>2. amount > 0
  <2>1. /\ Dollars(10) = 1000 /\ Dollars(1000) = 100000 /\ Dollars(10000) = 1000000
        /\ Dollars(100000) = 10000000
    BY SMT DEF Dollars
  <2>2. /\ AmountOf["low"] = Dollars(10)..Dollars(1000) - 1
        /\ AmountOf["medium"] = Dollars(1000)..Dollars(10000) - 1
        /\ AmountOf["high"] = Dollars(10000)..Dollars(100000)
    BY SMT DEF AmountOf
  <2>3. CASE task = "low"
    BY <2>1, <2>2, <2>3, SMT
  <2>4. CASE task = "medium"
    BY <2>1, <2>2, <2>4, SMT
  <2>5. CASE task = "high"
    BY <2>1, <2>2, <2>5, SMT
  <2> QED BY <2>3, <2>4, <2>5, Zenon
<1>3. PICK body : body = Payload(amount, type)
  OBVIOUS
<1>4. /\ body.user # "" /\ body.currency # ""
      /\ body.priority \in Priorities \cup {""}
      /\ body.type = type /\ body.amount = amount
  BY <1>3, Zenon DEF Payload
<1>5. lastPost.body = body
  BY <1>1, <1>3, Zenon
<1>6. ValidRequest(body)
  BY <1>1, <1>2, <1>4, Zenon DEF ValidRequest
<1> QED BY <1>5, <1>6, Zenon

\* The parts of the inductive invariant of TypeOK.
TypesInv ==
  /\ BaseInv /\ VerdictInv /\ ReportInv /\ ScanInv /\ LogInv /\ OnCourse /\ PostInv
  /\ ScriptTypes /\ ReconcileTypeOK /\ CascadeTypeOK /\ DashboardTypes
  /\ users \in Nat /\ over \in BOOLEAN /\ tool \in Tools

\* Every variable keeps its type, for any instance, whichever tool is run.
THEOREM ObserversTyped == Spec => []TypeOK
<1>1. Init => TypesInv
  <2> SUFFICES ASSUME Init PROVE TypesInv
    OBVIOUS
  <2>1. /\ BaseInv /\ VerdictInv /\ ReportInv /\ ScanInv /\ LogInv /\ OnCourse /\ PostInv
        /\ ScriptTypes /\ DashboardTypes
    BY BaseInit, VerdictInit, ReportInit, ScanInit, LogInit, OnCourseInit, PostInit, ScriptTypesInit, DashboardTypesInit
  <2>2. ReconcileTypeOK
    <3>1. /\ stage = "submit" /\ csv = <<>> /\ pending = {} /\ found = 0 /\ missingRows = {}
          /\ totalDlq = 0 /\ duplicates = {} /\ misread = FALSE /\ settled = FALSE
      BY DEF Init, ReconcileInit
    <3>l. /\ unclaimed \in 1..Len(AuditTxs) + 1
          /\ inFlight \subseteq 1..unclaimed - 1 /\ Cardinality(inFlight) <= LoadUsers
      BY SubmissionInit DEF Submission
    <3>2. DOMAIN <<>> = {} /\ 0 \in Nat
      OBVIOUS
    <3>3. \A i \in DOMAIN csv : FALSE
      BY <3>1, <3>2
    <3> QED BY <3>1, <3>2, <3>3, <3>l, Zenon DEF ReconcileTypeOK
  <2>3. CascadeTypeOK
    <3>1. 0 \in Nat
      OBVIOUS
    <3> QED BY <3>1, Zenon DEF Init, CascadeInit, CascadeTypeOK
  <2>4. users \in Nat /\ over \in BOOLEAN /\ tool \in Tools
    BY DEF Init, LoadInit
  <2> QED BY <2>1, <2>2, <2>3, <2>4 DEF TypesInv
<1>2. TypesInv /\ [Next]_vars => TypesInv'
  <2> SUFFICES ASSUME TypesInv, [Next]_vars PROVE TypesInv'
    OBVIOUS
  <2> USE DEF TypesInv
  <2>1. BaseInv' /\ Onward
    BY BaseStep
  <2>2. VerdictInv' /\ ReportInv'
    BY <2>1, OneMoves, VerdictStep, VerdictStays, ReportStep
  <2>3. ScanInv'
    BY <2>1, OneMoves, ScanStep, ScanStays
  <2>4. LogInv' /\ OnCourse' /\ PostInv'
    BY LogStep, OnCourseStep, PostStep
  <2>5. ScriptTypes'
    <3>1. CASE UNCHANGED verifyVars
      BY <3>1 DEF verifyVars, ScriptTypes
    <3> QED BY <3>1, OneMoves, ScriptTypesStep
  <2>6. ReconcileTypeOK' /\ CascadeTypeOK'
    BY <2>1, OneMoves, ReconcileTyped, CascadeTyped
  <2>7. DashboardTypes'
    BY DashboardTypesStep
  <2>8. users' \in Nat /\ over' \in BOOLEAN /\ tool' \in Tools
    <3>1. tool' = tool
      BY OneMoves
    <3> QED BY <3>1, UsersTyped
  <2> QED BY <2>1, <2>2, <2>3, <2>4, <2>5, <2>6, <2>7, <2>8
<1>3. TypesInv => TypeOK
  <2> SUFFICES ASSUME TypesInv PROVE TypeOK
    OBVIOUS
  <2>1. VerifyTypeOK /\ DashboardTypeOK
    BY VerifyTyped, DashboardTyped DEF TypesInv
  <2>2. LoadTypeOK
    BY PostsAreValid DEF TypesInv, LoadTypeOK, OnCourse
  <2>3. tool \in Tools /\ DeploymentTypeOK /\ ReconcileTypeOK /\ CascadeTypeOK
    BY DEF TypesInv, BaseInv
  <2> QED BY <2>1, <2>2, <2>3 DEF TypeOK
<1> QED BY <1>1, <1>2, <1>3, PTL DEF Spec

-----------------------------------------------------------------------------
(* verify_system.py when nothing goes wrong.                               *)

\* Some fraud pattern matches.
Suspicious(x) == detectPatterns(Event(x)) # {}

\* Nothing about x was lost on its way, and only services on its route have it.
Unhindered(x) ==
  /\ reply[x] # "failed" /\ "dlq" \notin alerts[x]
  /\ \A s \in Services : /\ q[x][s] # "dlq" /\ (q[x][s] # "none" => s \in Route(x))
                         /\ <<x, s>> \in judged => q[x][s] # "none"

\* All tasks run, and nothing but the transactions of the checks has been sent.
Undisturbed ==
  /\ ~reviewers /\ \A t \in Tasks : Running(t)
  /\ \A x \in posted : \E k \in Posting : x \in Sent(k)
  /\ \A x \in Txs : Unhindered(x)

\* The row of x tells which services have judged it, and what they found: whoever wrote
\* last, fraud leaves its id, and only risk blocks.  Judged for audit is buffered or stored.
Found(x) ==
  /\ status[x] # "pending_manual_review"
  /\ status[x] = "blocked" => reason[x] = "risk_limit_exceeded" /\ "breach_id" \in attrs[x]
  /\ status[x] = "clean" => ~Suspicious(x)
  /\ status[x] \notin {"none", "pending"} => \E s \in FilteredServices : <<x, s>> \in judged
  /\ status[x] \in {"none", "pending"} => <<x, "fraud">> \notin judged
  /\ <<x, "fraud">> \in judged /\ Suspicious(x) => "alert_id" \in attrs[x] /\ alerts[x] # {}
  /\ "breach_id" \in attrs[x] => <<x, "risk">> \in judged
  /\ <<x, "audit-logging">> \in judged => x \in buffer \/ objects # <<>>

\* The transactions of check k that risk has counted, and the ones it has reported.
Counted(k) == {x \in Sent(k) : <<x, "risk">> \in judged}
Breached   == {x \in Txs : "breach_id" \in attrs[x]}

\* The user of check k has spent what was counted; the first one was allowed, and past the
\* limit one was not.
Enforced(k) ==
  \A x \in Sent(k) :
    /\ spent[Body[x].user] = Cardinality(Counted(k)) * Body[x].amount
    /\ Counted(k) # {} => Counted(k) \ Breached # {}
    /\ Cardinality(Counted(k)) * Body[x].amount > DailyLimit => Counted(k) \cap Breached # {}

\* The deployment while nothing has gone wrong.
Orderly == Undisturbed /\ (\A x \in Txs : Found(x)) /\ Enforced("fraud") /\ Enforced("risk")

\* What it does then: it writes and accepts, judges once and wholly, deletes,
\* sends the alert and stores the buffer.
Serves(x) ==
  /\ x \in posted /\ (Write(x) \/ Accept(x, Route(x)))
  /\ UNCHANGED <<posted, choices, rowVars, spent, alerts, auditVars, tasks, hitches>>

Handles(x, s) == Attempt(x, s, TRUE, TRUE) /\ <<x, s>> \notin judged /\ UNCHANGED hitches

Finishes(x, s) ==
  /\ q[x][s] = "queue" /\ <<x, s>> \in judged /\ q' = [q EXCEPT ![x][s] = "deleted"]
  /\ UNCHANGED <<reply, status, judged, reviewed, posted, choices, rowVars, spent, alerts, auditVars, tasks, hitches>>

Tells(x) ==
  /\ "queued" \in alerts[x] /\ alerts' = [alerts EXCEPT ![x] = (@ \ {"queued"}) \cup {"dispatched"}]
  /\ UNCHANGED <<flowVars, posted, choices, rowVars, spent, auditVars, tasks, hitches>>

Stores ==
  /\ buffer # {} /\ buffer' = {} /\ objects' = Append(objects, buffer)
  /\ UNCHANGED <<flowVars, posted, choices, rowVars, spent, alerts, tasks, hitches>>

QuietStep ==
  \/ \E x \in Txs : Serves(x) \/ Tells(x)
  \/ \E x \in Txs, s \in subscribed : Handles(x, s) \/ Finishes(x, s)
  \/ Stores

\* While all tasks run and nothing has been lost, a step that costs no hitch is one of these.
LEMMA NothingGoesWrong ==
  ASSUME DeploymentTypeOK, Undisturbed, DeploymentNext, hitches' = 0
  PROVE  QuietStep
<1>1. hitches \in Nat /\ ~Hitch
  BY DeploymentAssumption DEF DeploymentTypeOK, Hitch
<1>2. \A t \in Tasks : Running(t)
  BY DEF Undisturbed
<1>3. "transaction" \in Tasks
  BY DEF Tasks
<1>4. ASSUME NEW x \in Txs, Serve(x) PROVE Serves(x)
  BY <1>1, <1>2, <1>3, <1>4 DEF Serve, Serves, Calm
<1>5. ASSUME NEW x \in Txs, Dispatch(x) PROVE Tells(x)
  BY <1>1, <1>5 DEF Dispatch, Tells, Calm
<1>6. ASSUME NEW x \in Txs, NEW s \in subscribed, NEW wrote \in BOOLEAN, NEW done \in BOOLEAN,
             Attempt(x, s, wrote, done)
      PROVE  Handles(x, s)
  <2>1. wrote /\ done /\ <<x, s>> \notin judged /\ Calm
    BY <1>1, <1>6 DEF Attempt
  <2>2. wrote = TRUE /\ done = TRUE
    BY <2>1
  <2> QED BY <1>6, <2>1, <2>2 DEF Handles, Calm
<1>7. ASSUME NEW x \in Txs, NEW s \in subscribed, Settles(x, s) \/ Reviews(x, s)
      PROVE  Finishes(x, s)
  <2>1. s \in Services
    BY DEF DeploymentTypeOK
  <2>2. ~reviewers /\ q[x][s] # "dlq"
    BY <2>1 DEF Undisturbed, Unhindered
  <2> QED BY <1>1, <1>7, <2>2 DEF Settles, Reviews, Delete, Calm, Finishes
<1>8. Flush => Stores
  BY <1>1 DEF Flush, Stores, Calm
<1>9. ASSUME NEW t \in Tasks PROVE ~Stops(t) /\ ~Restarts(t)
  BY <1>1, <1>2 DEF Stops, Restarts
<1> QED BY <1>4, <1>5, <1>6, <1>7, <1>8, <1>9 DEF DeploymentNext, QuietStep

\* What an attempt that goes well leaves at its transaction.
LEMMA HandlesMarks ==
  ASSUME DeploymentTypeOK, NEW x \in Txs, NEW s \in subscribed, Handles(x, s)
  PROVE  LET f == Finding(x, s) IN
         /\ s \in Services /\ q[x][s] = "queue" /\ <<x, s>> \notin judged
         /\ status' = [status EXCEPT ![x] = f.status]
         /\ reason' = [reason EXCEPT ![x] = f.reason]
         /\ attrs' = [attrs EXCEPT ![x] = @ \cup f.ids]
         /\ judged' = judged \cup {<<x, s>>}
         /\ spent' = IF s = "risk" THEN [spent EXCEPT ![Body[x].user] = @ + Body[x].amount] ELSE spent
         /\ alerts' = IF f.ids \cap {"alert_id", "breach_id"} # {}
                      THEN [alerts EXCEPT ![x] = @ \cup {"queued"}] ELSE alerts
         /\ buffer' = IF s = "audit-logging" THEN buffer \cup {x} ELSE buffer
         /\ UNCHANGED <<reply, q, reviewed, posted, subscribed, reviewers, objects, tasks, hitches>>
BY DEF Handles, Attempt, Handle, DeploymentTypeOK, choices

\* Such a step loses nothing, and no service judges what was not routed to it.
LEMMA UndisturbedStays ==
  ASSUME DeploymentTypeOK, FlowInv, Undisturbed,
         QuietStep
  PROVE  Undisturbed'
<1> USE DEF QuietStep, flowVars, choices, rowVars, auditVars
<1>0. /\ UNCHANGED <<posted, reviewers, subscribed, tasks>>
  BY DEF Serves, Tells, Handles, Attempt, Finishes, Stores
<1>1. \A x \in Txs : Route(x)' = Route(x)
  BY <1>0 DEF Route, Event
<1>2. ~reviewers' /\ (\A t \in Tasks : Running(t)') /\ \A x \in posted' : \E k \in Posting : x \in Sent(k)
  BY <1>0 DEF Undisturbed, Running
<1> SUFFICES ASSUME NEW y \in Txs PROVE Unhindered(y)'
  BY <1>2 DEF Undisturbed
<1>3. /\ Unhindered(y) /\ \A t \in Services : q[y][t] # "none" => reply[y] # "none"
  BY DEF Undisturbed, FlowInv
<1>4. /\ reply \in [Txs -> {"none", "202", "failed"}] /\ q \in [Txs -> [Services -> {"none", "queue", "dlq", "deleted"}]]
      /\ alerts \in [Txs -> SUBSET {"queued", "dispatched", "dlq"}]
  BY DEF DeploymentTypeOK
<1>5. UNCHANGED <<reply, q, judged, alerts>> => Unhindered(y)'
  BY <1>1, <1>3 DEF Unhindered
<1>6. ASSUME NEW x \in Txs, Serves(x) PROVE Unhindered(y)'
  <2>1. CASE Write(x)
    BY <1>5, <1>6, <2>1 DEF Write, Serves
  <2>2. CASE Accept(x, Route(x))
    <3>1. /\ reply[x] = "none" /\ reply' = [reply EXCEPT ![x] = "202"] /\ judged' = judged /\ alerts' = alerts
          /\ q' = [q EXCEPT ![x] = [s \in Services |-> IF s \in Route(x) THEN "queue" ELSE "none"]]
      BY <1>6, <2>2 DEF Accept, Replies, Delivers, Serves
    <3>2. CASE y = x
      <4>1. reply'[y] = "202" /\ q'[y] = [s \in Services |-> IF s \in Route(x) THEN "queue" ELSE "none"]
        BY <1>4, <3>1, <3>2
      <4>2. \A t \in Services : <<y, t>> \notin judged
        BY <1>3, <3>1, <3>2 DEF Unhindered
      <4> QED BY <1>1, <1>3, <3>1, <3>2, <4>1, <4>2 DEF Unhindered
    <3>3. CASE y # x
      <4>1. reply'[y] = reply[y] /\ q'[y] = q[y]
        BY <1>4, <3>1, <3>3
      <4> QED BY <1>1, <1>3, <3>1, <4>1 DEF Unhindered
    <3> QED BY <3>2, <3>3
  <2> QED BY <1>6, <2>1, <2>2 DEF Serves
<1>7. ASSUME NEW x \in Txs, Tells(x) PROVE Unhindered(y)'
  <2>1. alerts'[y] \subseteq alerts[y] \cup {"dispatched"} /\ UNCHANGED <<reply, q, judged>>
    BY <1>4, <1>7 DEF Tells
  <2> QED BY <1>1, <1>3, <2>1 DEF Unhindered
<1>8. ASSUME NEW x \in Txs, NEW s \in subscribed, Handles(x, s) PROVE Unhindered(y)'
  <2>1. /\ q[x][s] = "queue" /\ judged' = judged \cup {<<x, s>>} /\ UNCHANGED <<reply, q>>
        /\ alerts' = alerts \/ alerts' = [alerts EXCEPT ![x] = @ \cup {"queued"}]
    BY <1>8, HandlesMarks
  <2>2. alerts'[y] \subseteq alerts[y] \cup {"queued"}
    BY <1>4, <2>1
  <2> QED BY <1>1, <1>3, <2>1, <2>2 DEF Unhindered
<1>9. ASSUME NEW x \in Txs, NEW s \in subscribed, Finishes(x, s) PROVE Unhindered(y)'
  <2>1. /\ q[x][s] = "queue" /\ q' = [q EXCEPT ![x][s] = "deleted"] /\ UNCHANGED <<reply, judged, alerts>>
        /\ s \in Services
    BY <1>9 DEF Finishes, DeploymentTypeOK
  <2>2. \A t \in Services : q'[y][t] = q[y][t] \/ (q[y][t] = "queue" /\ q'[y][t] = "deleted")
    BY <1>4, <2>1
  <2> QED BY <1>1, <1>3, <2>1, <2>2 DEF Unhindered
<1>10. CASE Stores
  BY <1>5, <1>10 DEF Stores
<1> QED BY <1>6, <1>7, <1>8, <1>9, <1>10

Overspends(x) == spent[Body[x].user] + Body[x].amount > DailyLimit

\* What each of the services finds.
LEMMA ServicesFind ==
  ASSUME NEW x \in Txs, NEW s
  PROVE  LET f == Finding(x, s) IN
         /\ s = "fraud" => IF Suspicious(x)
                           THEN f.status = "flagged" /\ f.ids = {"alert_id"}
                           ELSE f.status = "clean" /\ f.ids = {}
         /\ s = "compliance" => /\ f.ids \subseteq {"violation_id"}
                                /\ \/ f.status = "flagged"
                                   \/ f.status = status[x] /\ f.reason = reason[x]
         /\ s = "risk" => IF Overspends(x)
                          THEN f.status = "blocked" /\ f.reason = "risk_limit_exceeded" /\ f.ids = {"breach_id"}
                          ELSE f.status = status[x] /\ f.reason = reason[x] /\ f.ids = {}
         /\ s \notin FilteredServices => f.status = status[x] /\ f.reason = reason[x] /\ f.ids = {}
<1>1. CASE s = "fraud"       BY <1>1 DEF Finding, Mark, Suspicious, FilteredServices
<1>2. CASE s = "compliance"  BY <1>2 DEF Finding, Mark, FilteredServices
<1>3. CASE s = "risk"        BY <1>3 DEF Finding, Mark, Overspends, FilteredServices
<1>4. CASE s \notin FilteredServices
  BY <1>4 DEF Finding, Mark, FilteredServices
<1> QED BY <1>1, <1>2, <1>3, <1>4 DEF FilteredServices

\* It leaves in a row what the services that have judged it found.
LEMMA FoundStays ==
  ASSUME DeploymentTypeOK, FlowInv, Undisturbed, NEW y \in Txs, Found(y),
         QuietStep
  PROVE  Found(y)'
<1> USE DEF QuietStep, flowVars, choices, rowVars, auditVars
<1>1. Suspicious(y)' <=> Suspicious(y)
  BY DEF Suspicious, Event
<1>2. /\ status \in [Txs -> {"none", "pending", "clean", "flagged", "blocked", "pending_manual_review"}]
      /\ alerts \in [Txs -> SUBSET {"queued", "dispatched", "dlq"}] /\ buffer \subseteq Txs
      /\ attrs \in [Txs -> SUBSET Ids] /\ objects \in Seq(SUBSET Txs)
      /\ reason \in [Txs -> {"none", "fraud_detected", "compliance_violation", "risk_limit_exceeded"}]
  BY DEF DeploymentTypeOK
<1>3. UNCHANGED <<status, reason, attrs, judged, alerts, buffer, objects>> => Found(y)'
  BY <1>1 DEF Found
<1>4. ASSUME NEW x \in Txs, Serves(x) PROVE Found(y)'
  <2>1. UNCHANGED <<reason, attrs, judged, alerts, buffer, objects>>
    BY <1>4 DEF Serves, Write, Accept
  <2>2. status' = status \/ (status[x] = "none" /\ status' = [status EXCEPT ![x] = "pending"])
    BY <1>4 DEF Serves, Write, Accept
  <2>3. status'[y] = status[y] \/ (status[y] = "none" /\ status'[y] = "pending")
    BY <1>2, <2>2
  <2> QED BY <1>1, <2>1, <2>3 DEF Found
<1>5. ASSUME NEW x \in Txs, Tells(x) PROVE Found(y)'
  <2>1. UNCHANGED <<status, reason, attrs, judged, buffer, objects>>
    BY <1>5 DEF Tells
  <2>2. alerts[y] # {} => alerts'[y] # {}
    BY <1>2, <1>5 DEF Tells
  <2> QED BY <1>1, <2>1, <2>2 DEF Found
<1>6. ASSUME NEW x \in Txs, NEW s \in subscribed, Handles(x, s) PROVE Found(y)'
  <2> DEFINE f == Finding(x, s)
  <2>1. /\ s \in Services /\ q[x][s] = "queue" /\ <<x, s>> \notin judged
        /\ status' = [status EXCEPT ![x] = f.status]
        /\ reason' = [reason EXCEPT ![x] = f.reason]
        /\ attrs' = [attrs EXCEPT ![x] = @ \cup f.ids]
        /\ judged' = judged \cup {<<x, s>>}
        /\ alerts' = IF f.ids \cap {"alert_id", "breach_id"} # {}
                     THEN [alerts EXCEPT ![x] = @ \cup {"queued"}] ELSE alerts
        /\ buffer' = IF s = "audit-logging" THEN buffer \cup {x} ELSE buffer
        /\ objects' = objects
    BY <1>6, HandlesMarks
  <2>2. CASE y # x
    <3>1. status'[y] = status[y] /\ reason'[y] = reason[y] /\ attrs'[y] = attrs[y] /\ alerts'[y] = alerts[y]
      BY <1>2, <2>1, <2>2
    <3>2. \A t : <<y, t>> \in judged' <=> <<y, t>> \in judged
      BY <2>1, <2>2
    <3>3. buffer \subseteq buffer'
      BY <2>1
    <3> QED BY <1>1, <2>1, <3>1, <3>2, <3>3 DEF Found
  <2>3. CASE y = x
    <3>1. status[x] # "none"
      BY <2>1 DEF FlowInv, HasRow
    <3>2. status'[x] = f.status /\ reason'[x] = f.reason /\ attrs'[x] = attrs[x] \cup f.ids
      BY <1>2, <2>1
    <3>3. alerts[x] \subseteq alerts'[x] /\ ("alert_id" \in f.ids => alerts'[x] # {})
      BY <1>2, <2>1
    <3>4. /\ \A t : <<x, t>> \in judged' <=> <<x, t>> \in judged \/ t = s
          /\ buffer \subseteq buffer' /\ (s = "audit-logging" => x \in buffer')
      BY <2>1
    <3> HIDE DEF f
    <3>5. CASE s = "fraud"
      <4>1. IF Suspicious(x) THEN f.status = "flagged" /\ f.ids = {"alert_id"}
            ELSE f.status = "clean" /\ f.ids = {}
        BY <3>5, ServicesFind DEF f
      <4>2. "fraud" \in FilteredServices
        BY DEF FilteredServices
      <4> QED BY <1>1, <2>1, <2>3, <3>2, <3>3, <3>4, <3>5, <4>1, <4>2 DEF Found
    <3>6. CASE s = "compliance"
      <4>1. f.ids \subseteq {"violation_id"} /\ (f.status = "flagged" \/ (f.status = status[x] /\ f.reason = reason[x]))
        BY <3>6, ServicesFind DEF f
      <4>2. "compliance" \in FilteredServices
        BY DEF FilteredServices
      <4> QED BY <1>1, <2>1, <2>3, <3>2, <3>3, <3>4, <3>6, <4>1, <4>2 DEF Found
    <3>7. CASE s = "risk"
      <4>1. IF Overspends(x)
            THEN f.status = "blocked" /\ f.reason = "risk_limit_exceeded" /\ f.ids = {"breach_id"}
            ELSE f.status = status[x] /\ f.reason = reason[x] /\ f.ids = {}
        BY <3>7, ServicesFind DEF f
      <4>2. "risk" \in FilteredServices
        BY DEF FilteredServices
      <4> QED BY <1>1, <2>1, <2>3, <3>2, <3>3, <3>4, <3>7, <4>1, <4>2 DEF Found
    <3>8. CASE s \notin FilteredServices
      <4>1. f.status = status[x] /\ f.reason = reason[x] /\ f.ids = {} /\ s # "fraud"
        BY <3>8, ServicesFind DEF f, FilteredServices
      <4> QED BY <1>1, <2>1, <2>3, <3>2, <3>3, <3>4, <3>8, <4>1 DEF Found
    <3> QED BY <3>5, <3>6, <3>7, <3>8 DEF FilteredServices
  <2> QED BY <2>2, <2>3
<1>7. ASSUME NEW x \in Txs, NEW s \in subscribed, Finishes(x, s) PROVE Found(y)'
  BY <1>3, <1>7 DEF Finishes
<1>8. CASE Stores
  <2>1. UNCHANGED <<status, reason, attrs, judged, alerts>>
    BY <1>8 DEF Stores
  <2>2. objects' # <<>>
    BY <1>2, <1>8 DEF Stores
  <2> QED BY <1>1, <2>1, <2>2 DEF Found
<1> QED BY <1>4, <1>5, <1>6, <1>7, <1>8

\* The transactions of a check.
LEMMA SentIsFinite ==
  ASSUME NEW k \in Posting
  PROVE  /\ Sent(k) \subseteq Txs
         /\ IsFiniteSet(Counted(k)) /\ Cardinality(Counted(k)) \in Nat
<1>1. CheckTxs[k] \in Seq(Txs)
  BY VerifyAssumption
<1>2. Sent(k) \subseteq Txs
  BY <1>1 DEF Sent
<1>3. Counted(k) \subseteq Txs
  BY <1>2 DEF Counted
<1>4. IsFiniteSet(Counted(k))
  BY <1>3, DeploymentAssumption, FS_Subset
<1> QED BY <1>2, <1>4, FS_CardinalityType

\* Risk judges the transactions of a check one by one, each once: the first fits, and
\* the one with which the total goes past the limit is reported.
LEMMA EnforcedStays ==
  ASSUME DeploymentTypeOK, FlowInv, Undisturbed, \A x \in Txs : Found(x),
         NEW k \in {"fraud", "risk"}, Enforced(k),
         QuietStep
  PROVE  Enforced(k)'
<1> USE DEF QuietStep, flowVars, choices, rowVars, auditVars
<1>0. /\ attrs \in [Txs -> SUBSET Ids] /\ spent \in [Users -> Nat] /\ DailyLimit \in Nat
      /\ k \in Posting /\ Sent(k) \subseteq Txs
      /\ IsFiniteSet(Counted(k)) /\ Cardinality(Counted(k)) \in Nat
  BY SentIsFinite, DeploymentAssumption DEF DeploymentTypeOK, Posting
<1>1. ASSUME /\ spent' = spent
             /\ \A x \in Txs : <<x, "risk">> \in judged' <=> <<x, "risk">> \in judged
             /\ \A x \in Txs : "breach_id" \in attrs'[x] <=> "breach_id" \in attrs[x]
      PROVE  Enforced(k)'
  <2>1. Counted(k)' = Counted(k) /\ Breached' = Breached
    BY <1>0, <1>1 DEF Counted, Breached
  <2> QED BY <1>1, <2>1 DEF Enforced
<1>2. ASSUME NEW x \in Txs, NEW s \in subscribed, Handles(x, s), s # "risk" PROVE Enforced(k)'
  <2> DEFINE f == Finding(x, s)
  <2>1. /\ attrs' = [attrs EXCEPT ![x] = @ \cup f.ids] /\ judged' = judged \cup {<<x, s>>}
        /\ spent' = spent /\ s \in Services
    BY <1>2, HandlesMarks
  <2>2. "breach_id" \notin f.ids
    <3>1. s \in {"fraud", "compliance"} \/ s \notin FilteredServices
      BY <1>2 DEF FilteredServices
    <3>2. /\ s = "fraud" => f.ids \in {{"alert_id"}, {}}
          /\ s = "compliance" => f.ids \subseteq {"violation_id"}
          /\ s \notin FilteredServices => f.ids = {}
      BY ServicesFind
    <3> HIDE DEF f
    <3> QED BY <3>1, <3>2
  <2> HIDE DEF f
  <2>3. \A y \in Txs : "breach_id" \in attrs'[y] <=> "breach_id" \in attrs[y]
    BY <1>0, <2>1, <2>2
  <2>4. \A y \in Txs : <<y, "risk">> \in judged' <=> <<y, "risk">> \in judged
    BY <1>2, <2>1
  <2> QED BY <1>1, <2>1, <2>3, <2>4
<1>3. ASSUME NEW x \in Txs, NEW s \in subscribed, Handles(x, s), s = "risk" PROVE Enforced(k)'
  <2> DEFINE a == Body[x].amount
             u == Body[x].user
             n == Cardinality(Counted(k))
             f == Finding(x, s)
  <2>1. /\ q[x][s] = "queue" /\ <<x, "risk">> \notin judged /\ s \in Services
        /\ attrs' = [attrs EXCEPT ![x] = @ \cup f.ids]
        /\ judged' = judged \cup {<<x, "risk">>}
        /\ spent' = [spent EXCEPT ![u] = @ + a]
    BY <1>3, HandlesMarks
  <2>2. IF Overspends(x) THEN f.ids = {"breach_id"} ELSE f.ids = {}
    BY <1>3, ServicesFind
  <2>3. a \in Nat /\ u \in Users /\ spent[u] \in Nat
    BY <1>0, AmountsAreNatural DEF Users
  <2>4. /\ "breach_id" \notin attrs[x]
        /\ \A y \in Txs : y # x => attrs'[y] = attrs[y]
        /\ "breach_id" \in attrs'[x] <=> Overspends(x)
    <3>1. "breach_id" \notin attrs[x]
      BY <2>1 DEF Found
    <3>2. attrs'[x] = attrs[x] \cup f.ids
      BY <1>0, <2>1
    <3> HIDE DEF f
    <3> QED BY <1>0, <2>1, <2>2, <3>1, <3>2
  <2> HIDE DEF f
  <2>5. PICK j \in Posting : x \in Sent(j)
    <3>1. x \in posted
      BY <2>1 DEF FlowInv
    <3> QED BY <3>1 DEF Undisturbed
  <2>6. \A y \in Sent(k) : /\ spent[Body[y].user] = n * Body[y].amount
                           /\ Counted(k) # {} => Counted(k) \ Breached # {}
                           /\ n * Body[y].amount > DailyLimit => Counted(k) \cap Breached # {}
    BY DEF Enforced
  <2>7. CASE x \notin Sent(k)
    <3>1. \A y \in Sent(k) : Body[y].user # u /\ Body[y].user \in Users
      BY <1>0, <2>5, <2>7, PayloadsAssumption DEF Users
    <3>2. \A y \in Sent(k) : spent'[Body[y].user] = spent[Body[y].user]
      BY <1>0, <2>1, <3>1
    <3>3. Counted(k)' = Counted(k)
      BY <2>1, <2>7 DEF Counted
    <3>4. x \notin Counted(k) /\ Counted(k) \subseteq Txs
      BY <1>0, <2>7 DEF Counted
    <3>5. Counted(k) \ Breached' = Counted(k) \ Breached /\ Counted(k) \cap Breached' = Counted(k) \cap Breached
      BY <2>4, <3>4 DEF Breached
    <3> QED BY <2>6, <3>2, <3>3, <3>5 DEF Enforced
  <2>8. CASE x \in Sent(k)
    <3>1. \A y \in Sent(k) : Body[y].user = u /\ Body[y].amount = a
      BY <2>8, PayloadsAssumption
    <3>2. a <= DailyLimit
      BY <2>8, PayloadsAssumption
    <3>3. Counted(k)' = Counted(k) \cup {x} /\ x \notin Counted(k)
      BY <2>1, <2>8 DEF Counted
    <3>4. Cardinality(Counted(k)') = n + 1
      BY <1>0, <3>3, FS_AddElement
    <3>5. spent[u] = n * a /\ spent'[u] = n * a + a
      BY <1>0, <2>1, <2>3, <2>6, <2>8
    <3>6. n \in Nat /\ (n + 1) * a = n * a + a /\ (n = 0 => n * a = 0)
      <4> HIDE DEF n, a
      <4>1. n \in Nat /\ a \in Nat
        BY <1>0, <2>3 DEF n
      <4> QED BY <4>1, SMT
    <3>7. Counted(k)' \ Breached' # {}
      <4>1. CASE Counted(k) = {}
        <5>1. n = 0
          BY <4>1, FS_EmptySet
        <5>2. ~Overspends(x)
          BY <3>2, <3>5, <3>6, <5>1, <2>3, <1>0 DEF Overspends
        <5> QED BY <2>4, <3>3, <5>2 DEF Breached
      <4>2. CASE Counted(k) # {}
        <5>1. PICK y : y \in Counted(k) \ Breached
          BY <2>6, <2>8, <4>2
        <5>2. y # x /\ y \in Txs
          BY <1>0, <3>3, <5>1 DEF Counted
        <5> QED BY <2>4, <3>3, <5>1, <5>2 DEF Breached
      <4> QED BY <4>1, <4>2
    <3>8. (n + 1) * a > DailyLimit => Counted(k)' \cap Breached' # {}
      <4>1. (n + 1) * a > DailyLimit => Overspends(x)
        BY <3>5, <3>6 DEF Overspends
      <4> QED BY <2>4, <3>3, <4>1 DEF Breached
    <3> HIDE DEF a, n, u
    <3>9. ASSUME NEW y \in Sent(k)
          PROVE  /\ spent'[Body[y].user] = Cardinality(Counted(k)') * Body[y].amount
                 /\ Cardinality(Counted(k)') * Body[y].amount > DailyLimit => Counted(k)' \cap Breached' # {}
      BY <3>1, <3>4, <3>5, <3>6, <3>8
    <3> QED BY <3>7, <3>9 DEF Enforced
  <2> QED BY <2>7, <2>8
<1>4. ASSUME NEW x \in Txs, NEW s \in subscribed, Serves(x) \/ Tells(x) \/ Finishes(x, s) \/ Stores
      PROVE  Enforced(k)'
  <2>1. UNCHANGED <<spent, judged, attrs>>
    BY <1>4 DEF Serves, Tells, Finishes, Stores, Write, Accept
  <2> QED BY <1>1, <2>1
<1>5. ASSUME NEW x \in Txs, Serves(x) \/ Tells(x) PROVE Enforced(k)'
  <2>1. UNCHANGED <<spent, judged, attrs>>
    BY <1>5 DEF Serves, Tells, Write, Accept
  <2> QED BY <1>1, <2>1
<1>6. CASE Stores
  BY <1>1, <1>6 DEF Stores
<1> QED BY <1>2, <1>3, <1>4, <1>5, <1>6

-----------------------------------------------------------------------------
(* What is left when a transaction has been dealt with.                    *)

\* The client has its answer, every service is through, and no alert waits.
DealtWith(x) ==
  /\ reply[x] = "202" /\ "queued" \notin alerts[x]
  /\ \A s \in Services : q[x][s] \in {"none", "deleted"}

\* The services an event is routed to.
LEMMA RouteTold ==
  ASSUME DeploymentTypeOK, NEW x \in Txs, NEW s \in subscribed
  PROVE  /\ s \in UnfilteredServices => s \in Route(x)
         /\ s \in FilteredServices => (s \in Route(x) <=> PriorityOf(Body[x]) \in {"high", "critical"})
         /\ s \in Services
<1>1. Event(x).priority = PriorityOf(Body[x])
  <2>1. Body[x] \in Requests
    BY DeploymentAssumption
  <2> QED BY <2>1 DEF Event, Requests
<1>2. FilteredServices \cap UnfilteredServices = {}
  BY DEF FilteredServices, UnfilteredServices
<1> QED BY <1>1, <1>2 DEF Route, RoutedTo, DeploymentTypeOK

\* A service on the route of a transaction that has been dealt with has judged it.
LEMMA DealtWithIsJudged ==
  ASSUME DeploymentTypeOK, FlowInv, Undisturbed, NEW x \in Txs, DealtWith(x), NEW s \in Route(x)
  PROVE  <<x, s>> \in judged
<1>1. s \in Services
  BY DEF Route, DeploymentTypeOK
<1>2. q[x][s] = "deleted"
  BY <1>1 DEF DealtWith, FlowInv
<1>3. ~reviewers
  BY DEF Undisturbed
<1> QED BY <1>1, <1>2, <1>3 DEF FlowInv

\* What the services have left of a transaction of the check when it has been dealt with.
LEMMA LowIsUntouched ==
  ASSUME DeploymentTypeOK, FlowInv, Orderly, NEW x \in Sent("low"), DealtWith(x)
  PROVE  /\ status[x] = "pending"
         /\ Event(x).priority \in {"low", "medium"}
         /\ \A s \in FilteredServices : <<x, s>> \notin judged
<1>1. x \in Txs
  BY SentIsFinite DEF Posting
<1>2. PriorityOf(Body[x]) \in {"low", "medium"} /\ Event(x).priority = PriorityOf(Body[x])
  <2>1. Body[x] \in Requests
    BY <1>1, DeploymentAssumption
  <2> QED BY <2>1, PayloadsAssumption DEF Event, Requests
<1>3. ASSUME NEW s \in FilteredServices, <<x, s>> \in judged PROVE FALSE
  <2>1. s \in Services
    BY <1>3 DEF DeploymentTypeOK
  <2>2. s \in Route(x)
    BY <1>1, <1>3, <2>1 DEF Orderly, Undisturbed, Unhindered
  <2>3. s \in subscribed
    BY <2>2 DEF Route
  <2> QED BY <1>1, <1>2, <2>2, <2>3, RouteTold
<1>4. status[x] # "none"
  BY <1>1 DEF DealtWith, FlowInv, HasRow
<1> QED BY <1>1, <1>2, <1>3, <1>4 DEF Orderly, Found

\* Fraud finds what the high-value, the fraud and the risk check post, and the alert is sent.
LEMMA FraudIsFound ==
  ASSUME DeploymentTypeOK, FlowInv, Orderly, "fraud" \in subscribed,
         NEW k \in {"high", "fraud", "risk"}, NEW x \in Sent(k), DealtWith(x)
  PROVE  /\ "alert_id" \in attrs[x] /\ "dispatched" \in alerts[x]
         /\ status[x] \in {"flagged", "blocked"}
<1>1. x \in Txs /\ "fraud" \in FilteredServices /\ k \in Posting
  BY SentIsFinite DEF Posting, FilteredServices
<1>2. PriorityOf(Body[x]) \in {"high", "critical"} /\ Suspicious(x)
  BY <1>1, PayloadsAssumption DEF Suspicious
<1>3. <<x, "fraud">> \in judged
  BY <1>1, <1>2, RouteTold, DealtWithIsJudged DEF Orderly
<1>4. "alert_id" \in attrs[x] /\ alerts[x] # {} /\ status[x] \notin {"none", "pending", "clean", "pending_manual_review"}
  BY <1>1, <1>2, <1>3 DEF Orderly, Found
<1>5. alerts[x] \subseteq {"dispatched"}
  <2>1. alerts[x] \subseteq {"queued", "dispatched", "dlq"}
    BY <1>1 DEF DeploymentTypeOK
  <2>2. "dlq" \notin alerts[x]
    BY <1>1 DEF Orderly, Undisturbed, Unhindered
  <2>3. "queued" \notin alerts[x]
    BY DEF DealtWith
  <2> QED BY <2>1, <2>2, <2>3
<1>6. status[x] \in {"none", "pending", "clean", "flagged", "blocked", "pending_manual_review"}
  BY <1>1 DEF DeploymentTypeOK
<1> QED BY <1>4, <1>5, <1>6

\* The fraud check posts one transaction, which the limit allows.
LEMMA FraudIsNotBlocked ==
  ASSUME DeploymentTypeOK, Orderly, NEW x \in Sent("fraud")
  PROVE  status[x] # "blocked"
<1>1. /\ CheckTxs["fraud"] \in Seq(Txs) /\ Len(CheckTxs["fraud"]) = 1
  BY VerifyAssumption DEF Posting
<1>2. Sent("fraud") = {x} /\ x \in Txs
  BY <1>1 DEF Sent
<1> SUFFICES ASSUME status[x] = "blocked" PROVE FALSE
  OBVIOUS
<1>3. "breach_id" \in attrs[x] /\ <<x, "risk">> \in judged
  BY <1>2 DEF Orderly, Found
<1>4. x \in Counted("fraud")
  BY <1>3 DEF Counted
<1>5. PICK y : y \in Counted("fraud") \ Breached
  BY <1>4 DEF Orderly, Enforced
<1> QED BY <1>2, <1>3, <1>5 DEF Counted, Breached

\* Of the transactions of the risk check one is allowed and another one is not.
LEMMA LimitIsEnforced ==
  ASSUME DeploymentTypeOK, FlowInv, Orderly, "risk" \in subscribed,
         \A x \in Sent("risk") : DealtWith(x)
  PROVE  /\ \E x \in Sent("risk") : "breach_id" \in attrs[x]
         /\ \E x \in Sent("risk") : status[x] \in {"pending", "flagged"}
<1>1. Sent("risk") \subseteq Txs /\ "risk" \in FilteredServices /\ "risk" \in Posting
  BY SentIsFinite DEF Posting, FilteredServices
<1>2. PICK x : x \in Sent("risk")
  BY PayloadsAssumption
<1>3. ASSUME NEW y \in Sent("risk") PROVE <<y, "risk">> \in judged
  <2>1. PriorityOf(Body[y]) \in {"high", "critical"}
    BY <1>1, PayloadsAssumption
  <2> QED BY <1>1, <2>1, RouteTold, DealtWithIsJudged DEF Orderly
<1>4. Counted("risk") = Sent("risk")
  BY <1>3 DEF Counted
<1>5. /\ Cardinality(Counted("risk")) * Body[x].amount > DailyLimit => Counted("risk") \cap Breached # {}
      /\ Counted("risk") # {} => Counted("risk") \ Breached # {}
  BY <1>2 DEF Orderly, Enforced
<1>6. Cardinality(Counted("risk")) * Body[x].amount > DailyLimit
  BY <1>2, <1>4, PayloadsAssumption
<1>7. PICK y : y \in Counted("risk") \ Breached
  BY <1>2, <1>4, <1>5
<1>8. y \in Sent("risk") /\ y \in Txs /\ "breach_id" \notin attrs[y] /\ Suspicious(y)
  BY <1>1, <1>4, <1>7, PayloadsAssumption DEF Breached, Suspicious
<1>9. status[y] \in {"pending", "flagged"}
  <2>1. status[y] # "none"
    BY <1>8 DEF DealtWith, FlowInv, HasRow
  <2> QED BY <1>8, <2>1 DEF Orderly, Found, DeploymentTypeOK
<1> QED BY <1>4, <1>5, <1>6, <1>8, <1>9 DEF Breached

\* Nobody touches it any more.
LEMMA DealtWithStays ==
  ASSUME DeploymentTypeOK, FlowInv, NEW y \in Txs, DealtWith(y),
         QuietStep
  PROVE  DealtWith(y)' /\ Row(y)' = Row(y)
<1> USE DEF QuietStep, flowVars, choices, rowVars, auditVars
<1>1. /\ status \in [Txs -> {"none", "pending", "clean", "flagged", "blocked", "pending_manual_review"}]
      /\ alerts \in [Txs -> SUBSET {"queued", "dispatched", "dlq"}]
      /\ attrs \in [Txs -> SUBSET Ids] /\ reply \in [Txs -> {"none", "202", "failed"}]
      /\ reason \in [Txs -> {"none", "fraud_detected", "compliance_violation", "risk_limit_exceeded"}]
      /\ q \in [Txs -> [Services -> {"none", "queue", "dlq", "deleted"}]]
      /\ subscribed \subseteq Services /\ status[y] # "none"
  BY DEF DeploymentTypeOK, DealtWith, FlowInv, HasRow
<1>2. reply'[y] = reply[y] /\ status'[y] = status[y] /\ reason'[y] = reason[y] /\ attrs'[y] = attrs[y]
      /\ alerts'[y] = alerts[y] /\ q'[y] = q[y]
  <2>1. ASSUME NEW x \in Txs, Serves(x) PROVE <1>2
    <3>1. x # y
      BY <1>1, <2>1 DEF Serves, Write, Accept, Replies, DealtWith
    <3> QED BY <1>1, <2>1, <3>1 DEF Serves, Write, Accept, Replies, Delivers
  <2>2. ASSUME NEW x \in Txs, Tells(x) PROVE <1>2
    <3>1. x # y
      BY <2>2 DEF Tells, DealtWith
    <3> QED BY <1>1, <2>2, <3>1 DEF Tells
  <2>3. ASSUME NEW x \in Txs, NEW s \in subscribed, Handles(x, s) PROVE <1>2
    <3>1. x # y
      BY <1>1, <2>3, HandlesMarks DEF DealtWith
    <3> DEFINE f == Finding(x, s)
    <3>2. /\ status' = [status EXCEPT ![x] = f.status] /\ reason' = [reason EXCEPT ![x] = f.reason]
          /\ attrs' = [attrs EXCEPT ![x] = @ \cup f.ids] /\ UNCHANGED <<reply, q>>
          /\ alerts' = alerts \/ alerts' = [alerts EXCEPT ![x] = @ \cup {"queued"}]
      BY <2>3, HandlesMarks
    <3> HIDE DEF f
    <3> QED BY <1>1, <3>1, <3>2
  <2>4. ASSUME NEW x \in Txs, NEW s \in subscribed, Finishes(x, s) PROVE <1>2
    <3>1. x # y
      BY <1>1, <2>4 DEF Finishes, DealtWith
    <3> QED BY <1>1, <2>4, <3>1 DEF Finishes
  <2>5. CASE Stores
    BY <2>5 DEF Stores
  <2> QED BY <2>1, <2>2, <2>3, <2>4, <2>5
<1> QED BY <1>2 DEF DealtWith, Row

-----------------------------------------------------------------------------
(* The script in such a deployment.                                        *)

\* The one report there may be: compliance writes the flagged_reason of the fraud check too.
Excused == {<<"fraud", "flagged_reason">>}

\* The logs that have to have the line, by check.
LogsRead == {<<"high", "compliance">>, <<"fraud", "alert">>}

\* Nothing else was reported, and nothing will have to be: what was posted was accepted,
\* behind the sleep all is dealt with, the rows read are the rows there are, the
\* probes still to come ask for lines that are there and for none that is not, and once a
\* check has slept something has been stored for audit.
Unalarmed ==
  /\ fails \subseteq Excused
  /\ step \in {"post", "sent"} => \A i \in Gone : reply[CheckTxs[current][i]] = "202"
  /\ step = "wait" => AllAccepted(current)
  /\ step \in {"fetch", "probe"} => \A x \in Sent(current) : DealtWith(x)
  /\ step = "fetch" => rows = {Row(CheckTxs[current][i]) : i \in Gone}
  /\ step = "probe" => \A i \in DOMAIN probes :
       /\ probes[i].kind = "log" => <<current, probes[i].of>> \in LogsRead
       /\ probes[i].kind = "no-log" => current = "low" /\ probes[i].of \in FilteredServices
  /\ step \in {"fetch", "probe"} \/ (\E i \in 1..at - 1 : plan[i] \in Posting) =>
       ("audit-logging" \in subscribed => objects # <<>>)

\* The plan is one of those main may have, with the services it looks at.
OnPlan == \E p \in Plans : plan = p.checks /\ subscribed = p.services

\* As long as no hitch has been spent the deployment is Orderly, and nothing was
\* reported unless something was late.
AlarmInv ==
  /\ tool # "verify" => step = "check"
  /\ tool = "verify" => OnPlan
  /\ tool = "verify" /\ hitches = 0 => Orderly /\ (calm => Unalarmed)

\* The script begins with nothing reported, in a deployment where nothing has happened.
LEMMA AlarmInit == Init => AlarmInv
<1> SUFFICES ASSUME Init PROVE AlarmInv
  OBVIOUS
<1>1. PICK p \in Plans : VerifyInit(p) /\ (tool = "verify" => subscribed = p.services)
  BY DEF Init
<1>2. /\ reply = [x \in Txs |-> "none"] /\ status = [x \in Txs |-> "none"]
      /\ q = [x \in Txs |-> [s \in Services |-> "none"]]
      /\ judged = {} /\ posted = {} /\ alerts = [x \in Txs |-> {}]
      /\ spent = [u \in Users |-> 0] /\ attrs = [x \in Txs |-> {}]
      /\ tasks = [t \in Tasks |-> "running"]
      /\ tool = "verify" => ~reviewers
  BY DEF Init, DeploymentInit, FlowInit
<1>3. tool = "verify" => Undisturbed
  BY <1>2 DEF Undisturbed, Unhindered, Running
<1>4. \A x \in Txs : Found(x)
  BY <1>2 DEF Found
<1>5. ASSUME NEW k \in {"fraud", "risk"} PROVE Enforced(k)
  <2>1. Counted(k) = {} /\ Cardinality(Counted(k)) = 0
    <3>1. Counted(k) = {}
      BY <1>2 DEF Counted
    <3> QED BY <3>1, FS_EmptySet
  <2>2. Sent(k) \subseteq Txs /\ DailyLimit \in Nat
    BY SentIsFinite, DeploymentAssumption DEF Posting
  <2>3. ASSUME NEW x \in Sent(k)
        PROVE  spent[Body[x].user] = 0 /\ 0 * Body[x].amount = 0
    <3>1. x \in Txs /\ Body[x].user \in Users /\ Body[x].amount \in Nat
      BY <2>2, AmountsAreNatural DEF Users
    <3> QED BY <1>2, <3>1
  <2> QED BY <2>1, <2>2, <2>3 DEF Enforced
<1>6. Unalarmed
  BY <1>1 DEF VerifyInit, Unalarmed
<1> QED BY <1>1, <1>3, <1>4, <1>5, <1>6 DEF AlarmInv, Orderly, VerifyInit, OnPlan

\* A hitch is not undone.
LEMMA HitchesStay == ASSUME DeploymentTypeOK, DeploymentNext, hitches' = 0 PROVE hitches = 0
<1>1. hitches \in Nat /\ (Calm \/ Hitch => hitches = 0)
  BY DeploymentAssumption DEF DeploymentTypeOK, Calm, Hitch
<1>2. ASSUME NEW x \in Txs, NEW s \in subscribed, NEW wrote \in BOOLEAN, NEW done \in BOOLEAN
      PROVE  Attempt(x, s, wrote, done) \/ Settles(x, s) \/ Reviews(x, s) => Calm \/ Hitch
  BY DEF Attempt, Settles, Reviews
<1>3. /\ \A x \in Txs : Serve(x) \/ Dispatch(x) => Calm \/ Hitch
      /\ \A t \in Tasks : Stops(t) \/ Restarts(t) => Calm \/ Hitch
      /\ Flush => Calm \/ Hitch
  BY DEF Serve, Dispatch, Flush, Stops, Restarts
<1> QED BY <1>1, <1>2, <1>3 DEF DeploymentNext

\* The script sends only what its checks post.
LEMMA ChecksSend ==
  ASSUME Script, VerifyStep
  PROVE  UNCHANGED posted \/ (current \in Posting /\ \E x \in Sent(current) : posted' = posted \cup {x})
<1>1. CASE Post
  <2>1. /\ step = "post" /\ left # <<>> /\ current \in Posting /\ left \in Seq(Txs)
        /\ IsRest(left, CheckTxs[current]) /\ CheckTxs[current] \in Seq(Txs)
    BY <1>1, CheckIsWellFormed DEF Post, Script, current
  <2>2. Head(left) \in Sent(current)
    BY <2>1, TailIsRest DEF Sent
  <2> QED BY <1>1, <2>1, <2>2 DEF Post
<1>2. CASE ~Post
  BY <1>2 DEF VerifyStep, Look, StartPosting, Post, PostReturns, Posted, Sleep,
     dynamo_get_with_retry, Dies, Evaluate, RunProbe, EndCheck, Exit,
     check_service_health, check_queue_status, check_audit_trail
<1> QED BY <1>1, <1>2

\* Orderly says nothing of the script.
LEMMA OrderlyStays ==
  ASSUME BaseInv, Orderly, tool = "verify", [Next]_vars, hitches' = 0
  PROVE  Orderly'
<1> USE DEF BaseInv
<1>1. CASE DeploymentNext
  <2>1. QuietStep
    BY <1>1, NothingGoesWrong DEF Orderly
  <2>2. Undisturbed'
    BY <2>1, UndisturbedStays DEF Orderly
  <2>3. \A x \in Txs : Found(x)'
    BY <2>1, FoundStays DEF Orderly
  <2>4. Enforced("fraud")' /\ Enforced("risk")'
    BY <2>1, EnforcedStays DEF Orderly
  <2> QED BY <2>2, <2>3, <2>4 DEF Orderly
<1>2. CASE UNCHANGED theRest
  <2>1. /\ UNCHANGED <<reply, status, q, judged, reviewers, subscribed, attrs, reason, spent, alerts,
                       buffer, objects, tasks>>
    BY <1>2 DEF theRest, flowVars, choices, rowVars, auditVars
  <2>2. \A x \in posted' : \E k \in Posting : x \in Sent(k)
    <3>1. UNCHANGED posted \/ VerifyStep \/ DeploymentNext
      BY OneMoves
    <3>2. UNCHANGED posted \/ (current \in Posting /\ \E x \in Sent(current) : posted' = posted \cup {x})
      BY <3>1, ChecksSend, DeploymentSendsNothing
    <3>3. \A x \in posted : \E k \in Posting : x \in Sent(k)
      BY DEF Orderly, Undisturbed
    <3> QED BY <3>2, <3>3
  <2>3. Undisturbed'
    BY <2>1, <2>2 DEF Orderly, Undisturbed, Unhindered, Running, Route, Event
  <2>4. \A x \in Txs : Found(x)'
    BY <2>1 DEF Orderly, Found, Suspicious, Event
  <2>5. Enforced("fraud")' /\ Enforced("risk")'
    BY <2>1 DEF Orderly, Enforced, Counted, Breached
  <2> QED BY <2>3, <2>4, <2>5 DEF Orderly
<1> QED BY <1>1, <1>2, OneMoves

\* The transactions of the check at hand.
LEMMA CheckPosts ==
  ASSUME Script, current \in Posting
  PROVE  /\ CheckTxs[current] \in Seq(Txs) /\ Len(CheckTxs[current]) \in Nat
         /\ Sent(current) \subseteq Txs /\ Sent(current) # {}
         /\ \A i \in 1..Len(CheckTxs[current]) : CheckTxs[current][i] \in Sent(current)
<1>1. CheckTxs[current] \in Seq(Txs) /\ Len(CheckTxs[current]) \in Nat
  BY CheckIsWellFormed
<1>2. current # "risk" => Len(CheckTxs[current]) = 1
  BY VerifyAssumption
<1>3. \A i \in 1..Len(CheckTxs[current]) : CheckTxs[current][i] \in Sent(current)
  BY DEF Sent
<1>4. Sent(current) # {}
  <2>1. CASE current = "risk"
    BY <2>1, PayloadsAssumption
  <2>2. CASE current # "risk"
    <3>1. Len(CheckTxs[current]) = 1
      BY <1>2, <2>2
    <3>2. 1 \in 1..1
      OBVIOUS
    <3>3. CheckTxs[current][1] \in Sent(current)
      BY <1>3, <3>1, <3>2
    <3> QED BY <3>3
  <2> QED BY <2>1, <2>2
<1> QED BY <1>1, <1>3, <1>4, SentIsFinite

\* The deployment leaves alone what was dealt with, so that the rows read stay the rows there are.
LEMMA UnalarmedStays ==
  ASSUME BaseInv, Orderly, Unalarmed, DeploymentNext, Onward, UNCHANGED verifyVars, hitches' = 0
  PROVE  Unalarmed'
<1> USE DEF BaseInv
<1>1. /\ UNCHANGED <<plan, at, step, left, rows, probes, fails, subscribed>>
      /\ current' = current /\ Gone' = Gone
      /\ objects # <<>> => objects' # <<>>
      /\ \A x \in Txs : reply[x] = "202" => reply'[x] = "202"
  BY DEF verifyVars, Onward, choices, current, Gone
<1>2. QuietStep
  BY NothingGoesWrong DEF Orderly
<1>3. \A x \in Txs : DealtWith(x) => DealtWith(x)' /\ Row(x)' = Row(x)
  BY <1>2, DealtWithStays
<1>4. step \in {"post", "sent", "wait", "fetch", "probe"} => current \in Posting
  BY DEF Script, current
<1>5. step \in {"post", "sent"} => \A i \in Gone : reply'[CheckTxs[current][i]] = "202"
  <2> SUFFICES ASSUME step \in {"post", "sent"}, NEW i \in Gone PROVE reply'[CheckTxs[current][i]] = "202"
    OBVIOUS
  <2>1. /\ current \in Posting /\ CheckTxs[current] \in Seq(Txs) /\ left \in Seq(Txs)
        /\ reply[CheckTxs[current][i]] = "202"
    BY <1>4, CheckPosts DEF Script, Unalarmed
  <2>2. i \in 1..Len(CheckTxs[current])
    BY <2>1 DEF Gone
  <2>3. CheckTxs[current][i] \in Txs
    BY <2>1, <2>2
  <2> QED BY <1>1, <2>1, <2>3
<1>6. step = "wait" => \A i \in 1..Len(CheckTxs[current]) : reply'[CheckTxs[current][i]] = "202"
  <2> SUFFICES ASSUME step = "wait", NEW i \in 1..Len(CheckTxs[current]) PROVE reply'[CheckTxs[current][i]] = "202"
    OBVIOUS
  <2>1. CheckTxs[current] \in Seq(Txs) /\ reply[CheckTxs[current][i]] = "202"
    BY <1>4, CheckPosts DEF Unalarmed, AllAccepted
  <2> QED BY <1>1, <2>1
<1>7. step \in {"fetch", "probe"} => \A x \in Sent(current) : DealtWith(x)'
  BY <1>3, <1>4, CheckPosts DEF Unalarmed
<1>8. step = "fetch" => rows = {Row(CheckTxs[current][i])' : i \in Gone}
  <2> SUFFICES ASSUME step = "fetch" PROVE rows = {Row(CheckTxs[current][i])' : i \in Gone}
    OBVIOUS
  <2>1. CheckTxs[current] \in Seq(Txs) /\ left \in Seq(Txs) /\ current \in Posting
    BY <1>4, CheckPosts DEF Script
  <2>2. \A i \in Gone : i \in 1..Len(CheckTxs[current])
    BY <2>1 DEF Gone
  <2>3. \A i \in Gone : CheckTxs[current][i] \in Sent(current) /\ CheckTxs[current][i] \in Txs
    BY <2>1, <2>2, CheckPosts
  <2>4. \A i \in Gone : Row(CheckTxs[current][i])' = Row(CheckTxs[current][i])
    <3> SUFFICES ASSUME NEW i \in Gone PROVE Row(CheckTxs[current][i])' = Row(CheckTxs[current][i])
      OBVIOUS
    <3>1. PICK y \in Txs : y = CheckTxs[current][i]
      BY <2>3
    <3>2. DealtWith(y)
      BY <2>3, <3>1 DEF Unalarmed
    <3>3. Row(y)' = Row(y)
      BY <1>3, <3>2
    <3>4. y' = y
      OBVIOUS
    <3> QED BY <1>1, <3>1, <3>3 DEF Row
  <2>5. rows = {Row(CheckTxs[current][i]) : i \in Gone}
    BY DEF Unalarmed
  <2> QED BY <2>4, <2>5
<1> QED BY <1>1, <1>5, <1>6, <1>7, <1>8 DEF Unalarmed, AllAccepted

\* While the script looks, the deployment stands still.
LEMMA DealtWithStands ==
  ASSUME UNCHANGED theRest
  PROVE  /\ \A x : (DealtWith(x)' <=> DealtWith(x)) /\ Row(x)' = Row(x)
         /\ UNCHANGED <<reply, objects, subscribed>>
BY DEF theRest, flowVars, choices, rowVars, auditVars, DealtWith, Row

\* A check that ends without reporting anything but the reason.
LEMMA CheckEnds ==
  ASSUME Script, Unalarmed, UNCHANGED <<objects, subscribed, plan>>, at' = at + 1, step' = "check",
         step \in {"fetch", "probe"} \/ plan[at] \notin Posting,
         fails' \subseteq Excused
  PROVE  Unalarmed'
<1>1. at \in Nat /\ at >= 1
  BY CheckIsWellFormed
<1>2. (\E i \in 1..at' - 1 : plan'[i] \in Posting) => ("audit-logging" \in subscribed' => objects' # <<>>)
  <2> SUFFICES ASSUME NEW i \in 1..at, plan[i] \in Posting, "audit-logging" \in subscribed PROVE objects # <<>>
    BY <1>1
  <2>1. step \in {"fetch", "probe"} \/ i \in 1..at - 1
    BY <1>1
  <2> QED BY <2>1 DEF Unalarmed
<1> QED BY <1>2 DEF Unalarmed

\* The checks that only look: all tasks run, and an object was stored for the ones posted before.
LEMMA LooksUnalarmed ==
  ASSUME BaseInv, Orderly, Unalarmed, Look, UNCHANGED theRest, calm', tool = "verify",
         OnPlan
  PROVE  Unalarmed'
<1>1. /\ step = "check" /\ at \in DOMAIN plan /\ at' = at + 1 /\ step' = "check" /\ plan' = plan
      /\ current \in {"health", "queues", "audit"} /\ current = plan[at]
      /\ UNCHANGED <<objects, subscribed>>
  <2>1. /\ step = "check" /\ at <= Len(plan) /\ at' = at + 1 /\ step' = "check" /\ plan' = plan
        /\ current \in {"health", "queues", "audit"}
    BY DEF Look, check_service_health, check_queue_status, check_audit_trail, NextCheck
  <2>2. at \in DOMAIN plan
    BY <2>1 DEF BaseInv, Script
  <2> QED BY <2>1, <2>2, DealtWithStands DEF current
<1>2. Fails({})
  <2>1. CASE check_service_health
    <3>1. {t \in Tasks : ~Running(t)} = {}
      BY DEF Orderly, Undisturbed
    <3> QED BY <2>1, <3>1, Zenon DEF check_service_health
  <2>2. CASE check_queue_status
    <3>1. \A b \in BOOLEAN : (calm' = (calm /\ ~b)) => (IF b THEN {"depth"} ELSE {}) = {}
      OBVIOUS
    <3> QED BY <2>2, <3>1, Zenon DEF check_queue_status
  <2>3. CASE check_audit_trail
    <3>1. current = "audit"
      BY <2>3 DEF check_audit_trail
    <3>2. objects # <<>>
      <4>1. PICK p \in Plans : plan = p.checks /\ subscribed = p.services
        BY DEF OnPlan
      <4>2. p.checks[at] = "audit" /\ at \in DOMAIN p.checks
        BY <1>1, <3>1, <4>1
      <4>3. "audit-logging" \in p.services /\ \E j \in 1..at - 1 : p.checks[j] \in Posting
        BY <4>2, PayloadsAssumption
      <4> QED BY <4>1, <4>3 DEF Unalarmed
    <3>3. \A b \in BOOLEAN : (calm' = (calm /\ ~b)) =>
            (IF b THEN {"bucket"} ELSE IF objects = <<>> THEN {"objects"} ELSE {}) = {}
      BY <3>2
    <3> QED BY <2>3, <3>3, Zenon DEF check_audit_trail
  <2> QED BY <2>1, <2>2, <2>3 DEF Look
<1>3. fails' = fails
  BY <1>2 DEF Fails
<1> QED BY <1>1, <1>3, CheckEnds DEF BaseInv, Unalarmed, Posting

\* Everything that is posted is accepted.
LEMMA PostingUnalarmed ==
  ASSUME BaseInv, Orderly, Unalarmed, UNCHANGED theRest, calm', 
         StartPosting \/ Post \/ PostReturns \/ Posted
  PROVE  Unalarmed'
<1> USE DEF BaseInv
<1>0. /\ UNCHANGED <<reply, objects, subscribed, plan>> /\ at \in Nat
      /\ step = "sent" => left \in Seq(Txs) /\ left # <<>> /\ IsRest(left, CheckTxs[current])
      /\ step \in {"post", "sent", "wait"} => current \in Posting
      /\ calm' => Unalarmed
  BY DealtWithStands, CheckIsWellFormed DEF StartPosting, Post, PostReturns, Posted, Script, current
<1>1. CASE StartPosting
  <2>1. /\ step' = "post" /\ left' = CheckTxs[current] /\ current' = current /\ current \in Posting
        /\ UNCHANGED <<at, fails, calm>>
    BY <1>0, <1>1 DEF StartPosting, current
  <2>2. Gone' = {}
    <3>1. Len(CheckTxs[current]) - Len(left') = 0 /\ CheckTxs' = CheckTxs
      BY <2>1, CheckPosts
    <3>2. 1..0 = {}
      OBVIOUS
    <3> QED BY <2>1, <3>1, <3>2 DEF Gone
  <2> QED BY <1>0, <2>1, <2>2 DEF Unalarmed
<1>2. CASE Post
  <2>1. step = "post" /\ step' = "sent" /\ Gone' = Gone /\ current' = current /\ UNCHANGED <<at, fails>>
    BY <1>0, <1>2 DEF Post, Gone, current
  <2> QED BY <1>0, <2>1 DEF Unalarmed
<1>3. CASE PostReturns
  <2>1. /\ step = "sent" /\ step' = "post" /\ left' = Tail(left) /\ current' = current /\ UNCHANGED at
        /\ current \in Posting
    BY <1>0, <1>3 DEF PostReturns, current
  <2> DEFINE n == Len(CheckTxs[current]) - Len(left)
             x == CheckTxs[current][n + 1]
  <2>2. /\ Head(left) = x /\ x \in Sent(current) /\ x \in Txs /\ n \in Nat
        /\ Len(CheckTxs[current]) - Len(Tail(left)) = n + 1
    <3>1. /\ left \in Seq(Txs) /\ left # <<>> /\ IsRest(left, CheckTxs[current])
          /\ CheckTxs[current] \in Seq(Txs)
      BY <1>0, <2>1, CheckPosts
    <3>2. Len(left) <= Len(CheckTxs[current])
      BY <3>1 DEF IsRest
    <3> QED BY <2>1, <3>1, <3>2, TailIsRest, CheckPosts
  <2>3. reply[x] = "202" /\ fails' = fails
    <3>1. reply[x] # "failed"
      BY <2>2 DEF Orderly, Undisturbed, Unhindered
    <3> QED BY <1>3, <2>2, <3>1 DEF PostReturns
  <2>4. \A i \in 1..n : reply[CheckTxs[current][i]] = "202"
    BY <2>1 DEF Unalarmed, Gone
  <2>5. Gone' = 1..n + 1
    BY <2>1, <2>2 DEF Gone
  <2>6. ASSUME NEW i \in 1..n + 1 PROVE reply[CheckTxs[current][i]] = "202"
    <3>1. CASE i = n + 1
      BY <2>3, <3>1
    <3>2. CASE i # n + 1
      <4> HIDE DEF n, x
      <4>1. i \in 1..n
        BY <2>2, <3>2
      <4> QED BY <2>4, <4>1
    <3> QED BY <3>1, <3>2
  <2> HIDE DEF n, x
  <2> QED BY <1>0, <2>1, <2>3, <2>5, <2>6 DEF Unalarmed
<1>4. CASE Posted
  <2>1. step = "post" /\ left = <<>> /\ current \in Posting /\ UNCHANGED fails
    BY <1>0, <1>4 DEF Posted
  <2>2. <<current, "POST">> \notin fails
    BY DEF Unalarmed, Excused
  <2>3. step' = "wait" /\ UNCHANGED at /\ current' = current
    BY <1>0, <1>4, <2>2 DEF Posted, current
  <2>4. Gone = 1..Len(CheckTxs[current])
    <3>1. Len(left) = 0 /\ Len(CheckTxs[current]) \in Nat
      BY <2>1, CheckPosts
    <3>2. Len(CheckTxs[current]) - Len(left) = Len(CheckTxs[current])
      BY <3>1
    <3> QED BY <3>2 DEF Gone
  <2>5. AllAccepted(current)
    BY <2>1, <2>4 DEF Unalarmed, AllAccepted
  <2> QED BY <1>0, <2>1, <2>3, <2>5 DEF Unalarmed, AllAccepted
<1> QED BY <1>1, <1>2, <1>3, <1>4

\* The sleep was long enough: all has been dealt with, and something stored for audit.
LEMMA SleepUnalarmed ==
  ASSUME BaseInv, Orderly, Unalarmed, UNCHANGED theRest, calm', Sleep
  PROVE  Unalarmed'
<1> USE DEF BaseInv
<1>1. /\ step = "wait" /\ step' = "fetch" /\ left' = CheckTxs[current] /\ AtRest
      /\ UNCHANGED <<plan, at, fails, rows>> /\ current \in Posting /\ current' = current /\ rows = {}
  BY DEF Sleep, Script, current
<1>2. UNCHANGED <<objects, subscribed>> /\ \A x : (DealtWith(x)' <=> DealtWith(x))
  BY DealtWithStands
<1>3. ASSUME NEW x \in Sent(current) PROVE DealtWith(x)
  <2>1. x \in Txs /\ reply[x] = "202"
    <3>1. x \in Txs
      BY <1>1, CheckPosts
    <3>2. PICK i \in 1..Len(CheckTxs[current]) : x = CheckTxs[current][i]
      BY DEF Sent
    <3> QED BY <1>1, <3>1, <3>2 DEF Unalarmed, AllAccepted
  <2>2. x \in posted
    BY <2>1 DEF FlowInv
  <2>3. "queued" \notin alerts[x] /\ \A s \in Services : q[x][s] # "queue"
    BY <1>1, <2>2 DEF AtRest
  <2>4. \A s \in Services : q[x][s] # "dlq" /\ q[x][s] \in {"none", "queue", "dlq", "deleted"}
    <3>1. \A s \in Services : q[x][s] # "dlq"
      BY <2>1 DEF Orderly, Undisturbed, Unhindered
    <3>2. q \in [Txs -> [Services -> {"none", "queue", "dlq", "deleted"}]]
      BY DEF DeploymentTypeOK
    <3> QED BY <2>1, <3>1, <3>2
  <2> QED BY <2>1, <2>3, <2>4 DEF DealtWith
<1>4. "audit-logging" \in subscribed => objects # <<>>
  <2> SUFFICES ASSUME "audit-logging" \in subscribed PROVE objects # <<>>
    OBVIOUS
  <2>1. PICK x \in Sent(current) : TRUE
    BY <1>1, CheckPosts
  <2>2. x \in Txs /\ DealtWith(x)
    BY <1>1, <1>3, <2>1, CheckPosts
  <2>3. "audit-logging" \in UnfilteredServices
    BY DEF UnfilteredServices
  <2>4. "audit-logging" \in Route(x)
    BY <2>2, <2>3, RouteTold
  <2>5. <<x, "audit-logging">> \in judged
    BY <2>2, <2>4, DealtWithIsJudged DEF Orderly
  <2>6. x \in buffer \/ objects # <<>>
    BY <2>2, <2>5 DEF Orderly, Found
  <2> QED BY <1>1, <2>6 DEF AtRest
<1>5. Gone' = {}
  <2>1. Len(CheckTxs[current]) - Len(left') = 0
    BY <1>1, CheckPosts
  <2>2. 1..0 = {}
    OBVIOUS
  <2> QED BY <1>1, <2>1, <2>2 DEF Gone
<1>6. rows' = {Row(CheckTxs[current][i])' : i \in Gone'}
  BY <1>1, <1>5
<1> QED BY <1>1, <1>2, <1>3, <1>4, <1>5, <1>6 DEF Unalarmed

\* The row of a transaction that was dealt with is there: it is read in turn.
LEMMA ReadUnalarmed ==
  ASSUME BaseInv, Unalarmed, UNCHANGED theRest, dynamo_get_with_retry
  PROVE  Unalarmed'
<1> USE DEF BaseInv
<1> DEFINE n == Len(CheckTxs[current]) - Len(left)
           x == CheckTxs[current][n + 1]
<1>1. /\ step = "fetch" /\ step' = step /\ left # <<>> /\ current \in Posting
      /\ UNCHANGED <<plan, at, fails>> /\ current' = current
      /\ CheckTxs[current] \in Seq(Txs) /\ left \in Seq(Txs) /\ IsRest(left, CheckTxs[current])
  BY CheckPosts DEF dynamo_get_with_retry, Script, current
<1>2. /\ UNCHANGED <<objects, subscribed>>
      /\ \A y : (DealtWith(y)' <=> DealtWith(y)) /\ Row(y)' = Row(y)
  BY DealtWithStands
<1>3. /\ Head(left) = x /\ x \in Sent(current) /\ x \in Txs /\ n \in Nat
      /\ Len(CheckTxs[current]) - Len(Tail(left)) = n + 1
  <2>1. Len(left) <= Len(CheckTxs[current])
    BY <1>1 DEF IsRest
  <2> QED BY <1>1, <2>1, TailIsRest, CheckPosts
<1>4. HasRow(x)
  <2>1. reply[x] = "202"
    BY <1>1, <1>3 DEF Unalarmed, DealtWith
  <2> QED BY <1>3, <2>1 DEF FlowInv
<1>5. \/ UNCHANGED <<left, rows>>
      \/ left' = Tail(left) /\ rows' = rows \cup {Row(x)}
  BY <1>3, <1>4 DEF dynamo_get_with_retry
<1>6. rows = {Row(CheckTxs[current][i]) : i \in 1..n}
  BY <1>1 DEF Unalarmed, Gone
<1>7. rows' = {Row(CheckTxs[current][i])' : i \in Gone'}
  <2> HIDE DEF n
  <2>1. CASE UNCHANGED <<left, rows>>
    BY <1>1, <1>2, <1>6, <2>1 DEF Gone, n
  <2>2. CASE left' = Tail(left) /\ rows' = rows \cup {Row(x)}
    <3>1. Gone' = 1..n + 1
      BY <1>1, <1>3, <2>2 DEF Gone
    <3>2. 1..n + 1 = (1..n) \cup {n + 1}
      BY <1>3
    <3>3. rows' = {Row(CheckTxs[current][i]) : i \in 1..n + 1}
      BY <1>6, <2>2, <3>2
    <3> QED BY <1>1, <1>2, <3>1, <3>3
  <2> QED BY <1>5, <2>1, <2>2
<1> QED BY <1>1, <1>2, <1>7 DEF Unalarmed

\* What the check at hand waits for is there.
LEMMA NeededIsThere ==
  ASSUME Script, current \in Posting, at <= Len(plan),
         OnPlan
  PROVE  Needed(current) \subseteq subscribed
<1>1. PICK p \in Plans : plan = p.checks /\ subscribed = p.services
  BY DEF OnPlan
<1>2. at \in DOMAIN p.checks /\ p.checks[at] = current
  BY <1>1 DEF Script, current
<1> QED BY <1>1, <1>2, PayloadsAssumption

\* The probes a check may make: "log" only for a service that has its line.
LowProbe   == {p \in AProbe : p.kind # "log" /\ (p.kind = "no-log" => p.of \in FilteredServices)}
HighProbe  == {p \in AProbe : p.kind # "no-log" /\ (p.kind = "log" => p.of = "compliance")}
FraudProbe == {p \in AProbe : p.kind # "no-log" /\ (p.kind = "log" => p.of = "alert")}


\* The probes of one kind for a list of services.
LEMMA ProbeIn ==
  ASSUME NEW S, NEW kind, NEW T, NEW services \in Seq(T), \A t \in T : [kind |-> kind, of |-> t] \in S
  PROVE  Probe(kind, services) \in Seq(S)
BY DEF Probe

\* What the checks probe for.
LEMMA ChecksLook ==
  /\ low_value_probes \in Seq(LowProbe) /\ high_value_probes \in Seq(HighProbe)
  /\ Probe("log", <<"alert">>) \in Seq(FraudProbe)
<1>1. /\ {"fraud", "risk", "compliance", "analytics", "audit-logging", "alert"} \subseteq Tasks
      /\ FilteredServices \subseteq Tasks /\ FilteredServices = {"fraud", "risk", "compliance"}
      /\ {"empty", "log", "log-or-empty", "no-log"} \subseteq ProbeKinds
  BY DEF Tasks, FilteredServices, UnfilteredServices, ProbeKinds
<1>2. /\ \A t \in FilteredServices : [kind |-> "no-log", of |-> t] \in LowProbe
      /\ \A t \in Tasks : /\ [kind |-> "empty", of |-> t] \in LowProbe
                          /\ [kind |-> "log-or-empty", of |-> t] \in LowProbe
                          /\ [kind |-> "log-or-empty", of |-> t] \in HighProbe
      /\ [kind |-> "log", of |-> "compliance"] \in HighProbe
      /\ [kind |-> "log", of |-> "alert"] \in FraudProbe
  BY <1>1 DEF LowProbe, HighProbe, FraudProbe, AProbe
<1>3. low_value_probes \in Seq(LowProbe)
  <2>1. Filtered \in Seq(FilteredServices) /\ Filtered \in Seq(Tasks)
    BY <1>1 DEF Filtered
  <2>2. Probe("empty", Filtered) \in Seq(LowProbe) /\ Probe("no-log", Filtered) \in Seq(LowProbe)
    BY <1>2, <2>1, ProbeIn
  <2>3. Probe("log-or-empty", <<"analytics", "audit-logging">>) \in Seq(LowProbe)
    <3>1. <<"analytics", "audit-logging">> \in Seq(Tasks)
      BY <1>1
    <3> QED BY <1>2, <3>1, ProbeIn
  <2> QED BY <2>2, <2>3 DEF low_value_probes
<1>4. high_value_probes \in Seq(HighProbe)
  <2>1. Probe("log", <<"compliance">>) \in Seq(HighProbe)
    <3>1. <<"compliance">> \in Seq({"compliance"})
      OBVIOUS
    <3> QED BY <1>2, <3>1, ProbeIn
  <2>2. Probe("log-or-empty", <<"risk", "analytics", "audit-logging">>) \in Seq(HighProbe)
    <3>1. <<"risk", "analytics", "audit-logging">> \in Seq(Tasks)
      BY <1>1
    <3> QED BY <1>2, <3>1, ProbeIn
  <2>3. <<>> \in Seq(HighProbe)
    OBVIOUS
  <2> QED BY <2>1, <2>2, <2>3 DEF high_value_probes
<1>5. Probe("log", <<"alert">>) \in Seq(FraudProbe)
  <2>1. <<"alert">> \in Seq({"alert"})
    OBVIOUS
  <2> QED BY <1>2, <2>1, ProbeIn
<1> QED BY <1>3, <1>4, <1>5

\* As many rows as transactions.
LEMMA RowsAreAsMany ==
  ASSUME NEW S, IsFiniteSet(S), NEW R, R = {Row(x) : x \in S}
  PROVE  Cardinality(R) = Cardinality(S)
<1> DEFINE f == [x \in S |-> Row(x)]
<1>1. f \in Bijection(S, R)
  <2>1. f \in [S -> R]
    OBVIOUS
  <2>2. \A x, y \in S : f[x] = f[y] => x = y
    BY DEF Row
  <2>3. \A r \in R : \E x \in S : f[x] = r
    OBVIOUS
  <2> QED BY <2>1, <2>2, <2>3 DEF Bijection, Injection, Surjection, IsInjective
<1> QED BY <1>1, FS_Bijection DEF ExistsBijection

\* What the check at hand says of its rows: nothing, but for the reason.
LEMMA RowsPass ==
  ASSUME BaseInv, Orderly, Unalarmed, Evaluate,
         OnPlan
  PROVE  /\ ~(rows = {} /\ current # "risk")
         /\ current = "low" => check_low_value = {}
         /\ current = "high" => check_high_value = {}
         /\ current = "fraud" => check_fraud_detection \subseteq {"flagged_reason"}
         /\ current = "risk" => check_risk_limit = {}
<1> USE DEF BaseInv
<1>1. /\ step = "fetch" /\ left = <<>> /\ current \in Posting /\ at <= Len(plan)
  BY DEF Evaluate, Script, current
<1>2. /\ Sent(current) \subseteq Txs /\ Sent(current) # {} /\ Len(CheckTxs[current]) \in Nat
      /\ Needed(current) \subseteq subscribed
  BY <1>1, CheckPosts, NeededIsThere
<1>3. rows = {Row(x) : x \in Sent(current)}
  <2>1. Gone = 1..Len(CheckTxs[current])
    <3>1. Len(left) = 0
      BY <1>1
    <3>2. Len(CheckTxs[current]) - Len(left) = Len(CheckTxs[current])
      BY <1>2, <3>1
    <3> QED BY <3>2 DEF Gone
  <2> QED BY <1>1, <2>1 DEF Unalarmed, Sent
<1>4. /\ \A x \in Sent(current) : x \in Txs /\ DealtWith(x) /\ Row(x) \in rows
      /\ \A r \in rows : \E x \in Sent(current) : r = Row(x)
  BY <1>1, <1>2, <1>3 DEF Unalarmed
<1>5. \A x : Row(x).tx = x /\ Row(x).status = status[x] /\ Row(x).reason = reason[x] /\ Row(x).ids = attrs[x]
  BY DEF Row
<1>6. PICK x \in Sent(current) : x \in Txs /\ DealtWith(x) /\ Row(x) \in rows
  BY <1>2, <1>4
<1>7. ASSUME current = "low" PROVE check_low_value = {}
  <2>1. ASSUME NEW y \in Sent("low") PROVE status[y] = "pending" /\ Event(y).priority \in {"low", "medium"}
    BY <1>4, <1>7, LowIsUntouched
  <2>2. Row(x) \in Being({"pending"})
    BY <1>5, <1>6, <1>7, <2>1 DEF Being
  <2>3. \A r \in rows : Event(r.tx).priority \in {"low", "medium"}
    BY <1>4, <1>5, <1>7, <2>1
  <2> QED BY <2>2, <2>3 DEF check_low_value
<1>8. ASSUME current = "high" PROVE check_high_value = {}
  <2>1. "fraud" \in subscribed
    BY <1>2, <1>8 DEF Needed
  <2>2. "alert_id" \in attrs[x]
    BY <1>6, <1>8, <2>1, FraudIsFound
  <2>3. Row(x) \in Having("alert_id")
    BY <1>5, <1>6, <2>2 DEF Having
  <2> QED BY <2>3 DEF check_high_value
<1>9. ASSUME current = "fraud" PROVE check_fraud_detection \subseteq {"flagged_reason"}
  <2>1. "fraud" \in subscribed
    BY <1>2, <1>9 DEF Needed
  <2>2. "alert_id" \in attrs[x] /\ status[x] = "flagged"
    <3>1. "alert_id" \in attrs[x] /\ status[x] \in {"flagged", "blocked"}
      BY <1>6, <1>9, <2>1, FraudIsFound
    <3>2. status[x] # "blocked"
      BY <1>6, <1>9, FraudIsNotBlocked
    <3> QED BY <3>1, <3>2
  <2>3. Row(x) \in Having("alert_id") /\ Row(x) \in Being({"flagged"})
    BY <1>5, <1>6, <2>2 DEF Having, Being
  <2> QED BY <2>3 DEF check_fraud_detection
<1>10. ASSUME current = "risk" PROVE check_risk_limit = {}
  <2>1. "risk" \in subscribed
    BY <1>2, <1>10 DEF Needed
  <2>2. \A y \in Sent("risk") : DealtWith(y)
    BY <1>4, <1>10
  <2>3. PICK y \in Sent("risk") : "breach_id" \in attrs[y]
    BY <2>1, <2>2, LimitIsEnforced
  <2>4. PICK z \in Sent("risk") : status[z] \in {"pending", "flagged"}
    BY <2>1, <2>2, LimitIsEnforced
  <2>5. Row(y) \in Having("breach_id") /\ Row(z) \in Being({"pending", "flagged"})
    BY <1>4, <1>5, <1>10, <2>3, <2>4 DEF Having, Being
  <2>6. Cardinality(rows) = Len(CheckTxs[current])
    <3>1. IsFiniteSet(Sent(current))
      BY <1>2, DeploymentAssumption, FS_Subset
    <3>2. Cardinality(rows) = Cardinality(Sent(current))
      BY <1>3, <3>1, RowsAreAsMany
    <3> QED BY <1>10, <3>2, PayloadsAssumption
  <2>7. \A r \in Being({"blocked"}) : r.reason = "risk_limit_exceeded"
    <3> SUFFICES ASSUME NEW r \in Being({"blocked"}) PROVE r.reason = "risk_limit_exceeded"
      OBVIOUS
    <3>1. r \in rows /\ r.status = "blocked"
      BY DEF Being
    <3>2. PICK w \in Sent(current) : r = Row(w)
      BY <1>4, <3>1
    <3>3. w \in Txs /\ status[w] = "blocked" /\ r.reason = reason[w]
      BY <1>4, <1>5, <3>1, <3>2
    <3> QED BY <3>3 DEF Orderly, Found
  <2>8. ~(Cardinality(rows) < Len(CheckTxs[current]))
    BY <1>2, <2>6
  <2> QED BY <2>5, <2>7, <2>8 DEF check_risk_limit
<1>11. ~(rows = {} /\ current # "risk")
  BY <1>6
<1> QED BY <1>7, <1>8, <1>9, <1>10, <1>11

\* The verdict over the rows reports nothing, and asks for no log line that is not there.
LEMMA EvaluateUnalarmed ==
  ASSUME BaseInv, Orderly, Unalarmed, UNCHANGED theRest, Evaluate,
         OnPlan
  PROVE  Unalarmed'
<1> USE DEF BaseInv
<1>1. /\ step = "fetch" /\ current \in Posting /\ plan' = plan
      /\ UNCHANGED <<objects, subscribed>> /\ \A x : (DealtWith(x)' <=> DealtWith(x))
  BY DealtWithStands DEF Evaluate, Script, current
<1>2. /\ step' = "probe" /\ at' = at /\ current' = current
      /\ Fails(CASE current = "low"   -> check_low_value
                 [] current = "high"  -> check_high_value
                 [] current = "fraud" -> check_fraud_detection
                 [] OTHER       -> check_risk_limit)
      /\ probes' = CASE current = "low"   -> low_value_probes
                     [] current = "high"  -> high_value_probes
                     [] current = "fraud" -> Probe("log", <<"alert">>)
                     [] OTHER       -> <<>>
  <2>1. ~(rows = {} /\ current # "risk")
    BY RowsPass
  <2> QED BY <1>1, <2>1 DEF Evaluate, current
<1>3. current \in {"low", "high", "fraud", "risk"}
  BY <1>1 DEF Posting
<1>4. fails' \subseteq Excused
  <2>1. PICK what : Fails(what) /\ (what = {} \/ (current = "fraud" /\ what \subseteq {"flagged_reason"}))
    <3>1. CASE current = "low"   BY <1>2, <3>1, RowsPass
    <3>2. CASE current = "high"  BY <1>2, <3>2, RowsPass
    <3>3. CASE current = "fraud" BY <1>2, <3>3, RowsPass
    <3>4. CASE current = "risk"  BY <1>2, <3>4, RowsPass
    <3> QED BY <1>3, <3>1, <3>2, <3>3, <3>4
  <2>2. {<<current, w>> : w \in what} \subseteq Excused
    BY <2>1 DEF Excused
  <2> QED BY <2>1, <2>2 DEF Fails, Unalarmed
<1>5. ASSUME NEW i \in DOMAIN probes'
      PROVE  /\ probes'[i].kind = "log" => <<current, probes'[i].of>> \in LogsRead
             /\ probes'[i].kind = "no-log" => current = "low" /\ probes'[i].of \in FilteredServices
  <2>1. CASE current = "low"
    <3>1. probes' \in Seq(LowProbe)
      BY <1>2, <2>1, ChecksLook
    <3>2. probes'[i] \in LowProbe
      BY <1>5, <3>1
    <3> QED BY <2>1, <3>2 DEF LowProbe
  <2>2. CASE current = "high"
    <3>1. probes' \in Seq(HighProbe)
      BY <1>2, <2>2, ChecksLook
    <3>2. probes'[i] \in HighProbe
      BY <1>5, <3>1
    <3> QED BY <2>2, <3>2 DEF HighProbe, LogsRead
  <2>3. CASE current = "fraud"
    <3>1. probes' \in Seq(FraudProbe)
      BY <1>2, <2>3, ChecksLook
    <3>2. probes'[i] \in FraudProbe
      BY <1>5, <3>1
    <3> QED BY <2>3, <3>2 DEF FraudProbe, LogsRead
  <2>4. CASE current = "risk"
    BY <1>2, <1>5, <2>4
  <2> QED BY <1>3, <2>1, <2>2, <2>3, <2>4
<1> QED BY <1>1, <1>2, <1>4, <1>5 DEF Unalarmed

\* The probes of a check find no dead letter, and the lines they wait for.
LEMMA ProbeUnalarmed ==
  ASSUME BaseInv, Orderly, Unalarmed, UNCHANGED theRest, RunProbe, calm',
         OnPlan
  PROVE  Unalarmed'
<1> USE DEF BaseInv
<1>1. /\ step = "probe" /\ step' = step /\ UNCHANGED <<plan, at, left, rows>> /\ probes # <<>>
      /\ probes \in Seq(AProbe) /\ probes' = Tail(probes) /\ current \in Posting /\ current' = current
      /\ at <= Len(plan)
      /\ UNCHANGED <<objects, subscribed>> /\ \A x : (DealtWith(x)' <=> DealtWith(x))
  BY DealtWithStands DEF RunProbe, Script, current
<1>2. /\ Head(probes) = probes[1] /\ 1 \in DOMAIN probes /\ probing \in AProbe
      /\ \A i \in DOMAIN Tail(probes) : i + 1 \in DOMAIN probes /\ Tail(probes)[i] = probes[i + 1]
  BY <1>1 DEF probing
<1>3. /\ probing.kind \in ProbeKinds
      /\ probing.kind = "log" => <<current, probing.of>> \in LogsRead
      /\ probing.kind = "no-log" => current = "low" /\ probing.of \in FilteredServices
  BY <1>1, <1>2 DEF Unalarmed, probing, AProbe
<1>4. \A s : DlqReadings(s) = {0}
  <2> SUFFICES ASSUME NEW s PROVE DlqReadings(s) = {0}
    OBVIOUS
  <2>1. ~reviewers /\ \A x \in Txs : s \in Services => q[x][s] # "dlq"
    BY DEF Orderly, Undisturbed, Unhindered
  <2>2. s \in Services => {x \in Txs : q[x][s] = "dlq"} = {}
    BY <2>1
  <2>3. s \in Services => Cardinality({x \in Txs : q[x][s] = "dlq"}) = 0
    BY <2>2, FS_EmptySet
  <2> QED BY <2>1, <2>3 DEF DlqReadings
<1>5. sqs_depth => fails' = fails
  <2> SUFFICES ASSUME sqs_depth PROVE fails' = fails
    OBVIOUS
  <2>1. \E d \in {0} : Fails(IF d > 0 THEN {ProcessedTx} ELSE {})
    BY <1>4 DEF sqs_depth
  <2>2. (IF 0 > 0 THEN {ProcessedTx} ELSE {}) = {}
    OBVIOUS
  <2>3. Fails({})
    BY <2>1, <2>2
  <2> QED BY <2>3 DEF Fails
<1>6. current \in {"low", "high", "fraud"} => probed \in Sent(current)
  <2> SUFFICES ASSUME current \in {"low", "high", "fraud"} PROVE probed \in Sent(current)
    OBVIOUS
  <2>1. CheckTxs[current] \in Seq(Txs) /\ Len(CheckTxs[current]) = 1
    BY VerifyAssumption DEF Posting
  <2>2. Head(CheckTxs[current]) = CheckTxs[current][1] /\ 1 \in 1..Len(CheckTxs[current])
    BY <2>1
  <2> QED BY <2>2 DEF probed, Sent
<1>7. current \in {"low", "high", "fraud"} => probed \in Txs /\ DealtWith(probed)
  BY <1>1, <1>6, CheckPosts DEF Unalarmed
<1>8. probing.kind = "log" => Logged(probed, probing.of)
  <2>0. Needed(current) \subseteq subscribed /\ subscribed \subseteq Services
    BY <1>1, NeededIsThere DEF DeploymentTypeOK
  <2>1. CASE current = "high" /\ probing.of = "compliance"
    <3>1. PICK x : x = probed
      OBVIOUS
    <3>2. x \in Sent("high") /\ x \in Txs /\ DealtWith(x)
      BY <1>6, <1>7, <2>1, <3>1
    <3>3. "compliance" \in subscribed /\ "compliance" \in FilteredServices
      BY <2>0, <2>1 DEF Needed, FilteredServices
    <3>4. PriorityOf(Body[x]) \in {"high", "critical"}
      BY <3>2, PayloadsAssumption DEF Posting
    <3>5. "compliance" \in Route(x)
      BY <3>2, <3>3, <3>4, RouteTold
    <3>6. <<x, "compliance">> \in judged
      BY <3>2, <3>5, DealtWithIsJudged DEF Orderly
    <3> QED BY <2>1, <3>1, <3>6 DEF Logged
  <2>2. CASE current = "fraud" /\ probing.of = "alert"
    <3>1. PICK x : x = probed
      OBVIOUS
    <3>2. x \in Sent("fraud") /\ DealtWith(x) /\ "fraud" \in subscribed
      BY <1>6, <1>7, <2>0, <2>2, <3>1 DEF Needed
    <3>3. "dispatched" \in alerts[x]
      BY <3>2, FraudIsFound DEF Orderly
    <3> QED BY <2>2, <3>1, <3>3 DEF Logged
  <2> QED BY <1>3, <2>1, <2>2 DEF LogsRead
<1>9. probing.kind = "no-log" => ~Logged(probed, probing.of)
  <2> SUFFICES ASSUME probing.kind = "no-log" PROVE ~Logged(probed, probing.of)
    OBVIOUS
  <2>1. PICK x : x = probed
    OBVIOUS
  <2>2. x \in Sent("low") /\ DealtWith(x) /\ probing.of \in FilteredServices
    BY <1>3, <1>6, <1>7, <2>1
  <2>3. <<x, probing.of>> \notin judged
    BY <2>2, LowIsUntouched
  <2> QED BY <2>1, <2>2, <2>3 DEF Logged, FilteredServices
<1>10. cw_has_log /\ probing.kind # "empty" => fails' = fails
  <2> SUFFICES ASSUME cw_has_log, probing.kind # "empty" PROVE fails' = fails
    OBVIOUS
  <2>1. CASE denied /\ UNCHANGED fails
    BY <2>1
  <2>2. CASE Logged(probed, probing.of) /\ Fails(IF probing.kind = "no-log" THEN {ProcessedTx} ELSE {})
    <3>1. Fails({})
      BY <1>9, <2>2
    <3> QED BY <3>1 DEF Fails
  <2>3. CASE probing.kind = "log-or-empty" /\ sqs_depth
    BY <1>5, <2>3
  <2>4. CASE UNCHANGED fails
    BY <2>4
  <2>5. CASE probing.kind = "log" /\ calm' = (calm /\ ~Logged(probed, probing.of))
    BY <1>8, <2>5
  <2> QED BY <1>3, <2>1, <2>2, <2>3, <2>4, <2>5 DEF cw_has_log, ProbeKinds
<1>11. fails' = fails
  BY <1>5, <1>10 DEF RunProbe
<1>12. ASSUME NEW i \in DOMAIN probes'
      PROVE  /\ probes'[i].kind = "log" => <<current, probes'[i].of>> \in LogsRead
             /\ probes'[i].kind = "no-log" => current = "low" /\ probes'[i].of \in FilteredServices
  <2>1. i + 1 \in DOMAIN probes /\ probes'[i] = probes[i + 1]
    BY <1>1, <1>2, <1>12
  <2> QED BY <1>1, <2>1 DEF Unalarmed
<1> QED BY <1>1, <1>11, <1>12 DEF Unalarmed

\* Every step of the script, while nothing is late.
LEMMA StepUnalarmed ==
  ASSUME BaseInv, Orderly, calm => Unalarmed, VerifyStep, UNCHANGED theRest, calm', tool = "verify",
         OnPlan
  PROVE  Unalarmed'
<1>0. calm
  BY DEF VerifyStep, Look, StartPosting, Post, PostReturns, Posted, Sleep,
     dynamo_get_with_retry, Dies, Evaluate, RunProbe, EndCheck, Exit,
     check_service_health, check_queue_status, check_audit_trail, sqs_depth, cw_has_log
<1>1. CASE Look BY <1>0, <1>1, LooksUnalarmed
<1>2. CASE StartPosting \/ Post \/ PostReturns \/ Posted BY <1>0, <1>2, PostingUnalarmed
<1>3. CASE Sleep BY <1>0, <1>3, SleepUnalarmed
<1>4. CASE dynamo_get_with_retry BY <1>0, <1>4, ReadUnalarmed
<1>5. CASE Evaluate BY <1>0, <1>5, EvaluateUnalarmed
<1>6. CASE RunProbe BY <1>0, <1>6, ProbeUnalarmed
<1>7. CASE Dies \/ Exit
  <2>1. step' \in {"died", "exit0", "exit1"} /\ UNCHANGED <<plan, at, fails>>
    BY <1>7 DEF Dies, Exit
  <2> QED BY <1>0, <2>1, DealtWithStands DEF Unalarmed
<1>8. CASE EndCheck
  BY <1>0, <1>8, DealtWithStands, CheckEnds DEF EndCheck, NextCheck, BaseInv, Unalarmed
<1> QED BY <1>1, <1>2, <1>3, <1>4, <1>5, <1>6, <1>7, <1>8 DEF VerifyStep

\* verify_system.py reports no failure when nothing has gone wrong, the sleeps were
\* long enough and no log line came late, but for the flagged_reason of its fraud check:
\* for any transactions and plans that are as PayloadsAssumption says, and
\* however the services work on them meanwhile (main, and the check_ functions).
THEOREM NoFalseAlarms == Spec => []NoFalseAlarm
<1> DEFINE IInv == BaseInv /\ AlarmInv
<1>1. Init => IInv
  BY BaseInit, AlarmInit
<1>2. IInv /\ [Next]_vars => IInv'
  <2> SUFFICES ASSUME IInv, [Next]_vars PROVE IInv'
    OBVIOUS
  <2>1. BaseInv' /\ Onward /\ UNCHANGED <<choices, tool>>
    BY BaseStep, OneMoves DEF Onward
  <2>2. tool # "verify" => UNCHANGED verifyVars
    <3>1. VerifyStep /\ UNCHANGED theRest => tool = "verify" \/ UNCHANGED verifyVars
      BY DEF Next, Moves, Verifies, Reconciles, Reports, Loads, Views, Injects, others, vars
    <3> QED BY <3>1, OneMoves
  <2>3. (tool # "verify" => step = "check")'
    BY <2>1, <2>2 DEF AlarmInv, verifyVars
  <2>4. (tool = "verify" => OnPlan)'
    <3>1. plan' = plan /\ subscribed' = subscribed
      BY <2>1, OneMoves DEF choices, verifyVars, VerifyStep, Look, StartPosting, Post, PostReturns, Posted,
         Sleep, dynamo_get_with_retry, Dies, Evaluate, RunProbe, EndCheck, Exit
    <3> QED BY <2>1, <3>1 DEF AlarmInv, OnPlan
  <2>5. ASSUME tool = "verify", hitches' = 0 PROVE Orderly' /\ (calm' => Unalarmed')
    <3>1. hitches = 0
      <4>1. DeploymentNext \/ UNCHANGED theRest
        BY OneMoves
      <4> QED BY <2>5, <4>1, HitchesStay DEF theRest, BaseInv
    <3>2. Orderly /\ (calm => Unalarmed)
      BY <2>5, <3>1 DEF AlarmInv
    <3>3. Orderly'
      BY <2>5, <3>2, OrderlyStays
    <3>4. ASSUME calm' PROVE Unalarmed'
      <4>1. CASE VerifyStep /\ UNCHANGED theRest
        BY <2>5, <3>2, <3>4, <4>1, StepUnalarmed DEF AlarmInv
      <4>2. CASE UNCHANGED verifyVars /\ DeploymentNext
        BY <2>1, <2>5, <3>2, <3>4, <4>2, UnalarmedStays DEF verifyVars
      <4>3. CASE UNCHANGED verifyVars /\ UNCHANGED theRest
        <5>1. Unalarmed
          BY <3>2, <3>4, <4>3 DEF verifyVars
        <5>2. UNCHANGED <<plan, at, step, left, rows, probes, fails>>
          BY <4>3 DEF verifyVars
        <5> QED BY <4>3, <5>1, <5>2, DealtWithStands DEF Unalarmed, Gone, current, AllAccepted
      <4> QED BY <4>1, <4>2, <4>3, OneMoves
    <3> QED BY <3>3, <3>4
  <2> QED BY <2>1, <2>3, <2>4, <2>5 DEF AlarmInv
<1>3. IInv => NoFalseAlarm
  <2> SUFFICES ASSUME IInv, VerifyEnded, calm, hitches = 0 PROVE fails \subseteq {<<"fraud", "flagged_reason">>}
    BY DEF NoFalseAlarm
  <2>1. tool = "verify"
    BY DEF AlarmInv, VerifyEnded
  <2> QED BY <2>1 DEF AlarmInv, Unalarmed, Excused
<1> HIDE DEF IInv
<1> QED BY <1>1, <1>2, <1>3, PTL DEF Spec
=============================================================================
