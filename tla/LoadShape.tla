----------------------------- MODULE LoadShape -----------------------------
(***************************************************************************)
(* The load test: staged_load.py, whose shape tells Locust once a second   *)
(* how many users there should be and how fast to get there, and the users *)
(* of staged_load.py and locustfile.py, who post one transaction after     *)
(* another.  Locust starts and stops at most the given number of users a   *)
(* second.                                                                 *)
(***************************************************************************)
EXTENDS Rules, Sequences

CONSTANT Amounts  \* bound: the amounts drawn, in cents

VARIABLES
  runTime,  \* seconds since the start
  users,    \* users running
  over,     \* tick has returned None
  lastPost  \* a post of the last second: the task and the request

loadVars == <<runTime, users, over, lastPost>>

NoPost == [task |-> "none"]

Stage(end, target, rate) == [end |-> end, users |-> target, rate |-> rate]

\* Mutant: the ramp rates are rounded down.
_STAGES_RoundedDown ==
  <<Stage(30, 100, 3),    Stage(150, 100, 100),   Stage(180, 500, 13),
    Stage(360, 500, 500), Stage(390, 1000, 16),   Stage(570, 1000, 1000),
    Stage(600, 2000, 33), Stage(780, 2000, 2000), Stage(810, 3000, 33),
    Stage(990, 3000, 3000), Stage(1050, 0, 50)>>

_STAGES ==
  <<Stage(30, 100, 4),    Stage(150, 100, 100),   Stage(180, 500, 14),
    Stage(360, 500, 500), Stage(390, 1000, 17),   Stage(570, 1000, 1000),
    Stage(600, 2000, 34), Stage(780, 2000, 2000), Stage(810, 3000, 34),
    Stage(990, 3000, 3000), Stage(1050, 0, 50)>>

LoadTypeOK ==
  /\ runTime \in Nat /\ users \in Nat /\ over \in BOOLEAN
  /\ lastPost = NoPost \/ ValidRequest(lastPost.body)

LoadInit == runTime = 0 /\ users = 0 /\ over = FALSE /\ lastPost = NoPost

\* The stages that are not over at time t.
Ahead(t) == {i \in DOMAIN _STAGES : t < _STAGES[i].end}

Current(t) == _STAGES[CHOOSE i \in Ahead(t) : \A j \in Ahead(t) : i <= j]

Towards(n, target, rate) ==
  IF n < target THEN (IF n + rate < target THEN n + rate ELSE target)
  ELSE IF n - rate > target THEN n - rate ELSE target

\* tick, and the second that follows; None ends the test.
tick ==
  /\ ~over
  /\ IF Ahead(runTime) = {} THEN over' = TRUE /\ UNCHANGED <<runTime, users>>
     ELSE LET stage == Current(runTime) IN
          /\ users' = Towards(users, stage.users, stage.rate)
          /\ runTime' = runTime + 1
          /\ UNCHANGED over
  /\ lastPost' = NoPost

\* Mutant: the ranges touch.
AmountOf_Inclusive == [low    |-> Dollars(10)..Dollars(1000),
                       medium |-> Dollars(1000)..Dollars(10000),
                       high   |-> Dollars(10000)..Dollars(100000)]

\* The tasks of a TraderUser, by the amounts they draw.
AmountOf == [low    |-> Dollars(10)..Dollars(1000) - 1,
             medium |-> Dollars(1000)..Dollars(10000) - 1,
             high   |-> Dollars(10000)..Dollars(100000)]

\* Only the high-value task picks its user and type by itself.
TypesOf(task) == IF task = "high" THEN {"withdrawal", "transfer"} ELSE TransactionTypes

Payload(amount, type) ==
  [user |-> "user_0001", amount |-> amount, currency |-> "USD", merchant |-> "merchant_001",
   type |-> type, priority |-> ""]

\* Of the posts of a second one is looked at.  Whether its reply counts as a
\* success or as a failure changes nothing for the user.
_post_transaction ==
  /\ users > 0 /\ ~over /\ lastPost = NoPost
  /\ \E task \in DOMAIN AmountOf, type \in TransactionTypes :
     \E amount \in Amounts \cap AmountOf[task] :
       type \in TypesOf(task) /\ lastPost' = [task |-> task, body |-> Payload(amount, type)]
  /\ UNCHANGED <<runTime, users, over>>

LoadStep == tick \/ _post_transaction

LoadEnded == over

-----------------------------------------------------------------------------
\* The rates of the ramps are enough: when a hold begins its users are there and
\* stay, and nobody is left when the test stops.
StagesReachTarget ==
  /\ \A i \in DOMAIN _STAGES \ {1} :
       /\ _STAGES[i].users = _STAGES[i - 1].users
       /\ runTime \in _STAGES[i - 1].end.._STAGES[i].end
       => users = _STAGES[i].users
  /\ over => users = 0

\* The high-value task alone loads the filtered services: no amount of the
\* other two reaches them, and each of its own does.
OnlyHighValueIsFiltered ==
  lastPost # NoPost =>
    (lastPost.task = "high") =
    (FilteredServices \subseteq RoutedTo(PriorityOf(lastPost.body)))
=============================================================================
