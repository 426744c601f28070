---------------------------- MODULE MCObservers ----------------------------
(***************************************************************************)
(* TLC instance of Observers: the requests of verify_system.py and of      *)
(* audit_test.py, with two transfers of $30,000 in place of five of        *)
(* $15,000, one retry in place of three to six, and one or two services    *)
(* for each tool that does not look at more.                               *)
(***************************************************************************)
EXTENDS Observers, TLC

CONSTANTS t1, t2, t3, t4, t5, k1, k2, k3

Request(user, amount, type) ==
  [user |-> user, amount |-> Dollars(amount), currency |-> "USD", merchant |-> "merchant_001",
   type |-> type, priority |-> ""]

\* t1 serves check_low_value, audit_test.py and, with t2, the experiments.
MCBody ==
  t1 :> Request("verify-low-001", 100, "purchase") @@
  t2 :> Request("verify-high", 15000, "withdrawal") @@
  t3 :> Request("verify-fraud", 50000, "withdrawal") @@
  t4 :> Request("verify-risk", 30000, "transfer") @@
  t5 :> Request("verify-risk", 30000, "transfer")

MCCheckTxs == [low |-> <<t1>>, high |-> <<t2>>, fraud |-> <<t3>>, risk |-> <<t4, t5>>]

Plan(checks, services) == [checks |-> checks, services |-> services, denied |-> FALSE]

MCPlans ==
  {Plan(<<"health", "queues">>, {}),
   Plan(<<"low", "audit">>, {"analytics", "audit-logging"}),
   Plan(<<"high">>, {"fraud", "compliance"}),
   Plan(<<"fraud">>, {"fraud", "risk", "compliance"}),
   Plan(<<"risk">>, {"risk"}),
   [Plan(<<"low">>, {"analytics"}) EXCEPT !.denied = TRUE],
   [Plan(<<"high">>, {"fraud", "compliance"}) EXCEPT !.denied = TRUE]}

MCWatched == [reconcile |-> {{"analytics", "audit-logging"}}, cascade |-> {{"fraud"}, {"audit-logging"}},
              views |-> {{"compliance"}}, chaos |-> {{}}, load |-> {{}}]

MCAuditTxs   == <<t1>>
MCRoutes     == SUBSET Services
MCDailyLimit == Dollars(50000)
MCOp         == k1 :> "kill" @@ k2 :> "delay" @@ k3 :> "restart"
MCPosition   == t1 :> 2 @@ t2 :> 3 @@ t3 :> 1 @@ t4 :> 4 @@ t5 :> 5
MCStamp      == t1 :> 1 @@ t2 :> 3 @@ t3 :> 2 @@ t4 :> 4 @@ t5 :> 5
MCQuestions  == {[priority |-> "all", type |-> "all", limit |-> 2],
                 [priority |-> "all", type |-> "withdrawal", limit |-> 1]}
MCAmounts    == {99999, 100000, 999999, 1000000}
=============================================================================
