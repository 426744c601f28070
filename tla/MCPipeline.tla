----------------------------- MODULE MCPipeline -----------------------------
(***************************************************************************)
(* TLC instances of Pipeline: one transaction (rows, queues and handlers   *)
(* of two transactions share nothing here), any of six requests around the *)
(* thresholds.                                                             *)
(***************************************************************************)
EXTENDS Pipeline

CONSTANT x1

Request(amount, type, currency, user, priority) ==
  [user |-> user, amount |-> amount, currency |-> currency, merchant |-> "m",
   type |-> type, priority |-> priority]

\* $10,000 sharp, the lowest derived priority that is routed; a small one the
\* client calls high; a critical withdrawal of a blocked user; a cent below
\* the routing threshold; and two that are refused.
MCBodies ==
  {Request(Dollars(10000), "purchase", "USD", "alice", ""),
   Request(Dollars(500) + 1, "transfer", "EUR", "alice", "high"),
   Request(Dollars(60000) + 1, "withdrawal", "XAU", "mallory", ""),
   Request(Dollars(10000) - 1, "deposit", "USD", "alice", ""),
   Request(0, "purchase", "USD", "alice", ""),
   Request(Dollars(500), "purchase", "USD", "alice", "urgent")}

MCRoutedBodies == {b \in MCBodies : b.amount = Dollars(10000)}

MCMaxReceive == [s \in Services |-> IF s = "fraud" THEN 2 ELSE 1]
MCTotals     == {Dollars(50000), Dollars(100000)}
MCDailyLimit == Dollars(50000)
=============================================================================
