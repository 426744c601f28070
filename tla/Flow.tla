-------------------------------- MODULE Flow --------------------------------
(***************************************************************************)
(* A transaction as it looks from outside: the reply the client gets, the  *)
(* status of its row, where its messages are, and who has done what with   *)
(* it.  How a service works, what fails in it and how often it is tried    *)
(* again is not told here: a service touches the row while its message     *)
(* is in its queue, and only a message it has judged leaves that queue     *)
(* for good; any other one ends in the dead-letter queue.                  *)
(*                                                                         *)
(* Pipeline implements this specification; Deployment extends it with what *)
(* the operators' scripts and the dashboard look at.                       *)
(***************************************************************************)
EXTENDS Naturals, Sequences

CONSTANTS
  Txs,       \* transactions
  Services,  \* the subscribed services
  Routes     \* the sets of services an event may be delivered to

VARIABLES
  reply,     \* reply[x]: what the client got: "202", anything else ("failed") or nothing yet
  status,    \* status[x]: the status attribute of the row, "none" without a row
  q,         \* q[x][s]: where the message about x for service s is
  judged,    \* <<x, s>> service s has done its work on x
  reviewed   \* <<x, s>> flagged for manual review after service s gave up on x

flowVars == <<reply, status, q, judged, reviewed>>

FlowInit ==
  /\ reply = [x \in Txs |-> "none"]
  /\ status = [x \in Txs |-> "none"]
  /\ q = [x \in Txs |-> [s \in Services |-> "none"]]
  /\ judged = {} /\ reviewed = {}

Delivers(x, route) ==
  q' = [q EXCEPT ![x] = [s \in Services |-> IF s \in route THEN "queue" ELSE "none"]]

Replies(x, r) == reply[x] = "none" /\ reply' = [reply EXCEPT ![x] = r]

Write(x) ==
  /\ reply[x] = "none" /\ status[x] = "none"
  /\ status' = [status EXCEPT ![x] = "pending"]
  /\ UNCHANGED <<reply, q, judged, reviewed>>

Accept(x, route) ==
  /\ status[x] # "none"
  /\ Replies(x, "202") /\ Delivers(x, route)
  /\ UNCHANGED <<status, judged, reviewed>>

\* The client is told that it failed, or nothing, although the row may be
\* there and, if it is, the event may be out.
Refuse(x, route) ==
  /\ Replies(x, "failed")
  /\ \/ UNCHANGED <<status, q>>
     \/ status[x] = "none" /\ status' = [status EXCEPT ![x] = "pending"] /\ UNCHANGED q
     \/ status[x] # "none" /\ Delivers(x, route) /\ UNCHANGED status
  /\ UNCHANGED <<judged, reviewed>>

\* What a service may write into the row.
Marks(s) == CASE s = "fraud"      -> {"clean", "flagged"}
              [] s = "compliance" -> {"flagged"}
              [] s = "risk"       -> {"blocked"}
              [] OTHER            -> {}

\* One attempt of a service, or a part of one.
Handle(x, s, mark, done) ==
  /\ q[x][s] = "queue"
  /\ mark \in Marks(s) \cup {status[x]}
  /\ status' = [status EXCEPT ![x] = mark]
  /\ judged' = IF done THEN judged \cup {<<x, s>>} ELSE judged
  /\ UNCHANGED <<reply, q, reviewed>>

Delete(x, s) ==
  /\ \/ q[x][s] = "queue" /\ <<x, s>> \in judged
     \/ q[x][s] = "dlq" /\ <<x, s>> \in reviewed
  /\ q' = [q EXCEPT ![x][s] = "deleted"]
  /\ UNCHANGED <<reply, status, judged, reviewed>>

DeadLetter(x, s) ==
  /\ q[x][s] = "queue"
  /\ q' = [q EXCEPT ![x][s] = "dlq"]
  /\ UNCHANGED <<reply, status, judged, reviewed>>

Review(x, s) ==
  /\ q[x][s] = "dlq"
  /\ status' = [status EXCEPT ![x] = "pending_manual_review"]
  /\ reviewed' = reviewed \cup {<<x, s>>}
  /\ UNCHANGED <<reply, q, judged>>

\* A message leaves the queue of its service.
Settle(x, s) == DeadLetter(x, s) \/ (q[x][s] = "queue" /\ Delete(x, s))

FlowNext ==
  \E x \in Txs :
    \/ Write(x)
    \/ \E route \in Routes : Accept(x, route) \/ Refuse(x, route)
    \/ \E s \in Services :
         \/ \E mark \in Marks(s) \cup {status[x]}, done \in BOOLEAN : Handle(x, s, mark, done)
         \/ Delete(x, s) \/ DeadLetter(x, s) \/ Review(x, s)

FlowSpec == FlowInit /\ [][FlowNext]_flowVars

\* No message stays in the queue of its service for ever.
FlowFairness == \A x \in Txs, s \in Services : WF_flowVars(Settle(x, s))

FlowFairSpec == FlowSpec /\ FlowFairness
=============================================================================
