-------------------------- MODULE Pipeline_proofs --------------------------
(***************************************************************************)
(* Proofs about Pipeline, for any transactions and requests, any queues,   *)
(* any limit and any faults.                                               *)
(***************************************************************************)
EXTENDS Pipeline, TLAPS

-----------------------------------------------------------------------------
(* The decisions.                                                          *)

\* What is sent on is what the client sent, with a priority filled in.
LEMMA TxFields ==
  ASSUME NEW x \in Txs, body[x] \in Bodies
  PROVE  /\ Tx(x).amount = body[x].amount /\ Tx(x).amount \in Int
         /\ Tx(x).priority = PriorityOf(body[x])
BY PipelineAssumption DEF Tx, Requests

\* Every severity the services resolve is one of the four.
LEMMA SeveritiesResolved ==
  /\ \A tx, p : FraudSeverity(tx, p) \in Severities
  /\ \A r : ViolationSeverity(r) \in Severities
  /\ \A n, limit : severityFromBreach(n, limit) \in Severities
BY DEF FraudSeverity, ViolationSeverity, severityFromBreach, Severities

\* A service finds either nothing or events that can be published.
LEMMA FindingsAreEvents ==
  ASSUME NEW x \in Txs, NEW s \in FilteredServices
  PROVE  Findings(x, s) \subseteq Events \cup {NoEvent}
<1>1. \A k \in Kinds, sev \in Severities : Event(k, x, sev) \in Events
  BY DEF Event, Events
<1>2. {"fraud-alert", "compliance-violation", "risk-breach"} \subseteq Kinds
  BY DEF Kinds
<1>3. CASE s = "fraud"
  BY <1>1, <1>2, <1>3, SeveritiesResolved DEF Findings
<1>4. CASE s = "compliance"
  BY <1>1, <1>2, <1>4, SeveritiesResolved DEF Findings
<1>5. CASE s \notin {"fraud", "compliance"}
  <2>1. Findings(x, s) = {IF n <= DailyLimit THEN NoEvent
           ELSE Event("risk-breach", x, severityFromBreach(n, DailyLimit)) : n \in Totals}
    BY <1>5 DEF Findings
  <2> QED BY <2>1, <1>1, <1>2, SeveritiesResolved
<1> QED BY <1>3, <1>4, <1>5

\* An event is never mistaken for none.
LEMMA NoEventIsNone == NoEvent \notin Events
BY DEF NoEvent, Events, Kinds

\* The fraud and compliance rules compute one result, whatever task runs them.
LEMMA RulesAreDeterministic ==
  ASSUME NEW x \in Txs, NEW s \in {"fraud", "compliance"}, NEW f \in Findings(x, s)
  PROVE  Findings(x, s) = {f}
<1>1. CASE s = "fraud"
  BY <1>1 DEF Findings
<1>2. CASE s = "compliance"
  BY <1>2 DEF Findings
<1> QED BY <1>1, <1>2

\* An amount whose derived priority is routed to fraud matches a pattern: above
\* $10,000 it is a high value, and $10,000 sharp is round.
LEMMA DerivedPriorityMeansPattern ==
  ASSUME NEW tx, tx.amount \in Int, derivePriority(tx.amount) \in {"high", "critical"}
  PROVE  detectPatterns(tx) # {}
<1>1. tx.amount >= 1000000
  BY DEF derivePriority, Dollars
<1>2. CASE tx.amount > 1000000
  <2>1. "high_value_transaction" \in detectPatterns(tx)
    BY <1>2 DEF detectPatterns, FraudPatterns, Dollars
  <2> QED BY <2>1
<1>3. CASE tx.amount = 1000000
  <2>1. tx.amount % 100000 = 0
    BY <1>3
  <2>2. "round_number_transaction" \in detectPatterns(tx)
    BY <1>3, <2>1 DEF detectPatterns, FraudPatterns, Dollars
  <2> QED BY <2>2
<1> QED BY <1>1, <1>2, <1>3

\* So fraud finds something in every transaction it only sees because of its
\* derived priority.
LEMMA DerivedPriorityMeansAlert ==
  ASSUME NEW x \in Txs, body[x] \in Bodies, body[x].priority = "",
         Tx(x).priority \in {"high", "critical"}
  PROVE  NoEvent \notin Findings(x, "fraud")
<1>1. detectPatterns(Tx(x)) # {}
  BY TxFields, DerivedPriorityMeansPattern DEF PriorityOf
<1>2. PICK sev \in Severities : Findings(x, "fraud") = {Event("fraud-alert", x, sev)}
  BY <1>1, SeveritiesResolved DEF Findings
<1> QED BY <1>2 DEF Event, NoEvent
-----------------------------------------------------------------------------
(* Types.                                                                  *)

HSteps == {"idle", "check", "mark", "publish", "delete", "flag", "notify", "deleteReviewed"}

\* Sending a message's handler to another step keeps hstep well typed.
LEMMA GotoTyped ==
  ASSUME hstep \in [Txs -> [Services -> HSteps]], NEW x \in Txs, NEW s \in Services,
         NEW next \in HSteps, Goto(x, s, next)
  PROVE  hstep' \in [Txs -> [Services -> HSteps]]
BY DEF Goto

\* The part of TypeOK that speaks of handlers.
HandlersOK ==
  /\ hstep \in [Txs -> [Services -> HSteps]]
  /\ finding \in [Txs -> [Services -> Events \cup {NoEvent}]]
  /\ \A x \in Txs, s \in Services : hstep[x][s] = "publish" => finding[x][s] \in Events

\* A handler that ends, whatever it returns, leaves the handlers well typed.
LEMMA EndsTyped ==
  ASSUME TypeOK, NEW x \in Txs, NEW s \in Services, GiveUp(x, s) \/ Done(x, s)
  PROVE  /\ HandlersOK'
         /\ Done(x, s) => judged' \in SUBSET (Txs \X Services)
<1> DEFINE end == IF GiveUp(x, s) THEN "idle" ELSE "delete"
<1>1. Goto(x, s, end) /\ finding' = [finding EXCEPT ![x][s] = NoEvent]
  BY DEF GiveUp, Done
<1>2. hstep' \in [Txs -> [Services -> HSteps]]
  BY <1>1, GotoTyped DEF TypeOK, HSteps
<1>3. finding' \in [Txs -> [Services -> Events \cup {NoEvent}]]
  BY <1>1 DEF TypeOK
<1>4. ASSUME NEW y \in Txs, NEW z \in Services, hstep'[y][z] = "publish"
      PROVE  finding'[y][z] \in Events
  <2>1. hstep[y][z] = "publish" /\ ~(y = x /\ z = s)
    BY <1>1, <1>4 DEF Goto, TypeOK
  <2> QED BY <1>1, <2>1 DEF TypeOK
<1>5. Done(x, s) => judged' \in SUBSET (Txs \X Services)
  BY DEF Done, TypeOK
<1> QED BY <1>2, <1>3, <1>4, <1>5 DEF HandlersOK

\* So does one that takes up something it has found.
LEMMA MovesTyped ==
  ASSUME TypeOK, NEW x \in Txs, NEW s \in Services, NEW next \in HSteps,
         NEW f \in Events \cup {NoEvent},
         Goto(x, s, next), finding' = [finding EXCEPT ![x][s] = f],
         next = "publish" => f \in Events
  PROVE  HandlersOK'
<1>1. hstep' \in [Txs -> [Services -> HSteps]]
  BY GotoTyped DEF TypeOK, HSteps
<1>2. finding' \in [Txs -> [Services -> Events \cup {NoEvent}]]
  BY DEF TypeOK
<1>3. ASSUME NEW y \in Txs, NEW z \in Services, hstep'[y][z] = "publish"
      PROVE  finding'[y][z] \in Events
  <2>1. CASE y = x /\ z = s
    BY <1>3, <2>1 DEF Goto, TypeOK
  <2>2. CASE ~(y = x /\ z = s)
    <3>1. hstep[y][z] = "publish"
      BY <1>3, <2>2 DEF Goto, TypeOK
    <3> QED BY <2>2, <3>1 DEF TypeOK
  <2> QED BY <2>1, <2>2
<1> QED BY <1>1, <1>2, <1>3 DEF HandlersOK

\* What is published and put into the alert queue are events.
LEMMA PublishesTyped ==
  ASSUME TypeOK, NEW e \in Events, Publishes(e)
  PROVE  /\ published' \in SUBSET Events /\ alertQ' \in SUBSET Events
         /\ notified' \in SUBSET Events
BY DEF TypeOK, Publishes

\* The transaction service keeps the types.
LEMMA RequestTypes ==
  ASSUME TypeOK, NEW x \in Txs, Submit(x) \/ Serve(x)
  PROVE  TypeOK'
<1>1. CASE Submit(x)
  BY <1>1 DEF Submit, TypeOK, queueVars, eventVars, ghostVars
<1>2. CASE PutItem(x)
  BY <1>2 DEF PutItem, TypeOK, queueVars, eventVars, ghostVars, Statuses
<1>3. CASE PutItemFails(x)
  BY <1>3 DEF PutItemFails, TypeOK, queueVars, eventVars, ghostVars, Statuses
<1>4. ASSUME FanOut(x) PROVE q' \in [Txs -> [Services -> {"none", "queue", "dlq", "deleted"}]]
  BY <1>4 DEF FanOut, TypeOK
<1>5. CASE PublishTx(x)
  BY <1>4, <1>5 DEF PublishTx, TypeOK, eventVars, ghostVars
<1>6. CASE PublishTxFails(x)
  BY <1>4, <1>6 DEF PublishTxFails, TypeOK, eventVars, ghostVars
<1>7. CASE Cut(x)
  BY <1>7 DEF Cut, TypeOK, queueVars, eventVars, ghostVars
<1> QED BY <1>1, <1>2, <1>3, <1>5, <1>6, <1>7 DEF Serve

\* A step of a handler that touches only its own progress keeps the types.
LEMMA HandlerTypes ==
  ASSUME TypeOK, NEW x \in Txs, NEW s \in Services,
         \/ Receive(x, s) \/ Redrive(x, s) \/ Record(x, s) \/ Delete(x, s) \/ Crash(x, s)
         \/ CheckFails(x) \/ RecordFails(x)
  PROVE  TypeOK'
<1> USE DEF HandlersOK, HSteps, contextVars, queueVars, eventVars, ghostVars
<1>1. CASE Receive(x, s)  BY <1>1 DEF Receive, Goto, TypeOK
<1>2. CASE Redrive(x, s)  BY <1>2 DEF Redrive, TypeOK
<1>3. CASE Record(x, s)   BY <1>3, EndsTyped DEF Record, TypeOK
<1>4. CASE Delete(x, s)
  <2>1. q' \in [Txs -> [Services -> {"none", "queue", "dlq", "deleted"}]]
    <3>1. q \in [Txs -> [Services -> {"none", "queue", "dlq", "deleted"}]]
      BY DEF TypeOK
    <3>2. q' = [q EXCEPT ![x][s] = "deleted"] \/ q' = q
      BY <1>4 DEF Delete
    <3> QED BY <3>1, <3>2
  <2> QED BY <1>4, <2>1, EndsTyped DEF Delete, TypeOK
<1>5. CASE Crash(x, s)    BY <1>5, EndsTyped DEF Crash, TypeOK
<1>6. CASE CheckFails(x)  BY <1>6, EndsTyped DEF CheckFails, TypeOK
<1>7. CASE RecordFails(x) BY <1>7, EndsTyped DEF RecordFails, TypeOK
<1> QED BY <1>1, <1>2, <1>3, <1>4, <1>5, <1>6, <1>7

\* Checking, marking and publishing keep the types: what is found is an event.
LEMMA FindingTypes ==
  ASSUME TypeOK, NEW x \in Txs, NEW s \in Services,
         Check(x, s) \/ Mark(x, s) \/ Publish(x, s) \/ PublishFails(x, s)
  PROVE  TypeOK'
<1> USE DEF HandlersOK, HSteps, contextVars, queueVars, eventVars, ghostVars
<1>1. CASE Check(x, s)
  <2>1. PICK f \in Findings(x, s) :
          IF f = NoEvent /\ s # "fraud" THEN Done(x, s)
          ELSE /\ finding' = [finding EXCEPT ![x][s] = f]
               /\ Goto(x, s, "mark")
               /\ UNCHANGED judged
    BY <1>1 DEF Check
  <2>2. f \in Events \cup {NoEvent}
    BY <1>1, FindingsAreEvents DEF Check
  <2>3. HandlersOK' /\ judged' \in SUBSET (Txs \X Services)
    BY <2>1, <2>2, EndsTyped, MovesTyped DEF TypeOK
  <2> QED BY <1>1, <2>3 DEF Check, TypeOK
<1>2. CASE Mark(x, s)
  <2>1. MarkOf(x, s) \in Statuses
    BY DEF MarkOf, Statuses
  <2>2. finding[x][s] \in Events \cup {NoEvent}
    BY DEF TypeOK
  <2>3. HandlersOK' /\ judged' \in SUBSET (Txs \X Services)
    <3>1. CASE finding[x][s] = NoEvent
      BY <1>2, <3>1, EndsTyped DEF Mark
    <3>2. CASE finding[x][s] # NoEvent
      <4>1. Goto(x, s, "publish") /\ UNCHANGED <<finding, judged>>
        BY <1>2, <3>2 DEF Mark
      <4> QED BY <4>1, <3>2, <2>2 DEF Goto, TypeOK
    <3> QED BY <3>1, <3>2
  <2>4. status' \in [Txs -> Statuses]
    BY <1>2, <2>1 DEF Mark, TypeOK
  <2> QED BY <1>2, <2>3, <2>4 DEF Mark, TypeOK
<1>3. CASE Publish(x, s)
  <2>1. finding[x][s] \in Events
    BY <1>3 DEF Publish, TypeOK
  <2> QED BY <1>3, <2>1, PublishesTyped, EndsTyped DEF Publish, TypeOK
<1>4. CASE PublishFails(x, s)
  <2>1. finding[x][s] \in Events
    BY <1>4 DEF PublishFails, TypeOK
  <2> QED BY <1>4, <2>1, PublishesTyped, EndsTyped DEF PublishFails, TypeOK
<1> QED BY <1>1, <1>2, <1>3, <1>4

\* Manual review, its scaling and the alert service keep the types.
LEMMA ReviewTypes ==
  ASSUME TypeOK,
         \/ \E x \in Txs, s \in Services : ReviewReceive(x, s) \/ ReviewStep(x, s)
         \/ \E e \in alertQ : Alert(e)
         \/ ScaleOut \/ ScaleIn
  PROVE  TypeOK'
<1> USE DEF Goto, contextVars, queueVars, eventVars, ghostVars
<1>1. ASSUME NEW x \in Txs, NEW s \in Services, ReviewReceive(x, s) PROVE TypeOK'
  BY <1>1 DEF ReviewReceive, TypeOK
<1>2. ASSUME NEW x \in Txs, NEW s \in Services, FlagForReview(x, s) PROVE TypeOK'
  BY <1>2 DEF FlagForReview, TypeOK, Statuses
<1>3. ASSUME NEW x \in Txs, NEW s \in Services, FlagFails(x, s) PROVE TypeOK'
  BY <1>3, EndsTyped DEF FlagFails, TypeOK, HandlersOK, HSteps
<1>4. ASSUME NEW x \in Txs, NEW s \in Services, NotifyReview(x, s) PROVE TypeOK'
  <2>1. Event("manual-review-needed", x, "high") \in Events
    BY DEF Event, Events, Kinds, Severities
  <2> QED BY <1>4, <2>1, PublishesTyped DEF NotifyReview, TypeOK
<1>5. ASSUME NEW e \in alertQ, Alert(e) PROVE TypeOK'
  BY <1>5 DEF Alert, TypeOK
<1>6. CASE ScaleOut
  BY <1>6 DEF ScaleOut, TypeOK
<1>7. CASE ScaleIn
  BY <1>7 DEF ScaleIn, TypeOK
<1> QED BY <1>1, <1>2, <1>3, <1>4, <1>5, <1>6, <1>7 DEF ReviewStep

\* Every step keeps the types.
LEMMA StepTypes == TypeOK /\ [Next]_vars => TypeOK'
<1> SUFFICES ASSUME TypeOK, [Next]_vars PROVE TypeOK'
  OBVIOUS
<1>1. CASE UNCHANGED vars
  BY <1>1 DEF vars, TypeOK
<1>2. ASSUME NEW x \in Txs, CheckFails(x) PROVE TypeOK'
  BY <1>2, HandlerTypes DEF CheckFails
<1>3. ASSUME NEW x \in Txs, RecordFails(x) PROVE TypeOK'
  BY <1>3, HandlerTypes DEF RecordFails
<1> QED BY <1>1, <1>2, <1>3, RequestTypes, HandlerTypes, FindingTypes, ReviewTypes
        DEF Next, ServiceStep

\* The pipeline is well typed: requests, rows, queues and handlers stay in their
\* states, and only events of known kinds and severities are published.
THEOREM PipelineTypeCorrect == Spec => []TypeOK
<1>1. Init => TypeOK
  BY DEF Init, TypeOK, Statuses
<1> QED BY <1>1, StepTypes, PTL DEF Spec
-----------------------------------------------------------------------------
(* Rows, messages and handlers.                                            *)

\* RowBeforeEvent is not inductive: it holds because the row is written before
\* the event is published, because only a message in a queue can be worked on,
\* and because no message comes back once its queue has it no more.
PlaceInv ==
  /\ \A x \in Txs : request[x] \in {"new", "put"} => status[x] = "none"
  /\ \A x \in Txs : request[x] = "publish" => status[x] # "none"
  /\ \A x \in Txs, s \in Services :
       request[x] \in {"new", "put", "publish"} => q[x][s] = "none"
  /\ \A x \in Txs, s \in Services : hstep[x][s] # "idle" => q[x][s] # "none"
  /\ \A x \in Txs, s \in Services : <<x, s>> \in judged => q[x][s] # "none"
  /\ RowBeforeEvent

\* What every step outside the transaction service leaves alone: requests, the
\* difference between a message and none, and the rows and handlers of
\* transactions without a message.
PlaceFrame ==
  /\ request' = request /\ body' = body
  /\ \A x \in Txs, s \in Services : (q'[x][s] = "none") <=> (q[x][s] = "none")
  /\ \A x \in Txs : \/ status'[x] = status[x]
                    \/ status'[x] # "none" /\ \E s \in Services : q[x][s] # "none"
  /\ \A x \in Txs, s \in Services :
       hstep'[x][s] # "idle" => hstep[x][s] # "idle" \/ q[x][s] # "none"
  /\ \A x \in Txs, s \in Services :
       <<x, s>> \in judged' => <<x, s>> \in judged \/ q[x][s] # "none"

\* A step within the frame keeps the invariant.
LEMMA FrameKeepsPlaces == TypeOK /\ PlaceInv /\ PlaceFrame => PlaceInv'
<1> SUFFICES ASSUME TypeOK, PlaceInv, PlaceFrame PROVE PlaceInv'
  OBVIOUS
<1>1. \A x \in Txs : request'[x] \in {"new", "put", "publish"} => status'[x] = status[x]
  BY DEF PlaceInv, PlaceFrame
<1>2. \A x \in Txs : status[x] # "none" => status'[x] # "none"
  BY DEF PlaceFrame
<1> QED BY <1>1, <1>2 DEF PlaceInv, PlaceFrame, RowBeforeEvent

\* A step of the handler in x and s stays within the frame when it has a message,
\* keeps it or deletes it, marks at most the row of x and judges at most <<x, s>>.
LEMMA HandlerStepFrame ==
  ASSUME TypeOK, NEW x \in Txs, NEW s \in Services, q[x][s] # "none",
         NEW place \in {"queue", "dlq", "deleted"}, NEW mark \in Statuses \ {"none"},
         NEW next \in HSteps,
         request' = request, body' = body,
         q' = q \/ q' = [q EXCEPT ![x][s] = place],
         status' = status \/ status' = [status EXCEPT ![x] = mark],
         hstep' = hstep \/ Goto(x, s, next),
         judged' = judged \/ judged' = judged \cup {<<x, s>>}
  PROVE  PlaceFrame
<1>1. ASSUME NEW y \in Txs, NEW z \in Services
      PROVE  (q'[y][z] = "none") <=> (q[y][z] = "none")
  <2>1. CASE q' = q
    BY <2>1
  <2>2. CASE q' = [q EXCEPT ![x][s] = place]
    BY <2>2 DEF TypeOK
  <2> QED BY <2>1, <2>2
<1>2. ASSUME NEW y \in Txs
      PROVE  \/ status'[y] = status[y]
             \/ status'[y] # "none" /\ \E z \in Services : q[y][z] # "none"
  BY DEF TypeOK
<1>3. ASSUME NEW y \in Txs, NEW z \in Services, hstep'[y][z] # "idle"
      PROVE  hstep[y][z] # "idle" \/ q[y][z] # "none"
  <2>1. CASE y = x /\ z = s
    BY <2>1
  <2>2. CASE ~(y = x /\ z = s)
    <3>1. hstep'[y][z] = hstep[y][z]
      BY <2>2 DEF TypeOK, Goto
    <3> QED BY <3>1, <1>3
  <2> QED BY <2>1, <2>2
<1>4. ASSUME NEW y \in Txs, NEW z \in Services, <<y, z>> \in judged'
      PROVE  <<y, z>> \in judged \/ q[y][z] # "none"
  BY <1>4
<1>5. \A y \in Txs, z \in Services : (q'[y][z] = "none") <=> (q[y][z] = "none")
  BY <1>1
<1>6. \A y \in Txs, z \in Services :
        hstep'[y][z] # "idle" => hstep[y][z] # "idle" \/ q[y][z] # "none"
  BY <1>3
<1>7. \A y \in Txs, z \in Services :
        <<y, z>> \in judged' => <<y, z>> \in judged \/ q[y][z] # "none"
  BY <1>4
<1> QED BY <1>2, <1>5, <1>6, <1>7 DEF PlaceFrame

\* Every step of a service, of manual review and of alerting is within it.
LEMMA ServicesFrame ==
  ASSUME TypeOK, PlaceInv, NEW x \in Txs, NEW s \in Services,
         \/ ServiceStep(x, s) \/ Crash(x, s) \/ Redrive(x, s)
         \/ ReviewReceive(x, s) \/ ReviewStep(x, s) \/ CheckFails(x) \/ RecordFails(x)
  PROVE  PlaceFrame
<1> USE DEF GiveUp, Done, contextVars, queueVars, eventVars, ghostVars, HSteps, Statuses
<1> DEFINE busy == hstep[x][s] # "idle"
<1>0. busy => q[x][s] # "none"
  BY DEF PlaceInv
<1>1. CASE Receive(x, s)       BY <1>1, HandlerStepFrame DEF Receive
<1>2. CASE Redrive(x, s)
  <2>1. q[x][s] # "none"
    BY <1>2 DEF Redrive
  <2>2. /\ q' = [q EXCEPT ![x][s] = "dlq"]
        /\ UNCHANGED <<request, body, status, hstep, judged>>
    BY <1>2 DEF Redrive
  <2>3. "clean" \in Statuses \ {"none"} /\ "idle" \in HSteps
    OBVIOUS
  <2> QED BY <2>1, <2>2, <2>3, HandlerStepFrame
<1>3. CASE Check(x, s)         BY <1>0, <1>3, HandlerStepFrame DEF Check
<1>4. CASE Mark(x, s)          BY <1>0, <1>4, HandlerStepFrame DEF Mark, MarkOf
<1>5. CASE Publish(x, s)       BY <1>0, <1>5, HandlerStepFrame DEF Publish
<1>6. CASE PublishFails(x, s)  BY <1>0, <1>6, HandlerStepFrame DEF PublishFails
<1>7. CASE Record(x, s)        BY <1>0, <1>7, HandlerStepFrame DEF Record
<1>8. CASE Delete(x, s)        BY <1>0, <1>8, HandlerStepFrame DEF Delete
<1>9. CASE Crash(x, s)         BY <1>0, <1>9, HandlerStepFrame DEF Crash
<1>10. CASE ReviewReceive(x, s) BY <1>10, HandlerStepFrame DEF ReviewReceive, Visible
<1>11. CASE FlagForReview(x, s) BY <1>0, <1>11, HandlerStepFrame DEF FlagForReview
<1>12. CASE FlagFails(x, s)    BY <1>0, <1>12, HandlerStepFrame DEF FlagFails
<1>13. CASE NotifyReview(x, s) BY <1>0, <1>13, HandlerStepFrame DEF NotifyReview
<1>14. CASE CheckFails(x)
  <2>1. q[x]["risk"] # "none"
    BY <1>14 DEF CheckFails, PlaceInv
  <2> QED BY <1>14, <2>1, HandlerStepFrame DEF CheckFails
<1>15. CASE RecordFails(x)
  <2>1. q[x]["analytics"] # "none"
    BY <1>15 DEF RecordFails, PlaceInv
  <2> QED BY <1>15, <2>1, HandlerStepFrame DEF RecordFails
<1> QED BY <1>1, <1>2, <1>3, <1>4, <1>5, <1>6, <1>7, <1>8, <1>9, <1>10, <1>11, <1>12,
           <1>13, <1>14, <1>15 DEF ServiceStep, ReviewStep

\* So are scaling, alerting and stuttering.
LEMMA OtherFrame ==
  ASSUME TypeOK, ScaleOut \/ ScaleIn \/ (\E e \in alertQ : Alert(e)) \/ UNCHANGED vars
  PROVE  PlaceFrame
<1> USE DEF PlaceFrame, contextVars, queueVars, eventVars, ghostVars
<1>1. CASE UNCHANGED <<request, body, q, status, hstep, judged>>
  BY <1>1
<1>2. CASE ScaleOut BY <1>1, <1>2 DEF ScaleOut
<1>3. CASE ScaleIn
  <2>1. UNCHANGED <<request, body, q, status, judged>>
    BY <1>3 DEF ScaleIn
  <2>2. \A x \in Txs, s \in Services : hstep'[x][s] # "idle" => hstep[x][s] # "idle"
    BY <1>3 DEF ScaleIn
  <2> QED BY <2>1, <2>2
<1>4. CASE \E e \in alertQ : Alert(e) BY <1>1, <1>4 DEF Alert
<1>5. CASE UNCHANGED vars BY <1>1, <1>5 DEF vars
<1> QED BY <1>2, <1>3, <1>4, <1>5

\* The transaction service writes the row first and publishes once.
LEMMA RequestKeepsPlaces ==
  ASSUME TypeOK, PlaceInv, NEW x \in Txs, Submit(x) \/ Serve(x)
  PROVE  PlaceInv'
<1> USE DEF queueVars, eventVars, ghostVars, PlaceInv, RowBeforeEvent, TypeOK
<1>1. CASE Submit(x)       BY <1>1 DEF Submit
<1>2. CASE PutItem(x)      BY <1>2 DEF PutItem
<1>3. CASE PutItemFails(x) BY <1>3 DEF PutItemFails
<1>4. ASSUME request[x] = "publish", FanOut(x) \/ UNCHANGED q,
             request' \in {[request EXCEPT ![x] = "202"], [request EXCEPT ![x] = "500"]},
             UNCHANGED <<status, hstep, judged>>
      PROVE  PlaceInv'
  <2>1. \A s \in Services : /\ q[x][s] = "none" /\ hstep[x][s] = "idle"
                            /\ <<x, s>> \notin judged
    BY <1>4
  <2>2. \A y \in Txs \ {x} : q'[y] = q[y] /\ request'[y] = request[y]
    BY <1>4 DEF FanOut
  <2>3. request'[x] \in {"202", "500"} /\ status[x] # "none"
    BY <1>4
  <2>4. ASSUME NEW y \in Txs
        PROVE  /\ request'[y] \in {"new", "put"} => status'[y] = "none"
               /\ request'[y] = "publish" => status'[y] # "none"
               /\ \A s \in Services :
                    /\ request'[y] \in {"new", "put", "publish"} => q'[y][s] = "none"
                    /\ hstep'[y][s] # "idle" => q'[y][s] # "none"
                    /\ <<y, s>> \in judged' => q'[y][s] # "none"
                    /\ q'[y][s] # "none" => status'[y] # "none"
    <3>1. CASE y = x
      BY <1>4, <2>1, <2>3, <3>1
    <3>2. CASE y # x
      BY <1>4, <2>2, <3>2
    <3> QED BY <3>1, <3>2
  <2> HIDE DEF TypeOK
  <2>5. /\ \A y \in Txs : request'[y] \in {"new", "put"} => status'[y] = "none"
        /\ \A y \in Txs : request'[y] = "publish" => status'[y] # "none"
    BY <2>4
  <2>6. /\ \A y \in Txs, s \in Services :
            request'[y] \in {"new", "put", "publish"} => q'[y][s] = "none"
        /\ \A y \in Txs, s \in Services : hstep'[y][s] # "idle" => q'[y][s] # "none"
        /\ \A y \in Txs, s \in Services : <<y, s>> \in judged' => q'[y][s] # "none"
        /\ \A y \in Txs, s \in Services : q'[y][s] # "none" => status'[y] # "none"
    BY <2>4
  <2> QED BY <2>5, <2>6
<1>5. CASE PublishTx(x)      BY <1>4, <1>5 DEF PublishTx
<1>6. CASE PublishTxFails(x) BY <1>4, <1>6 DEF PublishTxFails
<1>7. CASE Cut(x)            BY <1>7 DEF Cut
<1> QED BY <1>1, <1>2, <1>3, <1>5, <1>6, <1>7 DEF Serve

\* Every step keeps rows, messages and handlers together.
LEMMA StepKeepsPlaces == TypeOK /\ PlaceInv /\ [Next]_vars => PlaceInv'
BY ServicesFrame, OtherFrame, FrameKeepsPlaces, RequestKeepsPlaces
   DEF Next, CheckFails, RecordFails

\* No service works on a transaction whose row is not there, for any number of
\* transactions and whatever fails.
THEOREM RowPrecedesEvent == Spec => []RowBeforeEvent
<1>1. Init => PlaceInv
  BY DEF Init, PlaceInv, RowBeforeEvent
<1>2. PlaceInv => RowBeforeEvent
  BY DEF PlaceInv
<1> QED BY <1>1, <1>2, StepKeepsPlaces, PipelineTypeCorrect, PTL DEF Spec
-----------------------------------------------------------------------------
(* Findings.                                                               *)

Reporting(x, s) == hstep[x][s] \in {"mark", "publish"}

\* A handler that has something to report holds the finding of its own service,
\* and only fraud goes on when it has found nothing; a filtered service only has
\* transactions of the routed priorities.
FindingInv ==
  /\ \A x \in Txs, s \in Services : Reporting(x, s) =>
       /\ s \in FilteredServices /\ finding[x][s] \in Findings(x, s)
       /\ finding[x][s] = NoEvent => s = "fraud" /\ hstep[x][s] = "mark"
  /\ \A x \in Txs, s \in Services \cap FilteredServices :
       q[x][s] # "none" => Tx(x).priority \in {"high", "critical"}
  /\ NoFindingLost
  /\ CleanOnlyByClientPriority

\* What a transaction is found to be depends on its request alone.
LEMMA FindingsFixed ==
  ASSUME NEW x \in Txs, body'[x] = body[x]
  PROVE  /\ Tx(x)' = Tx(x)
         /\ \A s \in Services : Findings(x, s)' = Findings(x, s)
<1>1. Tx(x)' = Tx(x)
  BY DEF Tx
<1>2. ASSUME NEW s \in Services PROVE Findings(x, s)' = Findings(x, s)
  <2>1. CASE s = "fraud"
    BY <1>1, <2>1 DEF Findings
  <2>2. CASE s = "compliance"
    BY <1>1, <2>2 DEF Findings
  <2>3. CASE s \notin {"fraud", "compliance"}
    BY <2>3 DEF Findings
  <2> QED BY <2>1, <2>2, <2>3
<1> QED BY <1>1, <1>2

\* What every step leaves alone that finds, marks clean and publishes nothing.
FindingFrame ==
  /\ body' = body
  /\ published \subseteq published'
  /\ \A x \in Txs, s \in Services :
       Reporting(x, s)' => hstep'[x][s] = hstep[x][s] /\ finding'[x][s] = finding[x][s]
  /\ \A x \in Txs, s \in Services :
       <<x, s>> \in judged' => <<x, s>> \in judged \/ s \notin {"fraud", "compliance"}
  /\ \A x \in Txs, s \in Services : q'[x][s] # "none" => q[x][s] # "none"
  /\ \A x \in Txs : status'[x] = "clean" => status[x] = "clean"

\* A step within the frame keeps the invariant.
LEMMA FrameKeepsFindings == FindingInv /\ FindingFrame => FindingInv'
<1> SUFFICES ASSUME FindingInv, FindingFrame PROVE FindingInv'
  OBVIOUS
<1>1. \A x \in Txs : Tx(x)' = Tx(x) /\ \A s \in Services : Findings(x, s)' = Findings(x, s)
  BY FindingsFixed DEF FindingFrame
<1>2. ASSUME NEW x \in Txs, NEW s \in Services, Reporting(x, s)'
      PROVE  /\ s \in FilteredServices /\ finding'[x][s] \in Findings(x, s)'
             /\ finding'[x][s] = NoEvent => s = "fraud" /\ hstep'[x][s] = "mark"
  BY <1>1, <1>2 DEF FindingInv, FindingFrame, Reporting
<1>3. ASSUME NEW x \in Txs, NEW s \in Services \cap FilteredServices, q'[x][s] # "none"
      PROVE  Tx(x)'.priority \in {"high", "critical"}
  BY <1>1, <1>3 DEF FindingInv, FindingFrame
<1>4. NoFindingLost'
  BY <1>1 DEF FindingInv, FindingFrame, NoFindingLost
<1>5. CleanOnlyByClientPriority'
  BY DEF FindingInv, FindingFrame, CleanOnlyByClientPriority
<1> QED BY <1>2, <1>3, <1>4, <1>5 DEF FindingInv

\* The handler in x and s goes to a step that reports nothing.
LEMMA QuietGoto ==
  ASSUME TypeOK, NEW x \in Txs, NEW s \in Services, NEW next \in HSteps \ {"mark", "publish"},
         Goto(x, s, next),
         finding' = finding \/ finding' = [finding EXCEPT ![x][s] = NoEvent]
  PROVE  \A y \in Txs, z \in Services :
           Reporting(y, z)' => hstep'[y][z] = hstep[y][z] /\ finding'[y][z] = finding[y][z]
<1> SUFFICES ASSUME NEW y \in Txs, NEW z \in Services, Reporting(y, z)'
             PROVE  hstep'[y][z] = hstep[y][z] /\ finding'[y][z] = finding[y][z]
  OBVIOUS
<1>1. ~(y = x /\ z = s)
  BY DEF Reporting, Goto, TypeOK
<1>2. hstep'[y][z] = hstep[y][z]
  BY <1>1 DEF Goto, TypeOK
<1>3. finding'[y][z] = finding[y][z]
  BY <1>1 DEF TypeOK
<1> QED BY <1>2, <1>3

\* The steps of a handler that report nothing are within the frame.
LEMMA HandlerFindingFrame ==
  ASSUME TypeOK, PlaceInv, NEW x \in Txs, NEW s \in Services,
         \/ Receive(x, s) \/ Redrive(x, s) \/ PublishFails(x, s) \/ Record(x, s)
         \/ Delete(x, s) \/ Crash(x, s) \/ ReviewReceive(x, s) \/ ReviewStep(x, s)
  PROVE  FindingFrame
<1> USE DEF GiveUp, contextVars, queueVars, eventVars, ghostVars, HSteps, FindingFrame
<1> DEFINE quiet == \A y \in Txs, z \in Services :
             Reporting(y, z)' => hstep'[y][z] = hstep[y][z] /\ finding'[y][z] = finding[y][z]
<1>1. CASE Receive(x, s)
  <2>1. quiet
    BY <1>1, QuietGoto DEF Receive
  <2> QED BY <1>1, <2>1 DEF Receive
<1>2. CASE Redrive(x, s)
  <2>1. quiet
    BY <1>2 DEF Redrive, Reporting
  <2>2. \A y \in Txs, z \in Services : q'[y][z] # "none" => q[y][z] # "none"
    BY <1>2 DEF Redrive, TypeOK
  <2> QED BY <1>2, <2>1, <2>2 DEF Redrive
<1>3. CASE PublishFails(x, s)
  <2>1. quiet
    BY <1>3, QuietGoto DEF PublishFails
  <2> QED BY <1>3, <2>1 DEF PublishFails, Publishes
<1>4. CASE Record(x, s)
  <2>1. quiet
    BY <1>4, QuietGoto DEF Record, Done
  <2>2. s \notin {"fraud", "compliance"}
    BY <1>4 DEF Record, UnfilteredServices
  <2> QED BY <1>4, <2>1, <2>2 DEF Record, Done
<1>5. CASE Delete(x, s)
  <2>1. quiet
    BY <1>5, QuietGoto DEF Delete
  <2>2. \A y \in Txs, z \in Services : q'[y][z] # "none" => q[y][z] # "none"
    <3>1. q[x][s] # "none"
      BY <1>5 DEF Delete, PlaceInv
    <3>2. q' = [q EXCEPT ![x][s] = "deleted"] \/ q' = q
      BY <1>5 DEF Delete
    <3>3. \A y \in Txs, z \in Services : ~(y = x /\ z = s) => q'[y][z] = q[y][z]
      BY <3>2 DEF TypeOK
    <3> QED BY <3>1, <3>3
  <2> QED BY <1>5, <2>1, <2>2 DEF Delete
<1>6. CASE Crash(x, s)
  <2>1. quiet
    BY <1>6, QuietGoto DEF Crash
  <2> QED BY <1>6, <2>1 DEF Crash
<1>7. CASE ReviewReceive(x, s)
  <2>1. quiet
    BY <1>7, QuietGoto DEF ReviewReceive
  <2> QED BY <1>7, <2>1 DEF ReviewReceive
<1>8. CASE FlagForReview(x, s)
  <2>1. quiet
    BY <1>8, QuietGoto DEF FlagForReview
  <2>2. \A y \in Txs : status'[y] = "clean" => status[y] = "clean"
    BY <1>8 DEF FlagForReview, TypeOK
  <2> QED BY <1>8, <2>1, <2>2 DEF FlagForReview
<1>9. CASE FlagFails(x, s)
  <2>1. quiet
    BY <1>9, QuietGoto DEF FlagFails
  <2> QED BY <1>9, <2>1 DEF FlagFails
<1>10. CASE NotifyReview(x, s)
  <2>1. quiet
    BY <1>10, QuietGoto DEF NotifyReview
  <2> QED BY <1>10, <2>1 DEF NotifyReview, Publishes
<1> QED BY <1>1, <1>2, <1>3, <1>4, <1>5, <1>6, <1>7, <1>8, <1>9, <1>10 DEF ReviewStep
\* So are the failures of a check, scaling, alerting, stuttering, and what the
\* transaction service does between deciding and publishing.
LEMMA OtherFindingFrame ==
  ASSUME TypeOK,
         \/ ScaleOut \/ ScaleIn \/ (\E e \in alertQ : Alert(e)) \/ UNCHANGED vars
         \/ \E x \in Txs : \/ CheckFails(x) \/ RecordFails(x)
                           \/ PutItem(x) \/ PutItemFails(x) \/ Cut(x)
  PROVE  FindingFrame
<1> USE DEF contextVars, queueVars, eventVars, ghostVars
<1>1. CASE UNCHANGED <<body, q, status, hstep, finding, published, judged>>
  BY <1>1 DEF FindingFrame, Reporting
<1>2. CASE ScaleOut BY <1>1, <1>2 DEF ScaleOut
<1>3. CASE ScaleIn
  <2>1. \A x \in Txs, s \in Services :
          Reporting(x, s)' => hstep'[x][s] = hstep[x][s] /\ finding'[x][s] = finding[x][s]
    BY <1>3 DEF ScaleIn, Reporting
  <2> QED BY <1>3, <2>1 DEF ScaleIn, FindingFrame
<1>4. CASE \E e \in alertQ : Alert(e) BY <1>1, <1>4 DEF Alert
<1>5. CASE UNCHANGED vars BY <1>1, <1>5 DEF vars
<1>6. ASSUME NEW x \in Txs, CheckFails(x) PROVE FindingFrame
  <2>1. \A y \in Txs, z \in Services :
          Reporting(y, z)' => hstep'[y][z] = hstep[y][z] /\ finding'[y][z] = finding[y][z]
    BY <1>6, QuietGoto DEF CheckFails, GiveUp, HSteps
  <2> QED BY <1>6, <2>1 DEF CheckFails, FindingFrame
<1>7. ASSUME NEW x \in Txs, RecordFails(x) PROVE FindingFrame
  <2>1. \A y \in Txs, z \in Services :
          Reporting(y, z)' => hstep'[y][z] = hstep[y][z] /\ finding'[y][z] = finding[y][z]
    BY <1>7, QuietGoto DEF RecordFails, GiveUp, HSteps
  <2> QED BY <1>7, <2>1 DEF RecordFails, FindingFrame
<1>8. ASSUME NEW x \in Txs, PutItem(x) \/ PutItemFails(x) \/ Cut(x) PROVE FindingFrame
  <2>1. \A y \in Txs : status'[y] = "clean" => status[y] = "clean"
    BY <1>8 DEF PutItem, PutItemFails, Cut, TypeOK
  <2> QED BY <1>8, <2>1 DEF PutItem, PutItemFails, Cut, FindingFrame, Reporting
<1> QED BY <1>2, <1>3, <1>4, <1>5, <1>6, <1>7, <1>8

\* A request is chosen while there is neither a message nor a mark.
LEMMA SubmitKeepsFindings ==
  ASSUME TypeOK, PlaceInv, FindingInv, NEW x \in Txs, Submit(x)
  PROVE  FindingInv'
<1> USE DEF queueVars, eventVars, ghostVars
<1>1. /\ UNCHANGED <<q, status, hstep, finding, published, judged>>
      /\ status[x] = "none"
      /\ \A s \in Services : q[x][s] = "none" /\ hstep[x][s] = "idle" /\ <<x, s>> \notin judged
  BY DEF Submit, PlaceInv
<1>2. \A y \in Txs \ {x} : /\ Tx(y)' = Tx(y) /\ body'[y] = body[y]
                           /\ \A s \in Services : Findings(y, s)' = Findings(y, s)
  BY FindingsFixed DEF Submit, TypeOK
<1>3. ASSUME NEW y \in Txs, NEW s \in Services, Reporting(y, s)'
      PROVE  /\ s \in FilteredServices /\ finding'[y][s] \in Findings(y, s)'
             /\ finding'[y][s] = NoEvent => s = "fraud" /\ hstep'[y][s] = "mark"
  <2>1. y # x /\ Reporting(y, s)
    BY <1>1, <1>3 DEF Reporting
  <2>2. /\ s \in FilteredServices /\ finding[y][s] \in Findings(y, s)
        /\ finding[y][s] = NoEvent => s = "fraud" /\ hstep[y][s] = "mark"
    BY <2>1 DEF FindingInv
  <2> QED BY <1>1, <1>2, <2>1, <2>2
<1>4. ASSUME NEW y \in Txs, NEW s \in Services \cap FilteredServices, q'[y][s] # "none"
      PROVE  Tx(y)'.priority \in {"high", "critical"}
  <2>1. q[y][s] # "none" /\ s \in Services
    BY <1>1, <1>4
  <2>2. Tx(y).priority \in {"high", "critical"}
    BY <1>4, <2>1 DEF FindingInv
  <2>3. y # x
    BY <1>1, <2>1
  <2>4. Tx(y)' = Tx(y)
    BY <1>2, <2>3
  <2> QED BY <2>2, <2>4
<1>5. NoFindingLost'
  BY <1>1, <1>2 DEF FindingInv, NoFindingLost
<1>6. CleanOnlyByClientPriority'
  BY <1>1, <1>2 DEF FindingInv, CleanOnlyByClientPriority
<1> QED BY <1>3, <1>4, <1>5, <1>6 DEF FindingInv

\* The filters let a message into a filtered queue only with a routed priority.
LEMMA PublishTxKeepsFindings ==
  ASSUME TypeOK, PlaceInv, FindingInv, NEW x \in Txs, PublishTx(x) \/ PublishTxFails(x)
  PROVE  FindingInv'
<1> USE DEF eventVars, ghostVars
<1>1. /\ UNCHANGED <<body, status, hstep, finding, published, judged>>
      /\ FanOut(x) \/ UNCHANGED q
  BY DEF PublishTx, PublishTxFails
<1>2. \A y \in Txs : Tx(y)' = Tx(y) /\ \A s \in Services : Findings(y, s)' = Findings(y, s)
  BY <1>1, FindingsFixed
<1>3. ASSUME NEW y \in Txs, NEW s \in Services, Reporting(y, s)'
      PROVE  /\ s \in FilteredServices /\ finding'[y][s] \in Findings(y, s)'
             /\ finding'[y][s] = NoEvent => s = "fraud" /\ hstep'[y][s] = "mark"
  BY <1>1, <1>2, <1>3 DEF FindingInv, Reporting
<1>4. ASSUME NEW y \in Txs, NEW s \in Services \cap FilteredServices, q'[y][s] # "none"
      PROVE  Tx(y)'.priority \in {"high", "critical"}
  <2>1. CASE y = x /\ FanOut(x)
    <3>1. s \in RoutedTo(Tx(x).priority)
      BY <1>4, <2>1 DEF FanOut, TypeOK
    <3>2. s \notin UnfilteredServices
      BY <1>4 DEF FilteredServices, UnfilteredServices
    <3> QED BY <1>2, <2>1, <3>1, <3>2 DEF RoutedTo
  <2>2. CASE ~(y = x /\ FanOut(x))
    <3>1. q'[y] = q[y]
      BY <1>1, <2>2 DEF FanOut, TypeOK
    <3> QED BY <1>2, <1>4, <3>1 DEF FindingInv
  <2> QED BY <2>1, <2>2
<1>5. NoFindingLost'
  BY <1>1, <1>2 DEF FindingInv, NoFindingLost
<1>6. CleanOnlyByClientPriority'
  BY <1>1 DEF FindingInv, CleanOnlyByClientPriority
<1> QED BY <1>3, <1>4, <1>5, <1>6 DEF FindingInv

\* A check takes up what it finds, or ends when there is nothing.
LEMMA CheckKeepsFindings ==
  ASSUME TypeOK, PlaceInv, FindingInv, NEW x \in Txs, NEW s \in Services, Check(x, s)
  PROVE  FindingInv'
<1> USE DEF contextVars, queueVars, eventVars
<1>1. UNCHANGED <<body, status, q, published>> /\ s \in FilteredServices
  BY DEF Check
<1>2. \A y \in Txs : Tx(y)' = Tx(y) /\ \A z \in Services : Findings(y, z)' = Findings(y, z)
  BY <1>1, FindingsFixed
<1>3. PICK f \in Findings(x, s) :
        IF f = NoEvent /\ s # "fraud" THEN Done(x, s)
        ELSE /\ finding' = [finding EXCEPT ![x][s] = f]
             /\ Goto(x, s, "mark")
             /\ UNCHANGED judged
  BY DEF Check
<1>4. ASSUME NEW y \in Txs, NEW z \in Services, ~(y = x /\ z = s)
      PROVE  hstep'[y][z] = hstep[y][z] /\ finding'[y][z] = finding[y][z]
  BY <1>3, <1>4 DEF Done, Goto, TypeOK
<1>5. ASSUME NEW y \in Txs, NEW z \in Services, Reporting(y, z)'
      PROVE  /\ z \in FilteredServices /\ finding'[y][z] \in Findings(y, z)'
             /\ finding'[y][z] = NoEvent => z = "fraud" /\ hstep'[y][z] = "mark"
  <2>1. CASE y = x /\ z = s
    <3>1. /\ ~(f = NoEvent /\ s # "fraud")
          /\ finding' = [finding EXCEPT ![x][s] = f] /\ Goto(x, s, "mark")
      BY <1>3, <1>5, <2>1 DEF Reporting, Done, Goto, TypeOK
    <3>2. finding'[x][s] = f /\ hstep'[x][s] = "mark"
      BY <3>1 DEF Goto, TypeOK
    <3> QED BY <1>1, <1>2, <2>1, <3>1, <3>2
  <2>2. CASE ~(y = x /\ z = s)
    BY <1>2, <1>4, <1>5, <2>2 DEF FindingInv, Reporting
  <2> QED BY <2>1, <2>2
<1>6. NoFindingLost'
  <2>1. ASSUME NEW y \in Txs, NEW z \in Services \cap {"fraud", "compliance"},
               <<y, z>> \in judged'
        PROVE  Findings(y, z) \subseteq published \cup {NoEvent}
    <3>1. CASE <<y, z>> \in judged
      BY <3>1 DEF FindingInv, NoFindingLost
    <3>2. CASE <<y, z>> \notin judged
      <4>1. y = x /\ z = s /\ f = NoEvent
        BY <1>3, <2>1, <3>2 DEF Done
      <4> QED BY <4>1, RulesAreDeterministic
    <3> QED BY <3>1, <3>2
  <2> QED BY <1>1, <1>2, <2>1 DEF NoFindingLost
<1>7. CleanOnlyByClientPriority'
  BY <1>1 DEF FindingInv, CleanOnlyByClientPriority
<1>8. ASSUME NEW y \in Txs, NEW z \in Services \cap FilteredServices, q'[y][z] # "none"
      PROVE  Tx(y)'.priority \in {"high", "critical"}
  BY <1>1, <1>2, <1>8 DEF FindingInv
<1> QED BY <1>5, <1>6, <1>7, <1>8 DEF FindingInv
\* A mark says clean only when fraud has found nothing, which it never does in
\* a transaction with a derived priority; then the handler ends, and otherwise
\* it goes on to publish, whether or not the update has failed.
LEMMA MarkKeepsFindings ==
  ASSUME TypeOK, PlaceInv, FindingInv, NEW x \in Txs, NEW s \in Services, Mark(x, s)
  PROVE  FindingInv'
<1> USE DEF contextVars, queueVars, eventVars
<1>1. UNCHANGED <<body, q, published>> /\ Reporting(x, s)
  BY DEF Mark, Reporting
<1>2. \A y \in Txs : Tx(y)' = Tx(y) /\ \A z \in Services : Findings(y, z)' = Findings(y, z)
  BY <1>1, FindingsFixed
<1>3. s \in FilteredServices /\ finding[x][s] \in Findings(x, s)
  BY <1>1 DEF FindingInv
<1>4. /\ finding[x][s] = NoEvent => Done(x, s)
      /\ finding[x][s] # NoEvent => Goto(x, s, "publish") /\ UNCHANGED <<finding, judged>>
  BY DEF Mark
<1>5. ASSUME NEW y \in Txs, NEW z \in Services, Reporting(y, z)'
      PROVE  /\ z \in FilteredServices /\ finding'[y][z] \in Findings(y, z)'
             /\ finding'[y][z] = NoEvent => z = "fraud" /\ hstep'[y][z] = "mark"
  <2>1. CASE y = x /\ z = s
    <3>1. finding[x][s] # NoEvent
      BY <1>4, <1>5, <2>1 DEF Reporting, Done, Goto, TypeOK
    <3> QED BY <1>2, <1>3, <1>4, <2>1, <3>1
  <2>2. CASE ~(y = x /\ z = s)
    <3>1. hstep'[y][z] = hstep[y][z] /\ finding'[y][z] = finding[y][z]
      BY <1>4, <2>2 DEF Done, Goto, TypeOK
    <3> QED BY <1>2, <1>5, <3>1 DEF FindingInv, Reporting
  <2> QED BY <2>1, <2>2
<1>6. NoFindingLost'
  <2>1. ASSUME NEW y \in Txs, NEW z \in Services \cap {"fraud", "compliance"},
               <<y, z>> \in judged'
        PROVE  Findings(y, z) \subseteq published \cup {NoEvent}
    <3>1. CASE <<y, z>> \in judged
      BY <3>1 DEF FindingInv, NoFindingLost
    <3>2. CASE <<y, z>> \notin judged
      <4>1. y = x /\ z = s /\ finding[x][s] = NoEvent
        BY <1>4, <2>1, <3>2 DEF Done
      <4> QED BY <1>3, <4>1, RulesAreDeterministic
    <3> QED BY <3>1, <3>2
  <2> QED BY <1>1, <1>2, <2>1 DEF NoFindingLost
<1>7. ASSUME NEW y \in Txs, status'[y] = "clean" PROVE body'[y].priority # ""
  <2>1. CASE status[y] = "clean"
    BY <1>1, <2>1 DEF FindingInv, CleanOnlyByClientPriority
  <2>2. CASE status[y] # "clean"
    <3>1. y = x /\ MarkOf(x, s) = "clean"
      BY <1>7, <2>2 DEF Mark, TypeOK
    <3>2. finding[x][s] = NoEvent
      BY <3>1 DEF MarkOf
    <3>3. s = "fraud"
      BY <1>1, <3>2 DEF FindingInv
    <3>4. q[x][s] # "none"
      BY <1>1 DEF PlaceInv, Reporting
    <3>5. body[x] \in Bodies /\ Tx(x).priority \in {"high", "critical"}
      BY <1>3, <3>4 DEF FindingInv, PlaceInv, TypeOK
    <3> QED BY <1>1, <1>3, <3>1, <3>2, <3>3, <3>5, DerivedPriorityMeansAlert
  <2> QED BY <2>1, <2>2
<1>8. ASSUME NEW y \in Txs, NEW z \in Services \cap FilteredServices, q'[y][z] # "none"
      PROVE  Tx(y)'.priority \in {"high", "critical"}
  BY <1>1, <1>2, <1>8 DEF FindingInv
<1> QED BY <1>5, <1>6, <1>7, <1>8 DEF FindingInv, CleanOnlyByClientPriority

\* A handler that ends by publishing has published all there was to find.
LEMMA PublishKeepsFindings ==
  ASSUME TypeOK, PlaceInv, FindingInv, NEW x \in Txs, NEW s \in Services, Publish(x, s)
  PROVE  FindingInv'
<1> USE DEF contextVars, queueVars
<1>1. UNCHANGED <<body, q, status>> /\ Reporting(x, s) /\ Done(x, s)
  BY DEF Publish, Reporting
<1>2. \A y \in Txs : Tx(y)' = Tx(y) /\ \A z \in Services : Findings(y, z)' = Findings(y, z)
  BY <1>1, FindingsFixed
<1>3. published' = published \cup {finding[x][s]} /\ finding[x][s] \in Findings(x, s)
  BY <1>1 DEF Publish, Publishes, FindingInv
<1>4. ASSUME NEW y \in Txs, NEW z \in Services, Reporting(y, z)'
      PROVE  /\ z \in FilteredServices /\ finding'[y][z] \in Findings(y, z)'
             /\ finding'[y][z] = NoEvent => z = "fraud" /\ hstep'[y][z] = "mark"
  <2>1. hstep'[y][z] = hstep[y][z] /\ finding'[y][z] = finding[y][z]
    BY <1>1, <1>4, QuietGoto DEF Done, HSteps
  <2> QED BY <1>2, <1>4, <2>1 DEF FindingInv, Reporting
<1>5. NoFindingLost'
  <2>1. ASSUME NEW y \in Txs, NEW z \in Services \cap {"fraud", "compliance"},
               <<y, z>> \in judged'
        PROVE  Findings(y, z) \subseteq published' \cup {NoEvent}
    <3>1. CASE <<y, z>> \in judged
      BY <1>3, <3>1 DEF FindingInv, NoFindingLost
    <3>2. CASE <<y, z>> \notin judged
      <4>1. y = x /\ z = s
        BY <1>1, <2>1, <3>2 DEF Done
      <4> QED BY <1>3, <4>1, RulesAreDeterministic
    <3> QED BY <3>1, <3>2
  <2> QED BY <1>2, <2>1 DEF NoFindingLost
<1>6. CleanOnlyByClientPriority'
  BY <1>1 DEF FindingInv, CleanOnlyByClientPriority
<1>7. ASSUME NEW y \in Txs, NEW z \in Services \cap FilteredServices, q'[y][z] # "none"
      PROVE  Tx(y)'.priority \in {"high", "critical"}
  BY <1>1, <1>2, <1>7 DEF FindingInv
<1> QED BY <1>4, <1>5, <1>6, <1>7 DEF FindingInv

\* Every step keeps the findings.
LEMMA StepKeepsFindings == TypeOK /\ PlaceInv /\ FindingInv /\ [Next]_vars => FindingInv'
<1> SUFFICES ASSUME TypeOK, PlaceInv, FindingInv, [Next]_vars PROVE FindingInv'
  OBVIOUS
<1>1. CASE FindingFrame
  BY <1>1, FrameKeepsFindings
<1> QED BY <1>1, HandlerFindingFrame, OtherFindingFrame, SubmitKeepsFindings,
           PublishTxKeepsFindings, CheckKeepsFindings, MarkKeepsFindings,
           PublishKeepsFindings DEF Next, Serve, ServiceStep

\* Both results come from one invariant.
LEMMA FindingsInvariant == Spec => [](FindingInv /\ NoFindingLost /\ CleanOnlyByClientPriority)
<1>1. Init => PlaceInv /\ FindingInv
  BY DEF Init, PlaceInv, RowBeforeEvent, FindingInv, Reporting, NoFindingLost,
         CleanOnlyByClientPriority
<1>2. FindingInv => NoFindingLost /\ CleanOnlyByClientPriority
  BY DEF FindingInv
<1> QED BY <1>1, <1>2, StepKeepsPlaces, StepKeepsFindings, PipelineTypeCorrect, PTL DEF Spec

\* No failed update, publish or delete, no redelivery and no crash costs a fraud
\* alert or a compliance violation, for any transactions and requests.
THEOREM FindingsArePublished == Spec => []NoFindingLost
BY FindingsInvariant, PTL

\* The thresholds of the transaction service and of the fraud service fit
\* together for every amount: what is routed by its amount is never clean.
THEOREM CleanMeansClientPriority == Spec => []CleanOnlyByClientPriority
BY FindingsInvariant, PTL

-----------------------------------------------------------------------------
(* Pipeline implements the safety part of Flow: every step of the pipeline *)
(* is a step of Flow or changes nothing a client, the row, the queues and  *)
(* the reviewers show.  That no message stays in its queue for ever is     *)
(* left to model checking.                                                 *)

\* A service works on a message that is still in its queue, manual-review on
\* one in the dead-letter queue, and either deletes only what it has judged or
\* reviewed.  Without it a handler could go on after its message was deleted.
WorkInv ==
  \A x \in Txs, s \in Services :
    /\ hstep[x][s] \in {"check", "mark", "publish", "delete"} => q[x][s] = "queue"
    /\ hstep[x][s] \in {"flag", "notify", "deleteReviewed"} => q[x][s] = "dlq"
    /\ hstep[x][s] = "delete" => <<x, s>> \in judged
    /\ hstep[x][s] \in {"notify", "deleteReviewed"} => <<x, s>> \in reviewed

\* Only the handler in x and s, and the message it works on, have changed.
LEMMA OneHandlerMoves ==
  ASSUME TypeOK, WorkInv, NEW x \in Txs, NEW s \in Services, NEW next \in HSteps,
         Goto(x, s, next), judged \subseteq judged', reviewed \subseteq reviewed',
         \A y \in Txs, z \in Services : ~(y = x /\ z = s) => q'[y][z] = q[y][z],
         next \in {"check", "mark", "publish", "delete"} => q'[x][s] = "queue",
         next \in {"flag", "notify", "deleteReviewed"} => q'[x][s] = "dlq",
         next = "delete" => <<x, s>> \in judged',
         next \in {"notify", "deleteReviewed"} => <<x, s>> \in reviewed'
  PROVE  WorkInv'
<1> SUFFICES ASSUME NEW y \in Txs, NEW z \in Services
             PROVE  /\ hstep'[y][z] \in {"check", "mark", "publish", "delete"} => q'[y][z] = "queue"
                    /\ hstep'[y][z] \in {"flag", "notify", "deleteReviewed"} => q'[y][z] = "dlq"
                    /\ hstep'[y][z] = "delete" => <<y, z>> \in judged'
                    /\ hstep'[y][z] \in {"notify", "deleteReviewed"} => <<y, z>> \in reviewed'
  BY DEF WorkInv
<1>1. CASE y = x /\ z = s
  <2>1. hstep'[x][s] = next
    BY DEF Goto, TypeOK
  <2> QED BY <1>1, <2>1
<1>2. CASE ~(y = x /\ z = s)
  <2>1. hstep'[y][z] = hstep[y][z] /\ q'[y][z] = q[y][z]
    BY <1>2 DEF Goto, TypeOK
  <2> QED BY <2>1 DEF WorkInv
<1> QED BY <1>1, <1>2

\* The steps of a handler, and of manual review, keep handlers and messages
\* together.
LEMMA HandlersKeepWork ==
  ASSUME TypeOK, WorkInv, NEW x \in Txs, NEW s \in Services,
         ServiceStep(x, s) \/ Crash(x, s) \/ ReviewReceive(x, s) \/ ReviewStep(x, s)
  PROVE  WorkInv'
<1> USE DEF GiveUp, Done, contextVars, queueVars, eventVars, ghostVars, HSteps
<1>w. /\ hstep[x][s] \in {"check", "mark", "publish", "delete"} => q[x][s] = "queue"
      /\ hstep[x][s] \in {"flag", "notify", "deleteReviewed"} => q[x][s] = "dlq"
      /\ hstep[x][s] \in {"notify", "deleteReviewed"} => <<x, s>> \in reviewed
  BY DEF WorkInv
<1>1. CASE Receive(x, s)       BY <1>1, OneHandlerMoves DEF Receive
<1>2. CASE Check(x, s)
  <2>1. /\ \/ Goto(x, s, "delete") /\ judged' = judged \cup {<<x, s>>}
           \/ Goto(x, s, "mark") /\ judged' = judged
        /\ q' = q /\ reviewed' = reviewed /\ q[x][s] = "queue"
    BY <1>w, <1>2 DEF Check
  <2> QED BY <2>1, OneHandlerMoves
<1>3. CASE Mark(x, s)
  <2>1. /\ \/ Goto(x, s, "delete") /\ judged' = judged \cup {<<x, s>>}
           \/ Goto(x, s, "publish") /\ judged' = judged
        /\ q' = q /\ reviewed' = reviewed /\ q[x][s] = "queue"
    BY <1>w, <1>3 DEF Mark
  <2> QED BY <2>1, OneHandlerMoves
<1>4. CASE Publish(x, s)       BY <1>w, <1>4, OneHandlerMoves DEF Publish
<1>5. CASE PublishFails(x, s)  BY <1>5, OneHandlerMoves DEF PublishFails
<1>6. CASE Record(x, s)        BY <1>w, <1>6, OneHandlerMoves DEF Record
<1>7. CASE Delete(x, s)
  <2>1. q' = [q EXCEPT ![x][s] = "deleted"] \/ q' = q
    BY <1>7 DEF Delete
  <2>2. \A y \in Txs, z \in Services : ~(y = x /\ z = s) => q'[y][z] = q[y][z]
    BY <2>1 DEF TypeOK
  <2>3. Goto(x, s, "idle") /\ judged' = judged /\ reviewed' = reviewed
    BY <1>7 DEF Delete
  <2> QED BY <2>2, <2>3, OneHandlerMoves
<1>8. CASE Crash(x, s)         BY <1>8, OneHandlerMoves DEF Crash
<1>9. CASE ReviewReceive(x, s) BY <1>9, OneHandlerMoves DEF ReviewReceive, Visible
<1>10. CASE FlagForReview(x, s) BY <1>w, <1>10, OneHandlerMoves DEF FlagForReview
<1>11. CASE FlagFails(x, s)    BY <1>11, OneHandlerMoves DEF FlagFails
<1>12. CASE NotifyReview(x, s) BY <1>w, <1>12, OneHandlerMoves DEF NotifyReview
<1> QED BY <1>1, <1>2, <1>3, <1>4, <1>5, <1>6, <1>7, <1>8, <1>9, <1>10, <1>11, <1>12
        DEF ServiceStep, ReviewStep

\* So does every other step.
LEMMA StepKeepsWork == TypeOK /\ PlaceInv /\ WorkInv /\ [Next]_vars => WorkInv'
<1> SUFFICES ASSUME TypeOK, PlaceInv, WorkInv, [Next]_vars PROVE WorkInv'
  OBVIOUS
<1> USE DEF contextVars, queueVars, eventVars, ghostVars
<1>1. ASSUME UNCHANGED <<q, hstep, judged, reviewed>> PROVE WorkInv'
  BY <1>1 DEF WorkInv
<1>2. ASSUME NEW x \in Txs, Submit(x) \/ PutItem(x) \/ PutItemFails(x) \/ Cut(x)
      PROVE  WorkInv'
  BY <1>1, <1>2 DEF Submit, PutItem, PutItemFails, Cut
<1>3. ASSUME NEW x \in Txs, PublishTx(x) \/ PublishTxFails(x) PROVE WorkInv'
  <2>1. /\ request[x] = "publish"
        /\ FanOut(x) \/ UNCHANGED q
        /\ UNCHANGED <<hstep, judged, reviewed>>
    BY <1>3 DEF PublishTx, PublishTxFails
  <2>2. \A s \in Services : hstep[x][s] = "idle"
    BY <1>3 DEF PlaceInv, PublishTx, PublishTxFails
  <2>3. \A y \in Txs \ {x} : q'[y] = q[y]
    BY <2>1 DEF FanOut, TypeOK
  <2> SUFFICES ASSUME NEW y \in Txs, NEW s \in Services
               PROVE  /\ hstep[y][s] \in {"check", "mark", "publish", "delete"} => q'[y][s] = "queue"
                      /\ hstep[y][s] \in {"flag", "notify", "deleteReviewed"} => q'[y][s] = "dlq"
                      /\ hstep[y][s] = "delete" => <<y, s>> \in judged
                      /\ hstep[y][s] \in {"notify", "deleteReviewed"} => <<y, s>> \in reviewed
    BY <2>1 DEF WorkInv
  <2>4. CASE y = x   BY <2>2, <2>4
  <2>5. CASE y # x   BY <2>3, <2>5 DEF WorkInv
  <2> QED BY <2>4, <2>5
<1>4. ASSUME NEW x \in Txs, CheckFails(x) PROVE WorkInv'
  BY <1>4, OneHandlerMoves DEF CheckFails, GiveUp, HSteps
<1>5. ASSUME NEW x \in Txs, RecordFails(x) PROVE WorkInv'
  BY <1>5, OneHandlerMoves DEF RecordFails, GiveUp, HSteps
<1>6. ASSUME NEW x \in Txs, NEW s \in Services, Redrive(x, s) PROVE WorkInv'
  <2>1. /\ hstep[x][s] = "idle" /\ q' = [q EXCEPT ![x][s] = "dlq"]
        /\ UNCHANGED <<hstep, judged, reviewed>>
    BY <1>6 DEF Redrive
  <2>2. \A y \in Txs, z \in Services : ~(y = x /\ z = s) => q'[y][z] = q[y][z]
    BY <2>1 DEF TypeOK
  <2> QED BY <2>1, <2>2 DEF WorkInv
<1>7. CASE ScaleIn
  <2>1. /\ UNCHANGED <<q, judged, reviewed>>
        /\ \A x \in Txs, s \in Services :
             hstep'[x][s] = IF q[x][s] = "dlq" THEN "idle" ELSE hstep[x][s]
    BY <1>7 DEF ScaleIn
  <2> QED BY <2>1 DEF WorkInv
<1>8. CASE ScaleOut \/ (\E e \in alertQ : Alert(e)) \/ UNCHANGED vars
  BY <1>1, <1>8 DEF ScaleOut, Alert, vars
<1> QED BY <1>2, <1>3, <1>4, <1>5, <1>6, <1>7, <1>8, HandlersKeepWork DEF Next, Serve

-----------------------------------------------------------------------------
(* The simulation.                                                         *)

Replies == [x \in Txs |-> ReplyOf(x)]
FlowRoutes == {RoutedTo(p) \cap Services : p \in Priorities}

\* What a step leaves alone that a client or a service could see.
Unseen == request' = request /\ status' = status /\ q' = q
            /\ judged' = judged /\ reviewed' = reviewed

\* Such a step is a stutter of Flow.
LEMMA UnseenStutters == Unseen => UNCHANGED F!flowVars
BY DEF Unseen, F!flowVars, ReplyOf

\* A step outside the transaction service answers nobody.
LEMMA RepliesStay == request' = request => Replies' = Replies
BY DEF Replies, ReplyOf

\* A step of ServeHTTP that does not answer yet.
LEMMA NoReplyYet ==
  ASSUME TypeOK, NEW x \in Txs, NEW r \in {"put", "publish"},
         request[x] \in {"new", "put", "publish"}, request' = [request EXCEPT ![x] = r]
  PROVE  Replies' = Replies
<1>1. \A y \in Txs : ReplyOf(y)' = ReplyOf(y)
  BY DEF ReplyOf, TypeOK
<1> QED BY <1>1 DEF Replies

\* A step of ServeHTTP that answers.
LEMMA ReplyNow ==
  ASSUME TypeOK, NEW x \in Txs, NEW r \in {"202", "400", "500", "cut"},
         request[x] \in {"new", "put", "publish"}, request' = [request EXCEPT ![x] = r]
  PROVE  /\ Replies[x] = "none"
         /\ Replies' = [Replies EXCEPT ![x] = IF r = "202" THEN "202" ELSE "failed"]
<1>1. \A y \in Txs \ {x} : ReplyOf(y)' = ReplyOf(y)
  BY DEF ReplyOf, TypeOK
<1>2. ReplyOf(x)' = IF r = "202" THEN "202" ELSE "failed"
  BY DEF ReplyOf, TypeOK
<1>3. ReplyOf(x) = "none"
  BY DEF ReplyOf
<1> QED BY <1>1, <1>2, <1>3 DEF Replies

\* The event is delivered along a route of some priority.
LEMMA DeliveredOnARoute ==
  ASSUME NEW x \in Txs, FanOut(x)
  PROVE  \E route \in FlowRoutes : F!Delivers(x, route)
<1> DEFINE p == IF Tx(x).priority \in {"high", "critical"} THEN Tx(x).priority ELSE "low"
           route == RoutedTo(p) \cap Services
<1>1. p \in Priorities
  BY DEF Priorities
<1>2. RoutedTo(p) = RoutedTo(Tx(x).priority)
  BY DEF RoutedTo
<1>3. \A s \in Services : s \in route <=> s \in RoutedTo(Tx(x).priority)
  BY <1>2
<1>4. F!Delivers(x, route)
  BY <1>3 DEF FanOut, F!Delivers
<1> QED BY <1>1, <1>4 DEF FlowRoutes

\* There is some route.
LEMMA SomeRoute == FlowRoutes # {}
BY DEF FlowRoutes, Priorities

\* The transaction service, as its client sees it.
LEMMA ServeSimulates ==
  ASSUME TypeOK, PlaceInv, NEW x \in Txs, Submit(x) \/ Serve(x)
  PROVE  F!FlowNext \/ UNCHANGED F!flowVars
<1> USE DEF queueVars, eventVars, ghostVars
<1>w. /\ request[x] \in {"new", "put"} => status[x] = "none"
      /\ request[x] = "publish" => status[x] # "none"
  BY DEF PlaceInv
<1>r. PICK any \in FlowRoutes : TRUE
  BY SomeRoute
<1>1. ASSUME NEW r \in {"400", "500", "cut"}, request[x] \in {"new", "put", "publish"},
             request' = [request EXCEPT ![x] = r], NEW route \in FlowRoutes,
             \/ UNCHANGED <<status, q>>
             \/ status[x] = "none" /\ status' = [status EXCEPT ![x] = "pending"] /\ UNCHANGED q
             \/ status[x] # "none" /\ F!Delivers(x, route) /\ UNCHANGED status,
             UNCHANGED <<judged, reviewed>>
      PROVE  F!FlowNext
  <2>1. Replies[x] = "none" /\ Replies' = [Replies EXCEPT ![x] = "failed"]
    BY <1>1, ReplyNow
  <2>2. F!Refuse(x, route)
    BY <1>1, <2>1 DEF F!Refuse, F!Replies, Replies
  <2> QED BY <2>2 DEF F!FlowNext, FlowRoutes
<1>2. CASE Submit(x)
  <2>1. PICK r \in {"put", "400"} : request' = [request EXCEPT ![x] = r]
    BY <1>2 DEF Submit
  <2>2. request[x] = "new" /\ UNCHANGED <<status, q, judged, reviewed>>
    BY <1>2 DEF Submit
  <2>3. CASE r = "put"
    <3>1. Replies' = Replies
      BY <2>1, <2>2, <2>3, NoReplyYet
    <3> QED BY <2>2, <3>1 DEF F!flowVars, Replies
  <2>4. CASE r = "400"
    BY <1>1, <1>r, <2>1, <2>2, <2>4
  <2> QED BY <2>1, <2>3, <2>4
<1>3. CASE PutItem(x)
  <2>1. Replies' = Replies
    BY <1>3, NoReplyYet DEF PutItem
  <2>2. Replies[x] = "none"
    BY <1>3 DEF PutItem, Replies, ReplyOf
  <2>3. F!Write(x)
    BY <1>3, <1>w, <2>1, <2>2 DEF PutItem, F!Write, Replies
  <2> QED BY <2>3 DEF F!FlowNext
<1>4. CASE PutItemFails(x)
  <2>1. /\ request[x] = "put" /\ request' = [request EXCEPT ![x] = "500"]
        /\ UNCHANGED status \/ status' = [status EXCEPT ![x] = "pending"]
        /\ UNCHANGED <<q, judged, reviewed>>
    BY <1>4 DEF PutItemFails
  <2> QED BY <1>1, <1>r, <1>w, <2>1
<1>5. CASE PublishTx(x)
  <2>1. PICK route \in FlowRoutes : F!Delivers(x, route)
    BY <1>5, DeliveredOnARoute DEF PublishTx
  <2>2. Replies[x] = "none" /\ Replies' = [Replies EXCEPT ![x] = "202"]
    BY <1>5, ReplyNow DEF PublishTx
  <2>3. F!Accept(x, route)
    BY <1>5, <1>w, <2>1, <2>2 DEF PublishTx, F!Accept, F!Replies, Replies
  <2> QED BY <2>3 DEF F!FlowNext, FlowRoutes
<1>6. CASE PublishTxFails(x)
  <2>1. /\ request[x] = "publish" /\ request' = [request EXCEPT ![x] = "500"]
        /\ FanOut(x) \/ UNCHANGED q
        /\ UNCHANGED <<status, judged, reviewed>>
    BY <1>6 DEF PublishTxFails
  <2>2. CASE UNCHANGED q
    BY <1>1, <1>r, <2>1, <2>2
  <2>3. CASE FanOut(x)
    <3>1. PICK route \in FlowRoutes : F!Delivers(x, route)
      BY <2>3, DeliveredOnARoute
    <3> QED BY <1>1, <1>w, <2>1, <3>1
  <2> QED BY <2>1, <2>2, <2>3
<1>7. CASE Cut(x)
  <2>1. /\ request[x] \in {"put", "publish"} /\ request' = [request EXCEPT ![x] = "cut"]
        /\ UNCHANGED <<status, q, judged, reviewed>>
    BY <1>7 DEF Cut
  <2> QED BY <1>1, <1>r, <2>1
<1> QED BY <1>2, <1>3, <1>4, <1>5, <1>6, <1>7 DEF Serve

\* A service that marks the row, judges the transaction, or does both.
LEMMA HandlesOnce ==
  ASSUME TypeOK, NEW x \in Txs, NEW s \in Services, q[x][s] = "queue",
         request' = request, q' = q, reviewed' = reviewed,
         \/ status' = status
         \/ \E mark \in F!Marks(s) : status' = [status EXCEPT ![x] = mark],
         judged' \in {judged, judged \cup {<<x, s>>}}
  PROVE  F!FlowNext
<1>1. PICK mark \in F!Marks(s) \cup {status[x]} : status' = [status EXCEPT ![x] = mark]
  BY DEF TypeOK
<1>2. PICK done \in BOOLEAN : judged' = IF done THEN judged \cup {<<x, s>>} ELSE judged
  OBVIOUS
<1>3. F!Handle(x, s, mark, done)
  BY <1>1, <1>2, RepliesStay DEF F!Handle, Replies
<1> QED BY <1>3 DEF F!FlowNext

\* A service and manual review, as the row and the queues show them.
LEMMA ServiceSimulates ==
  ASSUME TypeOK, PlaceInv, FindingInv, WorkInv, NEW x \in Txs, NEW s \in Services,
         \/ ServiceStep(x, s) \/ Crash(x, s) \/ Redrive(x, s)
         \/ ReviewReceive(x, s) \/ ReviewStep(x, s)
  PROVE  F!FlowNext \/ UNCHANGED F!flowVars
<1> USE DEF GiveUp, Done, contextVars, queueVars, eventVars, ghostVars
<1>w. /\ hstep[x][s] \in {"check", "mark", "publish", "delete"} => q[x][s] = "queue"
      /\ hstep[x][s] \in {"flag", "notify", "deleteReviewed"} => q[x][s] = "dlq"
      /\ hstep[x][s] = "delete" => <<x, s>> \in judged
      /\ hstep[x][s] \in {"notify", "deleteReviewed"} => <<x, s>> \in reviewed
  BY DEF WorkInv
<1>1. CASE \/ Receive(x, s) \/ PublishFails(x, s) \/ Crash(x, s) \/ ReviewReceive(x, s)
           \/ FlagFails(x, s) \/ NotifyReview(x, s)
  BY <1>1, UnseenStutters
     DEF Unseen, Receive, PublishFails, Crash, ReviewReceive, FlagFails, NotifyReview
<1>2. CASE Check(x, s)
  <2>1. /\ q[x][s] = "queue" /\ judged' \in {judged, judged \cup {<<x, s>>}}
        /\ UNCHANGED <<request, q, status, reviewed>>
    BY <1>w, <1>2 DEF Check
  <2> QED BY <2>1, HandlesOnce
<1>3. CASE Mark(x, s)
  <2>1. /\ q[x][s] = "queue" /\ judged' \in {judged, judged \cup {<<x, s>>}}
        /\ UNCHANGED <<request, q, reviewed>>
        /\ UNCHANGED status \/ status' = [status EXCEPT ![x] = MarkOf(x, s)]
    BY <1>w, <1>3 DEF Mark
  <2>2. s \in FilteredServices /\ (finding[x][s] = NoEvent => s = "fraud")
    BY <1>3 DEF Mark, FindingInv, Reporting
  <2>3. MarkOf(x, s) \in F!Marks(s)
    <3>1. CASE s = "fraud"
      BY <3>1 DEF MarkOf, F!Marks
    <3>2. CASE s = "compliance"
      BY <2>2, <3>2 DEF MarkOf, F!Marks
    <3>3. CASE s = "risk"
      BY <2>2, <3>3 DEF MarkOf, F!Marks
    <3> QED BY <2>2, <3>1, <3>2, <3>3 DEF FilteredServices
  <2> QED BY <2>1, <2>3, HandlesOnce
<1>4. CASE Publish(x, s) \/ Record(x, s)
  <2>1. /\ q[x][s] = "queue" /\ judged' = judged \cup {<<x, s>>}
        /\ UNCHANGED <<request, q, status, reviewed>>
    BY <1>w, <1>4 DEF Publish, Record
  <2> QED BY <2>1, HandlesOnce
<1>5. CASE Delete(x, s)
  <2>1. /\ \/ q[x][s] = "queue" /\ <<x, s>> \in judged
           \/ q[x][s] = "dlq" /\ <<x, s>> \in reviewed
        /\ UNCHANGED <<request, status, judged, reviewed>>
    BY <1>w, <1>5 DEF Delete
  <2>2. CASE q' = q
    BY <2>1, <2>2, UnseenStutters DEF Unseen
  <2>3. CASE q' = [q EXCEPT ![x][s] = "deleted"]
    <3>1. F!Delete(x, s)
      BY <2>1, <2>3, RepliesStay DEF F!Delete, Replies
    <3> QED BY <3>1 DEF F!FlowNext
  <2> QED BY <1>5, <2>2, <2>3 DEF Delete
<1>6. CASE Redrive(x, s)
  <2>1. F!DeadLetter(x, s)
    BY <1>6, RepliesStay DEF Redrive, F!DeadLetter, Replies
  <2> QED BY <2>1 DEF F!FlowNext
<1>7. CASE FlagForReview(x, s)
  <2>1. F!Review(x, s)
    BY <1>w, <1>7, RepliesStay DEF FlagForReview, F!Review, Replies
  <2> QED BY <2>1 DEF F!FlowNext
<1> QED BY <1>1, <1>2, <1>3, <1>4, <1>5, <1>6, <1>7 DEF ServiceStep, ReviewStep

\* Every step of the pipeline is a step of Flow or a stutter.
LEMMA StepSimulates ==
  TypeOK /\ PlaceInv /\ FindingInv /\ WorkInv /\ [Next]_vars => [F!FlowNext]_(F!flowVars)
<1> SUFFICES ASSUME TypeOK, PlaceInv, FindingInv, WorkInv, [Next]_vars
             PROVE  F!FlowNext \/ UNCHANGED F!flowVars
  OBVIOUS
<1>1. CASE \/ ScaleOut \/ ScaleIn \/ (\E e \in alertQ : Alert(e)) \/ UNCHANGED vars
           \/ \E x \in Txs : CheckFails(x) \/ RecordFails(x)
  <2>1. Unseen
    BY <1>1 DEF Unseen, ScaleOut, ScaleIn, Alert, CheckFails, RecordFails, vars,
                contextVars, queueVars, eventVars, ghostVars
  <2> QED BY <2>1, UnseenStutters
<1> QED BY <1>1, ServeSimulates, ServiceSimulates DEF Next

\* The pipeline is a Flow, for any transactions, requests and faults: the row
\* comes before the event, a service writes only its own marks and only while
\* its message is in its queue, and only a judged or a reviewed message is
\* deleted.
THEOREM PipelineIsAFlow == Spec => F!FlowSpec
<1>1. Init => PlaceInv /\ FindingInv /\ WorkInv
  BY DEF Init, PlaceInv, RowBeforeEvent, FindingInv, Reporting, NoFindingLost,
         CleanOnlyByClientPriority, WorkInv
<1>2. Init => F!FlowInit
  BY DEF Init, F!FlowInit, ReplyOf
<1> QED BY <1>1, <1>2, StepKeepsPlaces, StepKeepsFindings, StepKeepsWork, StepSimulates,
           PipelineTypeCorrect, PTL DEF Spec, F!FlowSpec
=============================================================================
