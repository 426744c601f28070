------------------------ MODULE SqsConsumer_proofs ------------------------
(***************************************************************************)
(* Proofs about SqsConsumer: what one consumer step preserves, and from it *)
(* the type invariant, that only handled messages are deleted, and that no *)
(* handler starts more often than its message is received.  The step       *)
(* lemmas are stated for [SqsNext]_sqsVars alone, so that a service module *)
(* whose steps map to consumer steps can cite them.                        *)
(***************************************************************************)
EXTENDS SqsConsumer, FiniteSetTheorems, TLAPS

\* No receipt handle is the absent one: receive counts start at 1.
LEMMA NoReceiptIsNone == NoReceipt \notin Receipts
BY DEF NoReceipt, Receipts

\* Every consumer step keeps the consumer's state well typed.
LEMMA SqsTypeStep == ASSUME SqsTypeOK, [SqsNext]_sqsVars PROVE SqsTypeOK'
<1> USE QueueAssumption, NoReceiptIsNone DEF SqsTypeOK, MStates
<1>1. ASSUME NEW m \in Messages, VisibilityTimeout(m) PROVE SqsTypeOK'
  BY <1>1 DEF VisibilityTimeout, taskVars
<1>2. ASSUME NEW m \in Messages, Redrive(m) PROVE SqsTypeOK'
  BY <1>2 DEF Redrive, taskVars
<1>3. ASSUME NEW m \in Messages, RetentionExpiry(m) PROVE SqsTypeOK'
  BY <1>3 DEF RetentionExpiry, taskVars
<1>4. ASSUME NEW t \in Tasks, Receive(t) PROVE SqsTypeOK'
  <2>1. PICK S \in SUBSET {m \in Messages : /\ QueueOf[m] = Polls[t]
                                            /\ mstate[m] = "visible"
                                            /\ receives[m] < MaxReceive} :
          /\ mstate' = [m \in Messages |-> IF m \in S THEN "inflight" ELSE mstate[m]]
          /\ receives' = [m \in Messages |-> receives[m] + IF m \in S THEN 1 ELSE 0]
          /\ batch' \in {batch, [batch EXCEPT ![t] =
                                   {[msg |-> m, n |-> receives[m] + 1] : m \in S}]}
    BY <1>4 DEF Receive
  <2>2. mstate' \in [Messages -> MStates]
    BY <2>1
  <2>3. receives' \in [Messages -> 0..MaxReceive]
    BY <2>1
  <2>4. {[msg |-> m, n |-> receives[m] + 1] : m \in S} \in SUBSET Receipts
    BY <2>1 DEF Receipts
  <2>5. batch' \in [Tasks -> SUBSET Receipts]
    BY <2>1, <2>4
  <2> QED BY <1>4, <2>2, <2>3, <2>5 DEF Receive
<1>5. ASSUME NEW t \in Tasks, Process(t) PROVE SqsTypeOK'
  <2>1. PICK r \in batch[t] : /\ batch' = [batch EXCEPT ![t] = @ \ {r}]
                              /\ cur' = [cur EXCEPT ![t] = r]
                              /\ attempts' = [attempts EXCEPT ![r.msg] = @ + 1]
    BY <1>5 DEF Process
  <2>2. r \in Receipts /\ r.msg \in Messages
    BY DEF Receipts
  <2>3. attempts' \in [Messages -> Nat]
    BY <2>1, <2>2
  <2>4. batch' \in [Tasks -> SUBSET Receipts] /\ cur' \in [Tasks -> Receipts \cup {NoReceipt}]
    BY <2>1, <2>2
  <2>5. pc' = [pc EXCEPT ![t] = "handle"]
    BY <1>5 DEF Process
  <2>6. \A u \in Tasks : pc'[u] \in {"handle", "delete"} <=> cur'[u] \in Receipts
    BY <2>1, <2>2, <2>5
  <2> QED BY <1>5, <2>3, <2>4, <2>5, <2>6 DEF Process, queueVars
<1>6. ASSUME NEW t \in Tasks, HandleOk(t) PROVE SqsTypeOK'
  <2>1. cur[t] \in Receipts /\ cur[t].msg \in Messages
    BY <1>6 DEF HandleOk, Receipts
  <2> QED BY <1>6, <2>1 DEF HandleOk, queueVars
<1>7. ASSUME NEW t \in Tasks, HandleErr(t) PROVE SqsTypeOK'
  BY <1>7 DEF HandleErr, queueVars
<1>8. ASSUME NEW t \in Tasks, Delete(t) PROVE SqsTypeOK'
  <2>1. cur[t] \in Receipts /\ cur[t].msg \in Messages
    BY <1>8 DEF Delete, Receipts
  <2>2. DeletedBy(cur[t]) \in [Messages -> MStates]
    BY <2>1 DEF DeletedBy
  <2>3. mstate' \in [Messages -> MStates]
    BY <1>8, <2>2 DEF Delete
  <2> QED BY <1>8, <2>3 DEF Delete
<1>9. ASSUME NEW t \in Tasks, Cancel(t) PROVE SqsTypeOK'
  BY <1>9 DEF Cancel, queueVars
<1>10. ASSUME NEW t \in Tasks, Down(t) PROVE SqsTypeOK'
  BY <1>10 DEF Down, queueVars
<1>11. ASSUME NEW t \in Tasks, Restart(t) PROVE SqsTypeOK'
  BY <1>11 DEF Restart, queueVars
<1>12. CASE UNCHANGED sqsVars
  BY <1>12 DEF sqsVars
<1> QED
  BY <1>1, <1>2, <1>3, <1>4, <1>5, <1>6, <1>7, <1>8, <1>9, <1>10, <1>11, <1>12
  DEF SqsNext, QueueStep, TaskStep, Stop, Crash

\* The consumer's state stays well typed in every run of the polling loop.
THEOREM SqsTypeCorrect == SqsSpec => []SqsTypeOK
<1>1. SqsInit => SqsTypeOK
  BY QueueAssumption, NoReceiptIsNone DEF SqsInit, SqsTypeOK, MStates
<1> QED BY <1>1, SqsTypeStep, PTL DEF SqsSpec

-----------------------------------------------------------------------------
\* DeletedOnlyIfHandled is not inductive: the delete trusts that the message
\* in the task's hands at that point is one its handler has finished.
SqsInv == /\ SqsTypeOK
          /\ DeletedOnlyIfHandled
          /\ \A t \in Tasks : pc[t] = "delete" => cur[t].msg \in handled

\* Every consumer step preserves it.
LEMMA SqsInvStep == ASSUME SqsInv, [SqsNext]_sqsVars PROVE SqsInv'
<1>1. SqsTypeOK'
  BY SqsTypeStep DEF SqsInv
<1> USE DEF SqsInv, DeletedOnlyIfHandled, SqsTypeOK
<1>2. ASSUME NEW m \in Messages, VisibilityTimeout(m) \/ Redrive(m) \/ RetentionExpiry(m)
      PROVE  SqsInv'
  BY <1>1, <1>2 DEF VisibilityTimeout, Redrive, RetentionExpiry, taskVars
<1>3. ASSUME NEW t \in Tasks, Receive(t) PROVE SqsInv'
  <2>1. \A m \in Messages : mstate'[m] = "deleted" => mstate[m] = "deleted"
    BY <1>3 DEF Receive
  <2> QED BY <1>1, <1>3, <2>1 DEF Receive
<1>4. ASSUME NEW t \in Tasks, Process(t) PROVE SqsInv'
  BY <1>1, <1>4 DEF Process, queueVars
<1>5. ASSUME NEW t \in Tasks, HandleOk(t) PROVE SqsInv'
  BY <1>1, <1>5 DEF HandleOk, queueVars
<1>6. ASSUME NEW t \in Tasks, HandleErr(t) PROVE SqsInv'
  BY <1>1, <1>6 DEF HandleErr, queueVars
<1>7. ASSUME NEW t \in Tasks, Delete(t) PROVE SqsInv'
  <2>1. \A m \in Messages : mstate'[m] = "deleted" =>
          mstate[m] = "deleted" \/ m = cur[t].msg
    BY <1>7 DEF Delete, DeletedBy
  <2>2. cur[t].msg \in handled /\ handled' = handled
    BY <1>7 DEF Delete
  <2>3. \A u \in Tasks : pc'[u] = "delete" => pc[u] = "delete" /\ cur'[u] = cur[u]
    BY <1>7 DEF Delete
  <2> QED BY <1>1, <2>1, <2>2, <2>3
<1>8. ASSUME NEW t \in Tasks, Cancel(t) \/ Down(t) \/ Restart(t) PROVE SqsInv'
  BY <1>1, <1>8 DEF Cancel, Down, Restart, queueVars
<1>9. CASE UNCHANGED sqsVars
  BY <1>1, <1>9 DEF sqsVars
<1> QED BY <1>2, <1>3, <1>4, <1>5, <1>6, <1>7, <1>8, <1>9
        DEF SqsNext, QueueStep, TaskStep, Stop, Crash

\* The invariant holds when the queues are full and no task has polled.
LEMMA SqsInvInit == SqsInit => SqsInv
BY QueueAssumption, NoReceiptIsNone
DEF SqsInit, SqsInv, SqsTypeOK, MStates, DeletedOnlyIfHandled

\* For any number of tasks and messages, a message is deleted only after a
\* handler returned nil on it.
THEOREM DeletionFollowsHandling == SqsSpec => []DeletedOnlyIfHandled
<1>1. SqsInv => DeletedOnlyIfHandled
  BY DEF SqsInv
<1> QED BY <1>1, SqsInvInit, SqsInvStep, PTL DEF SqsSpec

-----------------------------------------------------------------------------
\* OneAttemptPerReceive is not inductive: a batch that held two receipts of one
\* message would start two handlers for the one task it counts.
AttemptInv == /\ SqsTypeOK
              /\ OneAttemptPerReceive
              /\ \A t \in Tasks : \A r, s \in batch[t] : r.msg = s.msg => r = s

\* When no task gains a receipt of m, fewer or as many hold one.
LEMMA HoldersShrink ==
  ASSUME AttemptInv, NEW m \in Messages, Holders(m)' \subseteq Holders(m),
         attempts'[m] = attempts[m], receives'[m] = receives[m], receives'[m] \in Nat
  PROVE  attempts'[m] + Cardinality(Holders(m)') <= receives'[m]
<1>1. IsFiniteSet(Holders(m))
  BY QueueAssumption, FS_Subset DEF Holders
<1>2. IsFiniteSet(Holders(m)') /\ Cardinality(Holders(m)') <= Cardinality(Holders(m))
  BY <1>1, FS_Subset
<1>3. Cardinality(Holders(m)') \in Nat /\ Cardinality(Holders(m)) \in Nat
  BY <1>1, <1>2, FS_CardinalityType
<1>4. attempts[m] + Cardinality(Holders(m)) <= receives[m] /\ attempts[m] \in Nat
  BY DEF AttemptInv, OneAttemptPerReceive, SqsTypeOK
<1> QED BY <1>2, <1>3, <1>4

\* A receive counts once and hands the message to one task.
LEMMA ReceiveAttempts ==
  ASSUME AttemptInv, SqsTypeOK', NEW t \in Tasks, Receive(t) PROVE AttemptInv'
<1>1. PICK S \in SUBSET {m \in Messages : /\ QueueOf[m] = Polls[t]
                                          /\ mstate[m] = "visible"
                                          /\ receives[m] < MaxReceive} :
        /\ receives' = [m \in Messages |-> receives[m] + IF m \in S THEN 1 ELSE 0]
        /\ batch' \in {batch, [batch EXCEPT ![t] =
                                 {[msg |-> m, n |-> receives[m] + 1] : m \in S}]}
  BY DEF Receive
<1>2. attempts' = attempts /\ batch[t] = {}
  BY DEF Receive
<1>3. \A u \in Tasks \ {t} : batch'[u] = batch[u]
  BY <1>1 DEF AttemptInv, SqsTypeOK
<1>4. \A r \in batch'[t] : r.msg \in S /\ r = [msg |-> r.msg, n |-> receives[r.msg] + 1]
  BY <1>1, <1>2 DEF AttemptInv, SqsTypeOK
<1>5. ASSUME NEW m \in Messages
      PROVE  attempts'[m] + Cardinality(Holders(m)') <= receives'[m]
  <2>1. CASE m \notin S
    <3>1. Holders(m)' \subseteq Holders(m)
      BY <1>3, <1>4, <2>1 DEF Holders
    <3> QED BY <1>1, <1>2, <2>1, <3>1, HoldersShrink DEF AttemptInv, SqsTypeOK
  <2>2. CASE m \in S
    <3>1. Holders(m)' \subseteq Holders(m) \cup {t}
      BY <1>3 DEF Holders
    <3>2. IsFiniteSet(Holders(m)) /\ Cardinality(Holders(m)) \in Nat
      BY QueueAssumption, FS_Subset, FS_CardinalityType DEF Holders
    <3>3. /\ IsFiniteSet(Holders(m) \cup {t})
          /\ Cardinality(Holders(m) \cup {t}) <= Cardinality(Holders(m)) + 1
      <4>1. /\ IsFiniteSet(Holders(m) \cup {t})
            /\ Cardinality(Holders(m) \cup {t})
                 = IF t \in Holders(m) THEN Cardinality(Holders(m)) ELSE Cardinality(Holders(m)) + 1
        BY <3>2, FS_AddElement
      <4> QED BY <3>2, <4>1
    <3>4. /\ IsFiniteSet(Holders(m)')
          /\ Cardinality(Holders(m)') <= Cardinality(Holders(m) \cup {t})
      BY <3>1, <3>3, FS_Subset
    <3>5. /\ Cardinality(Holders(m)') \in Nat /\ Cardinality(Holders(m) \cup {t}) \in Nat
          /\ attempts[m] \in Nat /\ receives[m] \in Nat
      BY <3>3, <3>4, FS_CardinalityType DEF AttemptInv, SqsTypeOK
    <3>6. attempts[m] + Cardinality(Holders(m)) <= receives[m]
      BY DEF AttemptInv, OneAttemptPerReceive
    <3>7. receives'[m] = receives[m] + 1 /\ attempts'[m] = attempts[m]
      BY <1>1, <1>2, <2>2
    <3> QED BY <3>2, <3>3, <3>4, <3>5, <3>6, <3>7
  <2> QED BY <2>1, <2>2
<1>6. \A u \in Tasks : \A r, s \in batch'[u] : r.msg = s.msg => r = s
  BY <1>3, <1>4 DEF AttemptInv
<1> QED BY <1>5, <1>6 DEF AttemptInv, OneAttemptPerReceive

\* A handler starts on the one receipt its task holds of the message.
LEMMA ProcessAttempts ==
  ASSUME AttemptInv, SqsTypeOK', NEW t \in Tasks, Process(t) PROVE AttemptInv'
<1>1. PICK r \in batch[t] : /\ batch' = [batch EXCEPT ![t] = @ \ {r}]
                            /\ attempts' = [attempts EXCEPT ![r.msg] = @ + 1]
  BY DEF Process
<1>2. receives' = receives
  BY DEF Process, queueVars
<1>3. /\ r \in Receipts /\ r.msg \in Messages
      /\ batch'[t] = batch[t] \ {r} /\ \A u \in Tasks \ {t} : batch'[u] = batch[u]
  BY <1>1 DEF AttemptInv, SqsTypeOK, Receipts
<1>4. ASSUME NEW m \in Messages
      PROVE  attempts'[m] + Cardinality(Holders(m)') <= receives'[m]
  <2>1. CASE m # r.msg
    <3>1. Holders(m)' \subseteq Holders(m)
      BY <1>3 DEF Holders
    <3>2. attempts'[m] = attempts[m]
      BY <1>1, <1>3, <2>1 DEF AttemptInv, SqsTypeOK
    <3> QED BY <1>2, <3>1, <3>2, HoldersShrink DEF AttemptInv, SqsTypeOK
  <2>2. CASE m = r.msg
    <3>1. t \in Holders(m) /\ t \notin Holders(m)'
      BY <1>1, <1>3, <2>2 DEF Holders, AttemptInv
    <3>2. Holders(m)' \subseteq Holders(m) \ {t}
      BY <1>3, <3>1 DEF Holders
    <3>3. IsFiniteSet(Holders(m)) /\ Cardinality(Holders(m)) \in Nat
      BY QueueAssumption, FS_Subset, FS_CardinalityType DEF Holders
    <3>4. /\ IsFiniteSet(Holders(m) \ {t})
          /\ Cardinality(Holders(m) \ {t}) = Cardinality(Holders(m)) - 1
      BY <3>1, <3>3, FS_RemoveElement
    <3>5. /\ IsFiniteSet(Holders(m)')
          /\ Cardinality(Holders(m)') <= Cardinality(Holders(m) \ {t})
      BY <3>2, <3>4, FS_Subset
    <3>6. /\ Cardinality(Holders(m)') \in Nat
          /\ attempts[m] \in Nat /\ receives[m] \in Nat
      BY <3>5, FS_CardinalityType DEF AttemptInv, SqsTypeOK
    <3>7. attempts[m] + Cardinality(Holders(m)) <= receives[m]
      BY DEF AttemptInv, OneAttemptPerReceive
    <3>8. attempts'[m] = attempts[m] + 1
      BY <1>1, <1>3, <2>2 DEF AttemptInv, SqsTypeOK
    <3> QED BY <1>2, <3>3, <3>4, <3>5, <3>6, <3>7, <3>8
  <2> QED BY <2>1, <2>2
<1>5. \A u \in Tasks : \A p, s \in batch'[u] : p.msg = s.msg => p = s
  BY <1>3 DEF AttemptInv
<1> QED BY <1>4, <1>5 DEF AttemptInv, OneAttemptPerReceive

\* Every consumer step preserves it.
LEMMA AttemptInvStep == ASSUME AttemptInv, [SqsNext]_sqsVars PROVE AttemptInv'
<1>1. SqsTypeOK'
  BY SqsTypeStep DEF AttemptInv
<1>2. ASSUME NEW t \in Tasks, Receive(t) PROVE AttemptInv'
  BY <1>1, <1>2, ReceiveAttempts
<1>3. ASSUME NEW t \in Tasks, Process(t) PROVE AttemptInv'
  BY <1>1, <1>3, ProcessAttempts
<1>4. ASSUME attempts' = attempts, receives' = receives,
             \A t \in Tasks : batch'[t] \subseteq batch[t]
      PROVE  AttemptInv'
  <2>1. ASSUME NEW m \in Messages
        PROVE  attempts'[m] + Cardinality(Holders(m)') <= receives'[m]
    <3>1. Holders(m)' \subseteq Holders(m)
      BY <1>4 DEF Holders
    <3> QED BY <1>4, <3>1, HoldersShrink DEF AttemptInv, SqsTypeOK
  <2> QED BY <1>1, <1>4, <2>1 DEF AttemptInv, OneAttemptPerReceive
<1>5. ASSUME NEW m \in Messages, VisibilityTimeout(m) \/ Redrive(m) \/ RetentionExpiry(m)
      PROVE  AttemptInv'
  BY <1>4, <1>5 DEF VisibilityTimeout, Redrive, RetentionExpiry, taskVars
<1>6. ASSUME NEW t \in Tasks,
             HandleOk(t) \/ HandleErr(t) \/ Delete(t) \/ Cancel(t) \/ Restart(t)
      PROVE  AttemptInv'
  BY <1>4, <1>6 DEF HandleOk, HandleErr, Delete, Cancel, Restart, queueVars
<1>7. ASSUME NEW t \in Tasks, Down(t) PROVE AttemptInv'
  <2>1. \A u \in Tasks : batch'[u] \subseteq batch[u]
    BY <1>7 DEF Down, AttemptInv, SqsTypeOK
  <2> QED BY <1>4, <1>7, <2>1 DEF Down, queueVars
<1>8. CASE UNCHANGED sqsVars
  BY <1>4, <1>8 DEF sqsVars
<1> QED BY <1>2, <1>3, <1>5, <1>6, <1>7, <1>8
        DEF SqsNext, QueueStep, TaskStep, Stop, Crash

\* No message has been received when the tasks start.
LEMMA AttemptInvInit == SqsInit => AttemptInv
<1> SUFFICES ASSUME SqsInit PROVE AttemptInv
  OBVIOUS
<1>1. SqsTypeOK
  BY SqsInvInit DEF SqsInv
<1>2. \A m \in Messages : Holders(m) = {}
  BY DEF SqsInit, Holders
<1>3. \A m \in Messages : attempts[m] + Cardinality(Holders(m)) <= receives[m]
  BY <1>2, FS_EmptySet DEF SqsInit
<1> QED BY <1>1, <1>3 DEF AttemptInv, OneAttemptPerReceive, SqsInit

\* For any number of tasks that share a queue, the consumer never starts more
\* handlers on a message than the queue has handed it out.
THEOREM RedeliveryIsTheOnlyRetry == SqsSpec => []OneAttemptPerReceive
<1>1. AttemptInv => OneAttemptPerReceive
  BY DEF AttemptInv
<1> QED BY <1>1, AttemptInvInit, AttemptInvStep, PTL DEF SqsSpec
=============================================================================
