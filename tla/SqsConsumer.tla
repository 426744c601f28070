---------------------------- MODULE SqsConsumer ----------------------------
(***************************************************************************)
(* The polling loop every service runs (src/shared/sqsconsumer) on top of  *)
(* the SQS queues of src/terraform/modules/sqs.                            *)
(*                                                                         *)
(* A queue hands a message out under a receipt, hides it for the           *)
(* visibility timeout, hands it out again when the timeout passes, and     *)
(* moves it to the dead-letter queue once it has been received MaxReceive  *)
(* times.  A task receives a batch, runs the handler on each message in    *)
(* turn, deletes the message when the handler returns nil and leaves it    *)
(* when the handler returns an error.  The service modules EXTEND this one *)
(* and say what a handler does between Process and its return.             *)
(*                                                                         *)
(* The order of a batch and the bodies of messages are left out: a batch   *)
(* is a set and the next message is any of it.                             *)
(***************************************************************************)
EXTENDS Naturals, FiniteSets

CONSTANTS
  Messages,     \* messages delivered by SNS to some queue
  Tasks,        \* running copies of the consuming services
  Queues,       \* the queues
  QueueOf,      \* QueueOf[m]: the queue message m is delivered to
  Polls,        \* Polls[t]: the queue task t polls (cfg.QueueURL)
  MaxReceive,   \* maxReceiveCount of the redrive policy
  MaxMessages   \* cfg.MaxMessages, 10 by default

ASSUME QueueAssumption ==
  /\ IsFiniteSet(Tasks)
  /\ QueueOf \in [Messages -> Queues]
  /\ Polls \in [Tasks -> Queues]
  /\ MaxReceive \in Nat \ {0}
  /\ MaxMessages \in Nat \ {0}

VARIABLES
  mstate,    \* where each message is
  receives,  \* ApproximateReceiveCount of each message
  batch,     \* receipts of out.Messages the task has not processed yet
  cur,       \* receipt of the message in process(), or NoReceipt
  pc,        \* where the task is in Start / poll / process
  ctxDone,   \* the task's context is cancelled (SIGTERM)
  attempts,  \* ghost: how often a handler was started on each message
  handled    \* ghost: messages on which some handler call returned nil

queueVars == <<mstate, receives>>
taskVars  == <<batch, cur, pc, ctxDone>>
sqsVars   == <<mstate, receives, batch, cur, pc, ctxDone, attempts, handled>>

MStates  == {"visible", "inflight", "deleted", "dead", "expired"}
Receipts == [msg : Messages, n : 1..MaxReceive]
NoReceipt == [msg |-> "none", n |-> 0]

SqsTypeOK ==
  /\ mstate \in [Messages -> MStates]
  /\ receives \in [Messages -> 0..MaxReceive]
  /\ batch \in [Tasks -> SUBSET Receipts]
  /\ cur \in [Tasks -> Receipts \cup {NoReceipt}]
  /\ pc \in [Tasks -> {"loop", "handle", "delete", "down"}]
  /\ \A t \in Tasks : pc[t] \in {"handle", "delete"} <=> cur[t] \in Receipts
  /\ ctxDone \in [Tasks -> BOOLEAN]
  /\ attempts \in [Messages -> Nat]
  /\ handled \in SUBSET Messages

SqsInit ==
  /\ mstate = [m \in Messages |-> "visible"]
  /\ receives = [m \in Messages |-> 0]
  /\ batch = [t \in Tasks |-> {}]
  /\ cur = [t \in Tasks |-> NoReceipt]
  /\ pc = [t \in Tasks |-> "loop"]
  /\ ctxDone = [t \in Tasks |-> FALSE]
  /\ attempts = [m \in Messages |-> 0]
  /\ handled = {}

-----------------------------------------------------------------------------
(* The queues.                                                             *)

\* The visibility timeout of m passes: m can be received again, whether or
\* not the task that received it is still working on it.
VisibilityTimeout(m) ==
  /\ mstate[m] = "inflight"
  /\ mstate' = [mstate EXCEPT ![m] = "visible"]
  /\ UNCHANGED <<receives, taskVars, attempts, handled>>

\* The redrive policy moves an exhausted message to the dead-letter queue.
Redrive(m) ==
  /\ mstate[m] = "visible"
  /\ receives[m] = MaxReceive
  /\ mstate' = [mstate EXCEPT ![m] = "dead"]
  /\ UNCHANGED <<receives, taskVars, attempts, handled>>

\* The retention period ends before anyone has settled the message.
RetentionExpiry(m) ==
  /\ mstate[m] = "visible"
  /\ mstate' = [mstate EXCEPT ![m] = "expired"]
  /\ UNCHANGED <<receives, taskVars, attempts, handled>>

-----------------------------------------------------------------------------
(* The consumer.                                                           *)

\* poll: ReceiveMessage hands over at most MaxMessages messages, or hands
\* them over and the reply is lost on the way (the call returns an error,
\* the messages stay hidden until their timeout).
Receive(t) ==
  /\ pc[t] = "loop" /\ batch[t] = {} /\ ~ctxDone[t]
  /\ \E S \in SUBSET {m \in Messages : /\ QueueOf[m] = Polls[t]
                                       /\ mstate[m] = "visible"
                                       /\ receives[m] < MaxReceive} :
       /\ S # {} /\ Cardinality(S) <= MaxMessages
       /\ mstate' = [m \in Messages |-> IF m \in S THEN "inflight" ELSE mstate[m]]
       /\ receives' = [m \in Messages |-> receives[m] + IF m \in S THEN 1 ELSE 0]
       /\ batch' \in {batch, [batch EXCEPT ![t] =
                                {[msg |-> m, n |-> receives[m] + 1] : m \in S}]}
  /\ UNCHANGED <<cur, pc, ctxDone, attempts, handled>>

\* process: the next message of the batch goes to the handler.  The loop over
\* out.Messages does not look at the context, so this happens after SIGTERM too.
Process(t) ==
  /\ pc[t] = "loop"
  /\ \E r \in batch[t] :
       /\ batch' = [batch EXCEPT ![t] = @ \ {r}]
       /\ cur' = [cur EXCEPT ![t] = r]
       /\ attempts' = [attempts EXCEPT ![r.msg] = @ + 1]
  /\ pc' = [pc EXCEPT ![t] = "handle"]
  /\ UNCHANGED <<queueVars, ctxDone, handled>>

\* The handler returns nil; deleteMessage is called next.
HandleOk(t) ==
  /\ pc[t] = "handle"
  /\ pc' = [pc EXCEPT ![t] = "delete"]
  /\ handled' = handled \cup {cur[t].msg}
  /\ UNCHANGED <<queueVars, batch, cur, ctxDone, attempts>>

\* Mutants of the error path: process goes on to deleteMessage; the handler is
\* called again in place.
HandleErr_Deletes(t) ==
  /\ pc[t] = "handle"
  /\ pc' = [pc EXCEPT ![t] = "delete"]
  /\ UNCHANGED <<queueVars, batch, cur, ctxDone, attempts, handled>>

HandleErr_RetriesInPlace(t) ==
  /\ pc[t] = "handle"
  /\ attempts[cur[t].msg] <= MaxReceive
  /\ attempts' = [attempts EXCEPT ![cur[t].msg] = @ + 1]
  /\ UNCHANGED <<queueVars, batch, cur, pc, ctxDone, handled>>

\* The handler returns an error; the message is left to its timeout.
HandleErr(t) ==
  /\ pc[t] = "handle"
  /\ pc' = [pc EXCEPT ![t] = "loop"]
  /\ cur' = [cur EXCEPT ![t] = NoReceipt]
  /\ UNCHANGED <<queueVars, batch, ctxDone, attempts, handled>>

\* A receipt deletes its message until the message is received again.
DeletedBy(r) ==
  IF mstate[r.msg] \in {"visible", "inflight"} /\ receives[r.msg] = r.n
  THEN [mstate EXCEPT ![r.msg] = "deleted"]
  ELSE mstate

\* deleteMessage: a failure is logged and otherwise ignored, so the task goes
\* on whether or not the message is gone; with a cancelled context the call
\* never reaches SQS.
Delete(t) ==
  /\ pc[t] = "delete"
  /\ mstate' \in {mstate} \cup IF ctxDone[t] THEN {} ELSE {DeletedBy(cur[t])}
  /\ pc' = [pc EXCEPT ![t] = "loop"]
  /\ cur' = [cur EXCEPT ![t] = NoReceipt]
  /\ UNCHANGED <<receives, batch, ctxDone, attempts, handled>>

\* SIGTERM or SIGINT cancels the context of the task.
Cancel(t) ==
  /\ pc[t] # "down" /\ ~ctxDone[t]
  /\ ctxDone' = [ctxDone EXCEPT ![t] = TRUE]
  /\ UNCHANGED <<queueVars, batch, cur, pc, attempts, handled>>

\* The task is gone: what it held in memory is lost.
Down(t) ==
  /\ batch' = [batch EXCEPT ![t] = {}]
  /\ cur' = [cur EXCEPT ![t] = NoReceipt]
  /\ pc' = [pc EXCEPT ![t] = "down"]
  /\ UNCHANGED <<queueVars, ctxDone, attempts, handled>>

\* Start sees the cancelled context at the top of its loop and returns.
Stop(t) ==
  /\ pc[t] = "loop" /\ batch[t] = {} /\ ctxDone[t]
  /\ Down(t)

\* The task is killed anywhere (SIGKILL, out of memory, a lost host).
Crash(t) ==
  /\ pc[t] # "down"
  /\ Down(t)

\* ECS starts a new task in place of one that ended (desired_count).
Restart(t) ==
  /\ pc[t] = "down"
  /\ pc' = [pc EXCEPT ![t] = "loop"]
  /\ ctxDone' = [ctxDone EXCEPT ![t] = FALSE]
  /\ UNCHANGED <<queueVars, batch, cur, attempts, handled>>

\* Some task works, or will work, under the receipt that hides m.
Held(m) == \E t \in Tasks : \E r \in batch[t] \cup {cur[t]} :
             r.msg = m /\ r.n = receives[m]

\* The tasks with a receipt of m they have not processed yet.
Holders(m) == {t \in Tasks : \E r \in batch[t] : r.msg = m}

-----------------------------------------------------------------------------
QueueStep == \E m \in Messages : \/ VisibilityTimeout(m)
                                 \/ Redrive(m)
                                 \/ RetentionExpiry(m)

TaskStep(t) == \/ Receive(t)  \/ Process(t)
               \/ HandleOk(t) \/ HandleErr(t)
               \/ Delete(t)   \/ Stop(t)

SqsNext == \/ QueueStep
           \/ \E t \in Tasks : TaskStep(t) \/ Cancel(t) \/ Crash(t) \/ Restart(t)

SqsSpec == SqsInit /\ [][SqsNext]_sqsVars

-----------------------------------------------------------------------------
\* A message leaves the queue by deletion only after a handler returned nil on
\* it: an error, a crash or a cancelled context never costs a message.
DeletedOnlyIfHandled ==
  \A m \in Messages : mstate[m] = "deleted" => m \in handled

\* The handler is started at most once for every time the queue handed the
\* message out, whichever tasks it was handed to: redelivery is the only retry.
OneAttemptPerReceive ==
  \A m \in Messages :
    attempts[m] + Cardinality(Holders(m)) <= receives[m]

\* Every message is eventually deleted, dead-lettered or expired, however many
\* crashes, lost replies and failed deletes there are on the way.  (Under the
\* fairness of the service that is modelled over this consumer.)
EventuallySettled ==
  \A m \in Messages : <>(mstate[m] \in {"deleted", "dead", "expired"})
=============================================================================
