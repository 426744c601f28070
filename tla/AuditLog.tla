------------------------------ MODULE AuditLog ------------------------------
(***************************************************************************)
(* The audit-logging service (src/services/audit-logging).  Handle appends *)
(* a record to a buffer in memory and returns nil, so that the message is  *)
(* deleted from the queue while its record is still only in memory; the    *)
(* buffer goes to S3 as one object when it is full (flushed by the         *)
(* consumer's goroutine inside Handle) or when the ticker fires (flushed   *)
(* by the goroutine of Handler.Start).  Both may be flushing at once.      *)
(*                                                                         *)
(* A flush takes the buffer under the mutex, writes it without the mutex   *)
(* and puts it back when the write fails.  Each mutex section and each     *)
(* PutObject is one action.  A batch is a bag of messages: the order of    *)
(* the lines of an object and the object's key are left out.               *)
(***************************************************************************)
EXTENDS SqsConsumer, Functions

CONSTANTS
  BatchSize,  \* BATCH_SIZE
  Crashes,    \* whether tasks are killed (they are always stopped by SIGTERM)
  MaxTwice    \* bound: puts of one record that fail although the object is there

ASSUME AuditAssumption == BatchSize \in Nat \ {0} /\ Crashes \in BOOLEAN /\ MaxTwice \in Nat

VARIABLES
  buffer,     \* h.buffer of the process in each task
  hstep,      \* where the consumer's goroutine is in Handle
  tstep,      \* where the goroutine of Start is
  taken,      \* taken[t][g]: the batch goroutine g has swapped out
  stored,     \* how many lines about each message a task has put into S3
  lost,       \* ghost: records only in the memory of the task when it ended
  appended,   \* ghost: records the task has appended for each message
  twice       \* ghost: records it stored by a PutObject that reported a failure

memVars   == <<buffer, hstep, tstep, taken>>
auditVars == <<buffer, hstep, tstep, taken, stored, lost, appended, twice>>
vars      == <<sqsVars, auditVars>>

Goroutines == {"consumer", "ticker"}

NoRecords == [m \in Messages |-> 0]
Nowhere   == [t \in Tasks |-> NoRecords]
One(m)    == [k \in Messages |-> IF k = m THEN 1 ELSE 0]
Plus(f, g) == [m \in Messages |-> f[m] + g[m]]
Size(f)   == FoldFunction(+, 0, f)

AuditTypeOK ==
  /\ buffer \in [Tasks -> [Messages -> Nat]]
  /\ hstep \in [Tasks -> {"idle", "append", "swap", "put"}]
  /\ tstep \in [Tasks -> {"wait", "put", "finalPut", "returned"}]
  /\ taken \in [Tasks -> [Goroutines -> [Messages -> Nat]]]
  /\ \A t \in Tasks : /\ hstep[t] # "idle" => pc[t] = "handle"
                      /\ taken[t]["consumer"] # NoRecords <=> hstep[t] = "put"
                      /\ taken[t]["ticker"] # NoRecords <=> tstep[t] \in {"put", "finalPut"}
  /\ {stored, lost, appended, twice} \subseteq [Tasks -> [Messages -> Nat]]

TypeOK == SqsTypeOK /\ AuditTypeOK

Init ==
  /\ SqsInit
  /\ buffer = Nowhere
  /\ hstep = [t \in Tasks |-> "idle"]
  /\ tstep = [t \in Tasks |-> "wait"]
  /\ taken = [t \in Tasks |-> [g \in Goroutines |-> NoRecords]]
  /\ stored = Nowhere /\ lost = Nowhere /\ appended = Nowhere /\ twice = Nowhere

-----------------------------------------------------------------------------
(* flush.                                                                  *)

\* The mutex section that drains the buffer.
Swap(t, g) ==
  /\ buffer' = [buffer EXCEPT ![t] = NoRecords]
  /\ taken' = [taken EXCEPT ![t][g] = buffer[t]]

\* PutObject succeeds.
Stores(t, g) ==
  /\ stored' = [stored EXCEPT ![t] = Plus(@, taken[t][g])]
  /\ taken' = [taken EXCEPT ![t][g] = NoRecords]
  /\ UNCHANGED <<buffer, twice>>

\* Mutant: the failed batch replaces what was appended in the meantime.
PutsBack_Overwrites(t, g) ==
  /\ buffer' = [buffer EXCEPT ![t] = taken[t][g]]
  /\ taken' = [taken EXCEPT ![t][g] = NoRecords]
  /\ UNCHANGED <<stored, twice>>

\* PutObject reports a failure, although the object may have been written; the
\* mutex section that puts the batch back in front of the buffer.
PutsBack(t, g) ==
  /\ buffer' = [buffer EXCEPT ![t] = Plus(taken[t][g], @)]
  /\ taken' = [taken EXCEPT ![t][g] = NoRecords]
  /\ \/ UNCHANGED <<stored, twice>>
     \/ /\ \A m \in Messages : taken[t][g][m] > 0 => twice[t][m] < MaxTwice
        /\ stored' = [stored EXCEPT ![t] = Plus(@, taken[t][g])]
        /\ twice' = [twice EXCEPT ![t] = Plus(@, taken[t][g])]

-----------------------------------------------------------------------------
(* Handle, on the consumer's goroutine.                                    *)

Begin(t) ==
  /\ Process(t)
  /\ hstep' = [hstep EXCEPT ![t] = "append"]
  /\ UNCHANGED <<buffer, tstep, taken, stored, lost, appended, twice>>

\* The mutex section of Handle; the flush follows when the buffer is full.
Append(t) ==
  /\ hstep[t] = "append"
  /\ buffer' = [buffer EXCEPT ![t] = Plus(@, One(cur[t].msg))]
  /\ appended' = [appended EXCEPT ![t] = Plus(@, One(cur[t].msg))]
  /\ IF Size(buffer'[t]) >= BatchSize
       THEN hstep' = [hstep EXCEPT ![t] = "swap"] /\ UNCHANGED sqsVars
       ELSE hstep' = [hstep EXCEPT ![t] = "idle"] /\ HandleOk(t)
  /\ UNCHANGED <<tstep, taken, stored, lost, twice>>

\* Somebody else may have flushed since the buffer was seen to be full.
HandleSwap(t) ==
  /\ hstep[t] = "swap"
  /\ IF buffer[t] = NoRecords
       THEN /\ hstep' = [hstep EXCEPT ![t] = "idle"]
            /\ HandleOk(t)
            /\ UNCHANGED <<buffer, taken>>
       ELSE /\ hstep' = [hstep EXCEPT ![t] = "put"]
            /\ Swap(t, "consumer")
            /\ UNCHANGED sqsVars
  /\ UNCHANGED <<tstep, stored, lost, appended, twice>>

\* Handle returns nil however the flush ends; with a cancelled context the
\* PutObject fails.
HandlePutOk(t) ==
  /\ hstep[t] = "put" /\ ~ctxDone[t]
  /\ Stores(t, "consumer")
  /\ hstep' = [hstep EXCEPT ![t] = "idle"]
  /\ HandleOk(t)
  /\ UNCHANGED <<tstep, lost, appended>>

HandlePutFails(t) ==
  /\ hstep[t] = "put"
  /\ PutsBack(t, "consumer")
  /\ hstep' = [hstep EXCEPT ![t] = "idle"]
  /\ HandleOk(t)
  /\ UNCHANGED <<tstep, lost, appended>>

-----------------------------------------------------------------------------
(* Start, on the ticker's goroutine.                                       *)

Up(t) == pc[t] # "down"

\* Mutant: the ticker looks at the buffer but leaves it to Handle to flush.
Tick_LeavesPartial(t) ==
  /\ Up(t) /\ tstep[t] = "wait"
  /\ Size(buffer[t]) >= BatchSize
  /\ tstep' = [tstep EXCEPT ![t] = "put"]
  /\ Swap(t, "ticker")
  /\ UNCHANGED <<sqsVars, hstep, stored, lost, appended, twice>>

\* The ticker fires; select may choose it even after the cancellation.
Tick(t) ==
  /\ Up(t) /\ tstep[t] = "wait"
  /\ buffer[t] # NoRecords
  /\ tstep' = [tstep EXCEPT ![t] = "put"]
  /\ Swap(t, "ticker")
  /\ UNCHANGED <<sqsVars, hstep, stored, lost, appended, twice>>

\* ctx.Done: the final flush, with a context of its own.
FinalFlush(t) ==
  /\ Up(t) /\ tstep[t] = "wait" /\ ctxDone[t]
  /\ IF buffer[t] = NoRecords
       THEN tstep' = [tstep EXCEPT ![t] = "returned"] /\ UNCHANGED <<buffer, taken>>
       ELSE tstep' = [tstep EXCEPT ![t] = "finalPut"] /\ Swap(t, "ticker")
  /\ UNCHANGED <<sqsVars, hstep, stored, lost, appended, twice>>

AfterPut(t) ==
  tstep' = [tstep EXCEPT ![t] = IF @ = "finalPut" THEN "returned" ELSE "wait"]

TickerPutOk(t) ==
  /\ Up(t)
  /\ \/ tstep[t] = "put" /\ ~ctxDone[t]
     \/ tstep[t] = "finalPut"
  /\ Stores(t, "ticker")
  /\ AfterPut(t)
  /\ UNCHANGED <<sqsVars, hstep, lost, appended>>

TickerPutFails(t) ==
  /\ Up(t) /\ tstep[t] \in {"put", "finalPut"}
  /\ PutsBack(t, "ticker")
  /\ AfterPut(t)
  /\ UNCHANGED <<sqsVars, hstep, lost, appended>>

-----------------------------------------------------------------------------
(* The process and its queue.                                              *)

\* The process of t ends: its buffer is gone, and of the batches on their way
\* to S3 some may still arrive.
ProcessEnds(t) ==
  /\ \E landed \in SUBSET Goroutines :
       LET Batch(g) == IF g \in landed THEN taken[t][g] ELSE NoRecords
           Rest(g)  == IF g \in landed THEN NoRecords ELSE taken[t][g]
       IN  /\ stored' = [stored EXCEPT ![t] = Plus(@, Plus(Batch("consumer"), Batch("ticker")))]
           /\ lost' = [lost EXCEPT ![t] =
                         Plus(@, Plus(buffer[t], Plus(Rest("consumer"), Rest("ticker"))))]
  /\ buffer' = [buffer EXCEPT ![t] = NoRecords]
  /\ taken' = [taken EXCEPT ![t] = [g \in Goroutines |-> NoRecords]]
  /\ hstep' = [hstep EXCEPT ![t] = "idle"]
  /\ tstep' = [tstep EXCEPT ![t] = "wait"]
  /\ UNCHANGED <<appended, twice>>

\* consumer.Start returns and so does main, which does not wait for the
\* goroutine of Handler.Start.
MainReturns(t) == Stop(t) /\ ProcessEnds(t)

Kill(t) == Crashes /\ Crash(t) /\ ProcessEnds(t)

\* The timeout of this queue is five minutes, far longer than a batch takes.
TimesOut(m)    == VisibilityTimeout(m) /\ ~Held(m) /\ UNCHANGED auditVars
DeadLetters(m) == Redrive(m) /\ UNCHANGED auditVars
Receives(t)    == Receive(t) /\ batch'[t] # {} /\ UNCHANGED auditVars
Deletes(t)     == Delete(t) /\ UNCHANGED auditVars
Cancels(t)     == Cancel(t) /\ UNCHANGED auditVars
Restarts(t)    == Restart(t) /\ UNCHANGED auditVars

Handle(t) == \/ Append(t) \/ HandleSwap(t) \/ HandlePutOk(t) \/ HandlePutFails(t)
Start(t)  == \/ Tick(t) \/ FinalFlush(t) \/ TickerPutOk(t) \/ TickerPutFails(t)

Next ==
  \/ \E m \in Messages : TimesOut(m) \/ DeadLetters(m)
  \/ \E t \in Tasks : \/ Receives(t) \/ Begin(t) \/ Handle(t) \/ Deletes(t) \/ Start(t)
                      \/ Cancels(t) \/ MainReturns(t) \/ Kill(t) \/ Restarts(t)

Spec == Init /\ [][Next]_vars

\* Both goroutines run; select does not prefer the ticker to the cancelled
\* context for ever; and S3 does not fail for ever: a put that is tried again
\* and again succeeds at last.
Fairness ==
  \A t \in Tasks :
    /\ WF_vars(Begin(t) \/ Handle(t) \/ Deletes(t) \/ MainReturns(t))
    /\ WF_vars(Start(t)) /\ SF_vars(FinalFlush(t)) /\ SF_vars(TickerPutOk(t))

FairSpec == Spec /\ Fairness

-----------------------------------------------------------------------------
InMemory(t, m) == buffer[t][m] + taken[t]["consumer"][m] + taken[t]["ticker"][m]

\* Two goroutines that swap, write and put back around each other neither drop
\* nor copy a record: what a task appended it has put into S3, holds in memory,
\* or held in memory when its process ended; only a PutObject that wrote its
\* object and reported a failure adds a copy.
RecordsConserved ==
  \A t \in Tasks, m \in Messages :
    stored[t][m] + InMemory(t, m) + lost[t][m] = appended[t][m] + twice[t][m]

\* A record that was appended reaches S3 or is lost with its process: it does
\* not stay in a buffer that never fills, nor go round a failing flush for ever.
AppendedIsStored ==
  \A t \in Tasks, m \in Messages :
    appended[t][m] > 0 ~> stored[t][m] > 0 \/ lost[t][m] > 0

\* What Start says of itself: on cancellation a final flush of any remaining
\* records.  Checked without kills, so that only the service's own shutdown
\* can lose a record that has been deleted from the queue.
ShutdownLosesNothing ==
  \A m \in Messages :
    mstate[m] = "deleted" => \E t \in Tasks : stored[t][m] > 0 \/ InMemory(t, m) > 0
=============================================================================
