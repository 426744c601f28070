-------------------------- MODULE AuditLog_proofs --------------------------
(***************************************************************************)
(* Proofs about AuditLog, for every number of tasks and messages and every *)
(* batch size, with kills and without: the service is a consumer, and its  *)
(* two goroutines neither drop nor copy a record.                          *)
(***************************************************************************)
EXTENDS AuditLog, SqsConsumer_proofs

Counts == [Messages -> Nat]

\* Every step of the audit service is a step of the consumer, or leaves it
\* alone.
LEMMA AuditStepIsSqsStep == [Next]_vars => [SqsNext]_sqsVars
<1> SUFFICES ASSUME [Next]_vars PROVE SqsNext \/ UNCHANGED sqsVars
  OBVIOUS
<1>1. ASSUME NEW m \in Messages, TimesOut(m) \/ DeadLetters(m)
      PROVE  SqsNext
  BY <1>1 DEF TimesOut, DeadLetters, SqsNext, QueueStep
<1>2. ASSUME NEW t \in Tasks,
             \/ Receives(t) \/ Begin(t) \/ Deletes(t)
             \/ Cancels(t) \/ MainReturns(t) \/ Kill(t) \/ Restarts(t)
      PROVE  SqsNext
  BY <1>2 DEF Receives, Begin, Deletes, Cancels, MainReturns, Kill, Restarts, SqsNext, TaskStep
<1>3. ASSUME NEW t \in Tasks, Handle(t) \/ Start(t) PROVE SqsNext \/ UNCHANGED sqsVars
  <2>1. HandleOk(t) \/ UNCHANGED sqsVars
    BY <1>3 DEF Handle, Start, Append, HandleSwap, HandlePutOk, HandlePutFails,
                Tick, FinalFlush, TickerPutOk, TickerPutFails
  <2> QED BY <2>1 DEF SqsNext, TaskStep
<1>4. CASE UNCHANGED vars
  BY <1>4 DEF vars
<1> QED BY <1>1, <1>2, <1>3, <1>4 DEF Next

\* The audit service is a consumer: what SqsConsumer promises of queues and
\* tasks holds of it.
THEOREM AuditImplementsSqs == Spec => SqsSpec
<1>1. Init => SqsInit
  BY DEF Init
<1> QED BY <1>1, AuditStepIsSqsStep, PTL DEF Spec, SqsSpec

\* So its messages are deleted only when handled and retried only by the queue.
COROLLARY AuditIsASoundConsumer ==
  Spec => [](DeletedOnlyIfHandled /\ OneAttemptPerReceive)
BY AuditImplementsSqs, DeletionFollowsHandling, RedeliveryIsTheOnlyRetry, PTL

-----------------------------------------------------------------------------
(* Type correctness and conservation.                                      *)

\* Adding two counts gives a count.
LEMMA PlusTyped == ASSUME NEW f \in Counts, NEW g \in Counts
                   PROVE  /\ Plus(f, g) \in Counts
                          /\ \A m \in Messages : Plus(f, g)[m] = f[m] + g[m]
BY DEF Plus, Counts

\* No records, and one record, are counts.
LEMMA SmallCounts == /\ NoRecords \in Counts
                     /\ \A m \in Messages : NoRecords[m] = 0 /\ One(m) \in Counts
BY DEF NoRecords, One, Counts

\* Conservation needs the types of what it adds up, and that a goroutine holds
\* a batch exactly while it is writing one: only then may it take another.
AuditInv == TypeOK /\ RecordsConserved

\* The account of task t balances after a step that changes that account only.
LEMMA OneTaskChanges ==
  ASSUME AuditInv, SqsTypeOK', NEW t \in Tasks,
         buffer' \in [Tasks -> Counts], taken' \in [Tasks -> [Goroutines -> Counts]],
         stored' \in [Tasks -> Counts], lost' \in [Tasks -> Counts],
         appended' \in [Tasks -> Counts], twice' \in [Tasks -> Counts],
         hstep' \in [Tasks -> {"idle", "append", "swap", "put"}],
         tstep' \in [Tasks -> {"wait", "put", "finalPut", "returned"}],
         \A u \in Tasks \ {t} :
           /\ buffer'[u] = buffer[u] /\ taken'[u] = taken[u] /\ stored'[u] = stored[u]
           /\ lost'[u] = lost[u] /\ appended'[u] = appended[u] /\ twice'[u] = twice[u]
           /\ hstep'[u] = hstep[u] /\ tstep'[u] = tstep[u]
           /\ hstep[u] # "idle" => pc'[u] = pc[u],
         hstep'[t] # "idle" => pc'[t] = "handle",
         taken'[t]["consumer"] # NoRecords <=> hstep'[t] = "put",
         taken'[t]["ticker"] # NoRecords <=> tstep'[t] \in {"put", "finalPut"},
         \A m \in Messages :
           stored'[t][m] + (buffer'[t][m] + taken'[t]["consumer"][m] + taken'[t]["ticker"][m])
             + lost'[t][m] = appended'[t][m] + twice'[t][m]
  PROVE  AuditInv'
<1> USE DEF AuditInv, TypeOK, AuditTypeOK
<1>1. \A u \in Tasks : /\ hstep'[u] # "idle" => pc'[u] = "handle"
                       /\ taken'[u]["consumer"] # NoRecords <=> hstep'[u] = "put"
                       /\ taken'[u]["ticker"] # NoRecords <=> tstep'[u] \in {"put", "finalPut"}
  <2>1. ASSUME NEW u \in Tasks \ {t}, hstep'[u] # "idle" PROVE pc'[u] = "handle"
    <3>1. hstep[u] # "idle" /\ pc'[u] = pc[u]
      BY <2>1
    <3>2. \A v \in Tasks : hstep[v] # "idle" => pc[v] = "handle"
      OBVIOUS
    <3> QED BY <3>1, <3>2
  <2>2. \A u \in Tasks \ {t} :
          /\ taken'[u]["consumer"] # NoRecords <=> hstep'[u] = "put"
          /\ taken'[u]["ticker"] # NoRecords <=> tstep'[u] \in {"put", "finalPut"}
    OBVIOUS
  <2> QED BY <2>1, <2>2
<1>2. TypeOK'
  BY <1>1 DEF Counts, NoRecords
<1>3. ASSUME NEW u \in Tasks, NEW m \in Messages
      PROVE  (stored[u][m] + InMemory(u, m) + lost[u][m] = appended[u][m] + twice[u][m])'
  <2>1. CASE u = t
    BY <2>1 DEF InMemory
  <2>2. CASE u # t
    BY <2>2 DEF RecordsConserved, InMemory
  <2> QED BY <2>1, <2>2
<1> QED BY <1>2, <1>3 DEF RecordsConserved

\* The account of a task, by parts.
LEMMA Account ==
  ASSUME AuditInv, NEW t \in Tasks
  PROVE  /\ buffer[t] \in Counts /\ stored[t] \in Counts /\ lost[t] \in Counts
         /\ appended[t] \in Counts /\ twice[t] \in Counts
         /\ taken[t]["consumer"] \in Counts /\ taken[t]["ticker"] \in Counts
         /\ \A m \in Messages :
              stored[t][m] + (buffer[t][m] + taken[t]["consumer"][m] + taken[t]["ticker"][m])
                + lost[t][m] = appended[t][m] + twice[t][m]
BY DEF AuditInv, TypeOK, AuditTypeOK, RecordsConserved, InMemory, Counts, Goroutines

\* What the goroutine of a flush does next, and that nothing else moves on.
FlushEnds(t, g) ==
  \/ /\ g = "consumer" /\ hstep[t] = "put" /\ HandleOk(t) /\ UNCHANGED tstep
     /\ hstep' = [hstep EXCEPT ![t] = "idle"]
  \/ /\ g = "ticker" /\ tstep[t] \in {"put", "finalPut"} /\ AfterPut(t)
     /\ UNCHANGED <<sqsVars, hstep>>

\* It leaves the other goroutine and the other tasks where they are.
LEMMA FlushFrame ==
  ASSUME AuditInv, NEW t \in Tasks, NEW g \in Goroutines, FlushEnds(t, g)
  PROVE  /\ hstep' \in [Tasks -> {"idle", "append", "swap", "put"}]
         /\ tstep' \in [Tasks -> {"wait", "put", "finalPut", "returned"}]
         /\ \A u \in Tasks \ {t} :
              hstep'[u] = hstep[u] /\ tstep'[u] = tstep[u] /\ pc'[u] = pc[u]
         /\ hstep'[t] # "idle" => pc'[t] = "handle"
         /\ hstep'[t] = "put" <=> g = "ticker" /\ hstep[t] = "put"
         /\ tstep'[t] \in {"put", "finalPut"}
              <=> g = "consumer" /\ tstep[t] \in {"put", "finalPut"}
<1> USE DEF AuditInv, TypeOK, AuditTypeOK, SqsTypeOK
<1>1. ASSUME g = "consumer"
      PROVE  /\ hstep' = [hstep EXCEPT ![t] = "idle"] /\ tstep' = tstep
             /\ pc' = [pc EXCEPT ![t] = "delete"]
  BY <1>1 DEF FlushEnds, HandleOk
<1>2. ASSUME g = "ticker"
      PROVE  /\ hstep' = hstep /\ pc' = pc
             /\ tstep' = [tstep EXCEPT ![t] = IF @ = "finalPut" THEN "returned" ELSE "wait"]
  BY <1>2 DEF FlushEnds, AfterPut, sqsVars
<1>3. CASE g = "consumer"
  <2>1. /\ hstep'[t] = "idle" /\ tstep'[t] = tstep[t]
        /\ \A u \in Tasks \ {t} :
             hstep'[u] = hstep[u] /\ tstep'[u] = tstep[u] /\ pc'[u] = pc[u]
    BY <1>1, <1>3
  <2>2. /\ hstep' \in [Tasks -> {"idle", "append", "swap", "put"}]
        /\ tstep' \in [Tasks -> {"wait", "put", "finalPut", "returned"}]
    BY <1>1, <1>3
  <2> QED BY <1>3, <2>1, <2>2
<1>4. CASE g = "ticker"
  <2>1. /\ hstep'[t] = hstep[t] /\ tstep'[t] \in {"wait", "returned"} /\ pc'[t] = pc[t]
        /\ \A u \in Tasks \ {t} :
             hstep'[u] = hstep[u] /\ tstep'[u] = tstep[u] /\ pc'[u] = pc[u]
    BY <1>2, <1>4
  <2>2. /\ hstep' \in [Tasks -> {"idle", "append", "swap", "put"}]
        /\ tstep' \in [Tasks -> {"wait", "put", "finalPut", "returned"}]
    BY <1>2, <1>4
  <2>3. hstep[t] # "idle" => pc[t] = "handle"
    OBVIOUS
  <2> QED BY <1>4, <2>1, <2>2, <2>3
<1> QED BY <1>3, <1>4 DEF Goroutines

\* A flush that stores its batch moves it from memory to S3.
LEMMA StoresConserves ==
  ASSUME AuditInv, SqsTypeOK', NEW t \in Tasks, NEW g \in Goroutines,
         Stores(t, g), FlushEnds(t, g), UNCHANGED <<lost, appended>>
  PROVE  AuditInv'
<1> DEFINE s == Plus(stored[t], taken[t][g])
<1>1. /\ taken[t][g] \in Counts /\ s \in Counts
      /\ \A m \in Messages : s[m] = stored[t][m] + taken[t][g][m]
  BY Account, PlusTyped DEF Goroutines
<1>2. stored' = [stored EXCEPT ![t] = s]
  BY DEF Stores
<1> HIDE DEF s
<1>3. /\ stored' \in [Tasks -> Counts] /\ stored'[t] = s
      /\ \A u \in Tasks \ {t} : stored'[u] = stored[u]
  BY <1>1, <1>2 DEF AuditInv, TypeOK, AuditTypeOK, Counts
<1>4. /\ taken' \in [Tasks -> [Goroutines -> Counts]]
      /\ \A u \in Tasks \ {t} : taken'[u] = taken[u]
      /\ taken'[t][g] = NoRecords
      /\ \A f \in Goroutines \ {g} : taken'[t][f] = taken[t][f]
  BY SmallCounts DEF Stores, AuditInv, TypeOK, AuditTypeOK, Counts
<1>5. /\ buffer' = buffer /\ lost' = lost /\ appended' = appended /\ twice' = twice
      /\ buffer \in [Tasks -> Counts] /\ lost \in [Tasks -> Counts]
      /\ appended \in [Tasks -> Counts] /\ twice \in [Tasks -> Counts]
  BY DEF Stores, AuditInv, TypeOK, AuditTypeOK, Counts
<1>6. ASSUME NEW m \in Messages
      PROVE  stored'[t][m] + (buffer'[t][m] + taken'[t]["consumer"][m] + taken'[t]["ticker"][m])
               + lost'[t][m] = appended'[t][m] + twice'[t][m]
  <2>1. /\ stored'[t][m] = stored[t][m] + taken[t][g][m]
        /\ buffer'[t][m] = buffer[t][m] /\ lost'[t][m] = lost[t][m]
        /\ appended'[t][m] = appended[t][m] /\ twice'[t][m] = twice[t][m]
    BY <1>1, <1>3, <1>5
  <2>2. /\ taken'[t][g][m] = 0
        /\ \A f \in Goroutines \ {g} : taken'[t][f][m] = taken[t][f][m]
    BY <1>4, SmallCounts
  <2>3. /\ stored[t][m] \in Nat /\ buffer[t][m] \in Nat /\ lost[t][m] \in Nat
        /\ taken[t]["consumer"][m] \in Nat /\ taken[t]["ticker"][m] \in Nat
        /\ appended[t][m] \in Nat /\ twice[t][m] \in Nat
        /\ stored[t][m] + (buffer[t][m] + taken[t]["consumer"][m] + taken[t]["ticker"][m])
              + lost[t][m] = appended[t][m] + twice[t][m]
    BY Account DEF Counts
  <2>4. CASE g = "consumer"
    <3>1. taken'[t]["consumer"][m] = 0 /\ taken'[t]["ticker"][m] = taken[t]["ticker"][m]
      BY <2>2, <2>4 DEF Goroutines
    <3> QED BY <2>1, <2>3, <2>4, <3>1
  <2>5. CASE g = "ticker"
    <3>1. taken'[t]["ticker"][m] = 0 /\ taken'[t]["consumer"][m] = taken[t]["consumer"][m]
      BY <2>2, <2>5 DEF Goroutines
    <3> QED BY <2>1, <2>3, <2>5, <3>1
  <2> QED BY <2>4, <2>5 DEF Goroutines
<1>7. /\ taken'[t]["consumer"] # NoRecords <=> hstep'[t] = "put"
      /\ taken'[t]["ticker"] # NoRecords <=> tstep'[t] \in {"put", "finalPut"}
  BY <1>4, FlushFrame DEF Goroutines, AuditInv, TypeOK, AuditTypeOK
<1> QED BY <1>3, <1>4, <1>5, <1>6, <1>7, FlushFrame, OneTaskChanges


\* A flush that fails puts its batch back, stored or not.
LEMMA PutsBackConserves ==
  ASSUME AuditInv, SqsTypeOK', NEW t \in Tasks, NEW g \in Goroutines,
         PutsBack(t, g), FlushEnds(t, g), UNCHANGED <<lost, appended>>
  PROVE  AuditInv'
<1> DEFINE b == Plus(taken[t][g], buffer[t])
           s == Plus(stored[t], taken[t][g])
           w == Plus(twice[t], taken[t][g])
<1>1. /\ taken[t][g] \in Counts /\ b \in Counts /\ s \in Counts /\ w \in Counts
      /\ \A m \in Messages : /\ b[m] = buffer[t][m] + taken[t][g][m]
                              /\ s[m] = stored[t][m] + taken[t][g][m]
                              /\ w[m] = twice[t][m] + taken[t][g][m]
  <2>1. taken[t][g] \in Counts
    BY Account DEF Goroutines
  <2>2. b \in Counts /\ \A m \in Messages : b[m] = taken[t][g][m] + buffer[t][m]
    BY <2>1, Account, PlusTyped
  <2>3. s \in Counts /\ \A m \in Messages : s[m] = stored[t][m] + taken[t][g][m]
    BY <2>1, Account, PlusTyped
  <2>4. w \in Counts /\ \A m \in Messages : w[m] = twice[t][m] + taken[t][g][m]
    BY <2>1, Account, PlusTyped
  <2>5. \A m \in Messages : taken[t][g][m] \in Nat /\ buffer[t][m] \in Nat
    BY <2>1, Account DEF Counts
  <2> HIDE DEF b, s, w
  <2> QED BY <2>1, <2>2, <2>3, <2>4, <2>5
<1>2. /\ buffer' = [buffer EXCEPT ![t] = b]
      /\ \/ UNCHANGED <<stored, twice>>
         \/ stored' = [stored EXCEPT ![t] = s] /\ twice' = [twice EXCEPT ![t] = w]
  BY DEF PutsBack
<1> HIDE DEF b, s, w
<1>3. /\ buffer' \in [Tasks -> Counts] /\ buffer'[t] = b
      /\ stored' \in [Tasks -> Counts] /\ twice' \in [Tasks -> Counts]
      /\ \/ stored'[t] = stored[t] /\ twice'[t] = twice[t]
         \/ stored'[t] = s /\ twice'[t] = w
      /\ \A u \in Tasks \ {t} :
           buffer'[u] = buffer[u] /\ stored'[u] = stored[u] /\ twice'[u] = twice[u]
  BY <1>1, <1>2 DEF AuditInv, TypeOK, AuditTypeOK, Counts
<1>4. /\ taken' \in [Tasks -> [Goroutines -> Counts]]
      /\ \A u \in Tasks \ {t} : taken'[u] = taken[u]
      /\ taken'[t][g] = NoRecords
      /\ \A f \in Goroutines \ {g} : taken'[t][f] = taken[t][f]
  BY SmallCounts DEF PutsBack, AuditInv, TypeOK, AuditTypeOK, Counts
<1>5. /\ lost' = lost /\ appended' = appended
      /\ lost \in [Tasks -> Counts] /\ appended \in [Tasks -> Counts]
  BY DEF AuditInv, TypeOK, AuditTypeOK, Counts
<1>6. ASSUME NEW m \in Messages
      PROVE  stored'[t][m] + (buffer'[t][m] + taken'[t]["consumer"][m] + taken'[t]["ticker"][m])
               + lost'[t][m] = appended'[t][m] + twice'[t][m]
  <2> DEFINE n == taken[t][g][m]
  <2>1. /\ buffer'[t][m] = buffer[t][m] + n
        /\ \/ stored'[t][m] = stored[t][m] /\ twice'[t][m] = twice[t][m]
           \/ stored'[t][m] = stored[t][m] + n /\ twice'[t][m] = twice[t][m] + n
        /\ lost'[t][m] = lost[t][m] /\ appended'[t][m] = appended[t][m]
    BY <1>1, <1>3, <1>5
  <2>2. /\ taken'[t][g][m] = 0
        /\ \A f \in Goroutines \ {g} : taken'[t][f][m] = taken[t][f][m]
    BY <1>4, SmallCounts
  <2>3. /\ stored[t][m] \in Nat /\ buffer[t][m] \in Nat /\ lost[t][m] \in Nat
        /\ taken[t]["consumer"][m] \in Nat /\ taken[t]["ticker"][m] \in Nat
        /\ appended[t][m] \in Nat /\ twice[t][m] \in Nat
        /\ stored[t][m] + (buffer[t][m] + taken[t]["consumer"][m] + taken[t]["ticker"][m])
              + lost[t][m] = appended[t][m] + twice[t][m]
    BY Account DEF Counts
  <2>4. CASE g = "consumer"
    <3>1. taken'[t]["consumer"][m] = 0 /\ taken'[t]["ticker"][m] = taken[t]["ticker"][m]
      BY <2>2, <2>4 DEF Goroutines
    <3> QED BY <2>1, <2>3, <2>4, <3>1
  <2>5. CASE g = "ticker"
    <3>1. taken'[t]["ticker"][m] = 0 /\ taken'[t]["consumer"][m] = taken[t]["consumer"][m]
      BY <2>2, <2>5 DEF Goroutines
    <3> QED BY <2>1, <2>3, <2>5, <3>1
  <2> QED BY <2>4, <2>5 DEF Goroutines
<1>7. /\ taken'[t]["consumer"] # NoRecords <=> hstep'[t] = "put"
      /\ taken'[t]["ticker"] # NoRecords <=> tstep'[t] \in {"put", "finalPut"}
  BY <1>4, FlushFrame DEF Goroutines, AuditInv, TypeOK, AuditTypeOK
<1> QED BY <1>3, <1>4, <1>5, <1>6, <1>7, FlushFrame, OneTaskChanges

\* A goroutine that holds no batch takes the whole buffer.
LEMMA SwapConserves ==
  ASSUME AuditInv, SqsTypeOK', NEW t \in Tasks, NEW g \in Goroutines,
         Swap(t, g), buffer[t] # NoRecords,
         UNCHANGED <<sqsVars, stored, lost, appended, twice>>,
         \/ /\ g = "consumer" /\ hstep[t] = "swap" /\ UNCHANGED tstep
            /\ hstep' = [hstep EXCEPT ![t] = "put"]
         \/ /\ g = "ticker" /\ tstep[t] = "wait" /\ UNCHANGED hstep
            /\ tstep' \in {[tstep EXCEPT ![t] = i] : i \in {"put", "finalPut"}}
  PROVE  AuditInv'
<1>1. /\ buffer' \in [Tasks -> Counts] /\ buffer'[t] = NoRecords
      /\ \A u \in Tasks \ {t} : buffer'[u] = buffer[u]
  BY SmallCounts DEF Swap, AuditInv, TypeOK, AuditTypeOK, Counts
<1>2. /\ taken' \in [Tasks -> [Goroutines -> Counts]]
      /\ \A u \in Tasks \ {t} : taken'[u] = taken[u]
      /\ taken'[t][g] = buffer[t] /\ taken[t][g] = NoRecords
      /\ \A f \in Goroutines \ {g} : taken'[t][f] = taken[t][f]
  <2>1. taken[t][g] = NoRecords
    BY DEF AuditInv, TypeOK, AuditTypeOK
  <2> QED BY <2>1 DEF Swap, AuditInv, TypeOK, AuditTypeOK, Counts
<1>3. /\ stored' = stored /\ lost' = lost /\ appended' = appended /\ twice' = twice
      /\ stored \in [Tasks -> Counts] /\ lost \in [Tasks -> Counts]
      /\ appended \in [Tasks -> Counts] /\ twice \in [Tasks -> Counts]
  BY DEF AuditInv, TypeOK, AuditTypeOK, Counts
<1>4. ASSUME NEW m \in Messages
      PROVE  stored'[t][m] + (buffer'[t][m] + taken'[t]["consumer"][m] + taken'[t]["ticker"][m])
               + lost'[t][m] = appended'[t][m] + twice'[t][m]
  <2>1. /\ stored'[t][m] = stored[t][m] /\ lost'[t][m] = lost[t][m]
        /\ appended'[t][m] = appended[t][m] /\ twice'[t][m] = twice[t][m]
        /\ buffer'[t][m] = 0 /\ taken[t][g][m] = 0 /\ taken'[t][g][m] = buffer[t][m]
        /\ \A f \in Goroutines \ {g} : taken'[t][f][m] = taken[t][f][m]
    BY <1>1, <1>2, <1>3, SmallCounts
  <2>2. /\ stored[t][m] \in Nat /\ buffer[t][m] \in Nat /\ lost[t][m] \in Nat
        /\ taken[t]["consumer"][m] \in Nat /\ taken[t]["ticker"][m] \in Nat
        /\ appended[t][m] \in Nat /\ twice[t][m] \in Nat
        /\ stored[t][m] + (buffer[t][m] + taken[t]["consumer"][m] + taken[t]["ticker"][m])
              + lost[t][m] = appended[t][m] + twice[t][m]
    BY Account DEF Counts
  <2>3. CASE g = "consumer"
    <3>1. taken'[t]["ticker"][m] = taken[t]["ticker"][m]
      BY <2>1, <2>3 DEF Goroutines
    <3> QED BY <2>1, <2>2, <2>3, <3>1
  <2>4. CASE g = "ticker"
    <3>1. taken'[t]["consumer"][m] = taken[t]["consumer"][m]
      BY <2>1, <2>4 DEF Goroutines
    <3> QED BY <2>1, <2>2, <2>4, <3>1
  <2> QED BY <2>3, <2>4 DEF Goroutines
<1>5. /\ hstep' \in [Tasks -> {"idle", "append", "swap", "put"}]
      /\ tstep' \in [Tasks -> {"wait", "put", "finalPut", "returned"}]
      /\ \A u \in Tasks \ {t} : hstep'[u] = hstep[u] /\ tstep'[u] = tstep[u]
      /\ \/ g = "consumer" /\ hstep'[t] = "put" /\ tstep'[t] = tstep[t]
         \/ g = "ticker" /\ hstep'[t] = hstep[t] /\ tstep'[t] \in {"put", "finalPut"}
      /\ hstep'[t] # "idle" => hstep[t] # "idle"
  BY DEF AuditInv, TypeOK, AuditTypeOK
<1>6. pc' = pc /\ (hstep[t] # "idle" => pc[t] = "handle")
  BY DEF sqsVars, AuditInv, TypeOK, AuditTypeOK
<1>7. /\ taken'[t]["consumer"] # NoRecords <=> hstep'[t] = "put"
      /\ taken'[t]["ticker"] # NoRecords <=> tstep'[t] \in {"put", "finalPut"}
  <2>1. CASE g = "consumer"
    BY <1>2, <1>5, <2>1 DEF Goroutines, AuditInv, TypeOK, AuditTypeOK
  <2>2. CASE g = "ticker"
    BY <1>2, <1>5, <2>2 DEF Goroutines, AuditInv, TypeOK, AuditTypeOK
  <2> QED BY <2>1, <2>2 DEF Goroutines
<1> QED BY <1>1, <1>2, <1>3, <1>4, <1>5, <1>6, <1>7, OneTaskChanges

\* A step of the consumer or the queue that leaves the buffers alone.
LEMMA OtherStepConserves ==
  ASSUME AuditInv, SqsTypeOK', UNCHANGED auditVars,
         \A u \in Tasks : hstep[u] # "idle" => pc'[u] = pc[u]
  PROVE  AuditInv'
<1>1. AuditTypeOK'
  BY DEF auditVars, AuditInv, TypeOK, AuditTypeOK, NoRecords
<1>2. RecordsConserved'
  BY DEF auditVars, AuditInv, RecordsConserved, InMemory
<1> QED BY <1>1, <1>2 DEF AuditInv, TypeOK

\* Handle starts with nothing in its hands.
LEMMA BeginConserves ==
  ASSUME AuditInv, SqsTypeOK', NEW t \in Tasks, Begin(t)
  PROVE  AuditInv'
<1>1. pc[t] = "loop" /\ pc' = [pc EXCEPT ![t] = "handle"]
  BY DEF Begin, Process
<1>2. hstep[t] = "idle"
  BY <1>1 DEF AuditInv, TypeOK, AuditTypeOK
<1>3. /\ hstep' = [hstep EXCEPT ![t] = "append"]
      /\ UNCHANGED <<buffer, tstep, taken, stored, lost, appended, twice>>
  BY DEF Begin
<1>4. \A u \in Tasks : hstep'[u] # "idle" => pc'[u] = "handle"
  BY <1>1, <1>3 DEF AuditInv, TypeOK, AuditTypeOK, SqsTypeOK
<1>5. AuditTypeOK'
  BY <1>2, <1>3, <1>4 DEF AuditInv, TypeOK, AuditTypeOK, NoRecords
<1>6. RecordsConserved'
  BY <1>3 DEF AuditInv, RecordsConserved, InMemory
<1> QED BY <1>5, <1>6 DEF AuditInv, TypeOK

\* Handle adds one record to the buffer and to the account.
LEMMA AppendConserves ==
  ASSUME AuditInv, SqsTypeOK', NEW t \in Tasks, Append(t)
  PROVE  AuditInv'
<1>0. PICK rec \in [Messages -> Nat] : /\ buffer' = [buffer EXCEPT ![t] = Plus(@, rec)]
                                      /\ appended' = [appended EXCEPT ![t] = Plus(@, rec)]
  BY DEF Append, One, Counts
<1> DEFINE b == Plus(buffer[t], rec)
           a == Plus(appended[t], rec)
<1>1. /\ b \in Counts /\ a \in Counts
      /\ \A m \in Messages : b[m] = buffer[t][m] + rec[m] /\ a[m] = appended[t][m] + rec[m]
  <2>1. rec \in Counts
    BY DEF Counts
  <2> QED BY <2>1, Account, PlusTyped
<1>2. /\ buffer' = [buffer EXCEPT ![t] = b]
      /\ appended' = [appended EXCEPT ![t] = a]
      /\ taken' = taken /\ stored' = stored /\ lost' = lost /\ twice' = twice /\ tstep' = tstep
      /\ hstep[t] = "append"
      /\ \/ hstep' = [hstep EXCEPT ![t] = "swap"] /\ pc' = pc
         \/ hstep' = [hstep EXCEPT ![t] = "idle"] /\ pc' = [pc EXCEPT ![t] = "delete"]
  BY <1>0 DEF Append, HandleOk, sqsVars
<1> HIDE DEF b, a
<1>3. /\ buffer' \in [Tasks -> Counts] /\ buffer'[t] = b
      /\ appended' \in [Tasks -> Counts] /\ appended'[t] = a
      /\ taken' \in [Tasks -> [Goroutines -> Counts]] /\ stored' \in [Tasks -> Counts]
      /\ lost' \in [Tasks -> Counts] /\ twice' \in [Tasks -> Counts]
      /\ \A u \in Tasks \ {t} : buffer'[u] = buffer[u] /\ appended'[u] = appended[u]
  BY <1>1, <1>2 DEF AuditInv, TypeOK, AuditTypeOK, Counts
<1>4. ASSUME NEW m \in Messages
      PROVE  stored'[t][m] + (buffer'[t][m] + taken'[t]["consumer"][m] + taken'[t]["ticker"][m])
               + lost'[t][m] = appended'[t][m] + twice'[t][m]
  <2>1. /\ stored'[t][m] = stored[t][m] /\ lost'[t][m] = lost[t][m] /\ twice'[t][m] = twice[t][m]
        /\ taken'[t]["consumer"][m] = taken[t]["consumer"][m]
        /\ taken'[t]["ticker"][m] = taken[t]["ticker"][m]
        /\ buffer'[t][m] = buffer[t][m] + rec[m] /\ appended'[t][m] = appended[t][m] + rec[m]
    BY <1>1, <1>2, <1>3
  <2>2. /\ stored[t][m] \in Nat /\ buffer[t][m] \in Nat /\ lost[t][m] \in Nat
        /\ taken[t]["consumer"][m] \in Nat /\ taken[t]["ticker"][m] \in Nat
        /\ appended[t][m] \in Nat /\ twice[t][m] \in Nat /\ rec[m] \in Nat
        /\ stored[t][m] + (buffer[t][m] + taken[t]["consumer"][m] + taken[t]["ticker"][m])
              + lost[t][m] = appended[t][m] + twice[t][m]
    BY <1>1, Account DEF Counts
  <2> QED BY <2>1, <2>2
<1>5. /\ hstep' \in [Tasks -> {"idle", "append", "swap", "put"}]
      /\ hstep'[t] \in {"swap", "idle"}
      /\ \A u \in Tasks \ {t} : hstep'[u] = hstep[u] /\ pc'[u] = pc[u]
  <2>1. /\ hstep \in [Tasks -> {"idle", "append", "swap", "put"}]
        /\ pc \in [Tasks -> {"loop", "handle", "delete", "down"}]
    BY DEF AuditInv, TypeOK, AuditTypeOK, SqsTypeOK
  <2> QED BY <1>2, <2>1
<1>6. hstep'[t] # "idle" => pc'[t] = "handle"
  BY <1>2 DEF AuditInv, TypeOK, AuditTypeOK
<1>7. /\ taken'[t]["consumer"] # NoRecords <=> hstep'[t] = "put"
      /\ taken'[t]["ticker"] # NoRecords <=> tstep'[t] \in {"put", "finalPut"}
      /\ tstep' \in [Tasks -> {"wait", "put", "finalPut", "returned"}]
  BY <1>2, <1>5 DEF AuditInv, TypeOK, AuditTypeOK
<1> QED BY <1>2, <1>3, <1>4, <1>5, <1>6, <1>7, OneTaskChanges

\* A goroutine that finds the buffer empty returns without a batch.
LEMMA EmptyFlushConserves ==
  ASSUME AuditInv, SqsTypeOK', NEW t \in Tasks,
         UNCHANGED <<buffer, taken, stored, lost, appended, twice>>,
         \/ /\ hstep[t] = "swap" /\ hstep' = [hstep EXCEPT ![t] = "idle"]
            /\ HandleOk(t) /\ UNCHANGED tstep
         \/ /\ tstep[t] = "wait" /\ tstep' = [tstep EXCEPT ![t] = "returned"]
            /\ UNCHANGED <<sqsVars, hstep>>
  PROVE  AuditInv'
<1>1. \/ /\ hstep[t] = "swap" /\ hstep' = [hstep EXCEPT ![t] = "idle"]
         /\ pc' = [pc EXCEPT ![t] = "delete"] /\ tstep' = tstep
      \/ /\ tstep[t] = "wait" /\ tstep' = [tstep EXCEPT ![t] = "returned"]
         /\ pc' = pc /\ hstep' = hstep
  BY DEF HandleOk, sqsVars
<1>2. \A u \in Tasks : hstep'[u] # "idle" => pc'[u] = "handle"
  BY <1>1 DEF AuditInv, TypeOK, AuditTypeOK, SqsTypeOK
<1>3. /\ hstep' \in [Tasks -> {"idle", "append", "swap", "put"}]
      /\ tstep' \in [Tasks -> {"wait", "put", "finalPut", "returned"}]
      /\ \A u \in Tasks : /\ hstep'[u] = "put" <=> hstep[u] = "put"
                          /\ tstep'[u] \in {"put", "finalPut"} <=> tstep[u] \in {"put", "finalPut"}
  BY <1>1 DEF AuditInv, TypeOK, AuditTypeOK
<1>4. AuditTypeOK'
  BY <1>2, <1>3 DEF AuditInv, TypeOK, AuditTypeOK, NoRecords
<1>5. RecordsConserved'
  BY DEF AuditInv, RecordsConserved, InMemory
<1> QED BY <1>4, <1>5 DEF AuditInv, TypeOK

\* What a process held when it ended is lost, but for the batches that still
\* arrive.
LEMMA EndConserves ==
  ASSUME AuditInv, SqsTypeOK', NEW t \in Tasks, ProcessEnds(t), Down(t)
  PROVE  AuditInv'
<1> DEFINE c == taken[t]["consumer"]
           k == taken[t]["ticker"]
<1>1. PICK sc \in {NoRecords, c}, sk \in {NoRecords, k} :
        /\ stored' = [stored EXCEPT ![t] = Plus(@, Plus(sc, sk))]
        /\ lost' = [lost EXCEPT ![t] =
                      Plus(@, Plus(buffer[t], Plus(IF sc = NoRecords THEN c ELSE NoRecords,
                                                   IF sk = NoRecords THEN k ELSE NoRecords)))]
  <2>1. PICK landed \in SUBSET Goroutines :
          LET Batch(g) == IF g \in landed THEN taken[t][g] ELSE NoRecords
              Rest(g)  == IF g \in landed THEN NoRecords ELSE taken[t][g]
          IN  /\ stored' = [stored EXCEPT ![t] = Plus(@, Plus(Batch("consumer"), Batch("ticker")))]
              /\ lost' = [lost EXCEPT ![t] =
                            Plus(@, Plus(buffer[t], Plus(Rest("consumer"), Rest("ticker"))))]
    BY DEF ProcessEnds
  <2> DEFINE sc == IF "consumer" \in landed THEN c ELSE NoRecords
             sk == IF "ticker" \in landed THEN k ELSE NoRecords
  <2>2. /\ sc \in {NoRecords, c} /\ sk \in {NoRecords, k}
        /\ (IF "consumer" \in landed THEN NoRecords ELSE c)
              = (IF sc = NoRecords THEN c ELSE NoRecords)
        /\ (IF "ticker" \in landed THEN NoRecords ELSE k)
              = (IF sk = NoRecords THEN k ELSE NoRecords)
    OBVIOUS
  <2> QED BY <2>1, <2>2
<1> DEFINE rc == IF sc = NoRecords THEN c ELSE NoRecords
           rk == IF sk = NoRecords THEN k ELSE NoRecords
           s == Plus(stored[t], Plus(sc, sk))
           l == Plus(lost[t], Plus(buffer[t], Plus(rc, rk)))
<1>2. /\ sc \in Counts /\ sk \in Counts /\ rc \in Counts /\ rk \in Counts
      /\ \A m \in Messages : sc[m] + rc[m] = c[m] /\ sk[m] + rk[m] = k[m]
  <2>1. c \in Counts /\ k \in Counts
    BY Account
  <2>2. \A m \in Messages : c[m] \in Nat /\ k[m] \in Nat
    BY <2>1 DEF Counts
  <2> HIDE DEF c, k
  <2> QED BY <2>1, <2>2, SmallCounts
<1>3. /\ s \in Counts /\ l \in Counts
      /\ \A m \in Messages : /\ s[m] = stored[t][m] + (sc[m] + sk[m])
                              /\ l[m] = lost[t][m] + (buffer[t][m] + (rc[m] + rk[m]))
  <2> HIDE DEF rc, rk, c, k
  <2>1. Plus(sc, sk) \in Counts /\ \A m \in Messages : Plus(sc, sk)[m] = sc[m] + sk[m]
    BY <1>2, PlusTyped
  <2>2. Plus(rc, rk) \in Counts /\ \A m \in Messages : Plus(rc, rk)[m] = rc[m] + rk[m]
    BY <1>2, PlusTyped
  <2>3. /\ Plus(buffer[t], Plus(rc, rk)) \in Counts
        /\ \A m \in Messages :
             Plus(buffer[t], Plus(rc, rk))[m] = buffer[t][m] + Plus(rc, rk)[m]
    BY <2>2, Account, PlusTyped
  <2>4. s \in Counts /\ \A m \in Messages : s[m] = stored[t][m] + Plus(sc, sk)[m]
    BY <2>1, Account, PlusTyped
  <2>5. /\ l \in Counts
        /\ \A m \in Messages : l[m] = lost[t][m] + Plus(buffer[t], Plus(rc, rk))[m]
    BY <2>3, Account, PlusTyped
  <2> HIDE DEF s, l
  <2> QED BY <2>1, <2>2, <2>3, <2>4, <2>5
<1>4. stored' = [stored EXCEPT ![t] = s] /\ lost' = [lost EXCEPT ![t] = l]
  BY <1>1
<1> HIDE DEF rc, rk, c, k, s, l
<1>5. /\ stored' \in [Tasks -> Counts] /\ stored'[t] = s
      /\ lost' \in [Tasks -> Counts] /\ lost'[t] = l
      /\ \A u \in Tasks \ {t} : stored'[u] = stored[u] /\ lost'[u] = lost[u]
  BY <1>3, <1>4 DEF AuditInv, TypeOK, AuditTypeOK, Counts
<1>6. /\ buffer' \in [Tasks -> Counts] /\ buffer'[t] = NoRecords
      /\ \A u \in Tasks \ {t} : buffer'[u] = buffer[u]
  BY SmallCounts DEF ProcessEnds, AuditInv, TypeOK, AuditTypeOK, Counts
<1>7. /\ taken' \in [Tasks -> [Goroutines -> Counts]]
      /\ \A u \in Tasks \ {t} : taken'[u] = taken[u]
      /\ taken'[t]["consumer"] = NoRecords /\ taken'[t]["ticker"] = NoRecords
  BY SmallCounts DEF ProcessEnds, AuditInv, TypeOK, AuditTypeOK, Counts, Goroutines
<1>8. /\ appended' = appended /\ twice' = twice
      /\ appended \in [Tasks -> Counts] /\ twice \in [Tasks -> Counts]
  BY DEF ProcessEnds, AuditInv, TypeOK, AuditTypeOK, Counts
<1>9. ASSUME NEW m \in Messages
      PROVE  stored'[t][m] + (buffer'[t][m] + taken'[t]["consumer"][m] + taken'[t]["ticker"][m])
               + lost'[t][m] = appended'[t][m] + twice'[t][m]
  <2>1. /\ stored'[t][m] = stored[t][m] + (sc[m] + sk[m])
        /\ lost'[t][m] = lost[t][m] + (buffer[t][m] + (rc[m] + rk[m]))
        /\ appended'[t][m] = appended[t][m] /\ twice'[t][m] = twice[t][m]
        /\ buffer'[t][m] = 0 /\ taken'[t]["consumer"][m] = 0 /\ taken'[t]["ticker"][m] = 0
    BY <1>3, <1>5, <1>6, <1>7, <1>8, SmallCounts
  <2>2. /\ sc[m] \in Nat /\ sk[m] \in Nat /\ rc[m] \in Nat /\ rk[m] \in Nat
        /\ sc[m] + rc[m] = c[m] /\ sk[m] + rk[m] = k[m]
    BY <1>2 DEF Counts
  <2>3. /\ stored[t][m] \in Nat /\ buffer[t][m] \in Nat /\ lost[t][m] \in Nat
        /\ appended[t][m] \in Nat /\ twice[t][m] \in Nat
        /\ stored[t][m] + (buffer[t][m] + c[m] + k[m]) + lost[t][m] = appended[t][m] + twice[t][m]
    BY Account DEF Counts, c, k
  <2> QED BY <2>1, <2>2, <2>3
<1>10. /\ hstep' \in [Tasks -> {"idle", "append", "swap", "put"}]
       /\ tstep' \in [Tasks -> {"wait", "put", "finalPut", "returned"}]
       /\ hstep'[t] = "idle" /\ tstep'[t] = "wait"
       /\ \A u \in Tasks \ {t} : hstep'[u] = hstep[u] /\ tstep'[u] = tstep[u] /\ pc'[u] = pc[u]
  BY DEF ProcessEnds, Down, AuditInv, TypeOK, AuditTypeOK, SqsTypeOK
<1> QED BY <1>5, <1>6, <1>7, <1>8, <1>9, <1>10, OneTaskChanges

-----------------------------------------------------------------------------
\* A step of Handle or of the ticker's goroutine keeps the accounts.
LEMMA GoroutineConserves ==
  ASSUME AuditInv, SqsTypeOK', NEW t \in Tasks, Handle(t) \/ Start(t)
  PROVE  AuditInv'
<1>1. CASE Append(t)
  BY <1>1, AppendConserves
<1>2. CASE HandleSwap(t)
  <2>1. CASE buffer[t] = NoRecords
    <3>1. HandleOk(t)
      BY <1>2, <2>1 DEF HandleSwap
    <3> QED BY <1>2, <2>1, <3>1, EmptyFlushConserves DEF HandleSwap
  <2>2. CASE buffer[t] # NoRecords
    <3>1. UNCHANGED sqsVars
      BY <1>2, <2>2 DEF HandleSwap
    <3> QED BY <1>2, <2>2, <3>1, SwapConserves DEF HandleSwap, Goroutines
  <2> QED BY <2>1, <2>2
<1>3. CASE HandlePutOk(t)
  <2>1. FlushEnds(t, "consumer")
    BY <1>3 DEF HandlePutOk, FlushEnds
  <2> QED BY <1>3, <2>1, StoresConserves DEF HandlePutOk, Goroutines
<1>4. CASE HandlePutFails(t)
  <2>1. FlushEnds(t, "consumer")
    BY <1>4 DEF HandlePutFails, FlushEnds
  <2> QED BY <1>4, <2>1, PutsBackConserves DEF HandlePutFails, Goroutines
<1>5. CASE Tick(t)
  <2>1. UNCHANGED sqsVars /\ tstep' = [tstep EXCEPT ![t] = "put"]
    BY <1>5 DEF Tick
  <2> QED BY <1>5, <2>1, SwapConserves DEF Tick, Goroutines
<1>6. CASE FinalFlush(t)
  <2>1. UNCHANGED sqsVars
    BY <1>6 DEF FinalFlush
  <2>2. CASE buffer[t] = NoRecords
    BY <1>6, <2>1, <2>2, EmptyFlushConserves DEF FinalFlush
  <2>3. CASE buffer[t] # NoRecords
    BY <1>6, <2>1, <2>3, SwapConserves DEF FinalFlush, Goroutines
  <2> QED BY <2>2, <2>3
<1>7. CASE TickerPutOk(t)
  <2>1. FlushEnds(t, "ticker")
    BY <1>7 DEF TickerPutOk, FlushEnds
  <2> QED BY <1>7, <2>1, StoresConserves DEF TickerPutOk, Goroutines
<1>8. CASE TickerPutFails(t)
  <2>1. FlushEnds(t, "ticker")
    BY <1>8 DEF TickerPutFails, FlushEnds
  <2> QED BY <1>8, <2>1, PutsBackConserves DEF TickerPutFails, Goroutines
<1> QED BY <1>1, <1>2, <1>3, <1>4, <1>5, <1>6, <1>7, <1>8 DEF Handle, Start

\* Every step of the audit service keeps the accounts.
LEMMA AuditInvStep == ASSUME AuditInv, [Next]_vars PROVE AuditInv'
<1>1. SqsTypeOK'
  BY AuditStepIsSqsStep, SqsTypeStep DEF AuditInv, TypeOK
<1>2. \A u \in Tasks : hstep[u] # "idle" => pc[u] = "handle"
  BY DEF AuditInv, TypeOK, AuditTypeOK
<1>3. ASSUME NEW m \in Messages, TimesOut(m) \/ DeadLetters(m) PROVE AuditInv'
  <2>1. UNCHANGED auditVars /\ pc' = pc
    BY <1>3 DEF TimesOut, DeadLetters, VisibilityTimeout, Redrive, taskVars
  <2> QED BY <1>1, <2>1, OtherStepConserves
<1>4. ASSUME NEW t \in Tasks, \/ Receives(t) \/ Deletes(t) \/ Cancels(t) \/ Restarts(t)
      PROVE  AuditInv'
  <2>1. UNCHANGED auditVars
    BY <1>4 DEF Receives, Deletes, Cancels, Restarts
  <2>2. \/ pc' = pc
        \/ pc[t] \in {"delete", "down"} /\ pc' = [pc EXCEPT ![t] = "loop"]
    BY <1>4 DEF Receives, Deletes, Cancels, Restarts, Receive, Delete, Cancel, Restart
  <2>3. \A u \in Tasks : hstep[u] # "idle" => pc'[u] = pc[u]
    BY <1>2, <2>2 DEF AuditInv, TypeOK, SqsTypeOK
  <2> QED BY <1>1, <2>1, <2>3, OtherStepConserves
<1>5. ASSUME NEW t \in Tasks, Begin(t) PROVE AuditInv'
  BY <1>1, <1>5, BeginConserves
<1>6. ASSUME NEW t \in Tasks, Handle(t) \/ Start(t) PROVE AuditInv'
  BY <1>1, <1>6, GoroutineConserves
<1>7. ASSUME NEW t \in Tasks, MainReturns(t) \/ Kill(t) PROVE AuditInv'
  BY <1>1, <1>7, EndConserves DEF MainReturns, Kill, Stop, Crash
<1>8. CASE UNCHANGED vars
  BY <1>1, <1>8, OtherStepConserves DEF vars, sqsVars
<1> QED BY <1>3, <1>4, <1>5, <1>6, <1>7, <1>8 DEF Next

\* Nothing has been appended before the first message is handled.
LEMMA AuditInvInit == Init => AuditInv
<1> SUFFICES ASSUME Init PROVE AuditInv
  OBVIOUS
<1>1. SqsTypeOK
  BY QueueAssumption, NoReceiptIsNone DEF Init, SqsInit, SqsTypeOK, MStates
<1>2. AuditTypeOK
  BY DEF Init, AuditTypeOK, Nowhere, NoRecords, Goroutines
<1>3. RecordsConserved
  BY DEF Init, RecordsConserved, InMemory, Nowhere, NoRecords, Goroutines
<1> QED BY <1>1, <1>2, <1>3 DEF AuditInv, TypeOK

\* The state of the service stays well typed, and each goroutine holds a batch
\* exactly while it is writing one.
THEOREM AuditTypeCorrect == Spec => []TypeOK
<1>1. AuditInv => TypeOK
  BY DEF AuditInv
<1> QED BY <1>1, AuditInvInit, AuditInvStep, PTL DEF Spec

\* No record is dropped or copied by the two goroutines, however their swaps,
\* writes and failures interleave: each is in S3, in memory, or was in the
\* memory of a process that ended.
THEOREM RecordsAccountedFor == Spec => []RecordsConserved
<1>1. AuditInv => RecordsConserved
  BY DEF AuditInv
<1> QED BY <1>1, AuditInvInit, AuditInvStep, PTL DEF Spec
=============================================================================
