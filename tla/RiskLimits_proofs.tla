------------------------- MODULE RiskLimits_proofs -------------------------
(***************************************************************************)
(* What RiskMonitor's totals and slices mean in money: the sums approved   *)
(* stay within the daily limit, the totals of both regions cover them, and *)
(* no total is without a TTL.  For any number of tasks, transactions,      *)
(* users, regions and expiries; each theorem states the modes and the      *)
(* faults it is about.                                                     *)
(***************************************************************************)
EXTENDS RiskMonitor_proofs, WellFoundedInduction

-----------------------------------------------------------------------------
(* Sums of amounts.  SumOf is a fold over a finite set, defined by CHOOSE  *)
(* of a recursive function; that the function exists, and what it returns, *)
(* is shown by looking at a smallest counterexample.                       *)

\* A family of subsets of a finite set has a member that includes no other.
LEMMA SmallestMember ==
  ASSUME NEW S, IsFiniteSet(S), NEW C, C \subseteq SUBSET S, C # {}
  PROVE  \E s \in C : \A r \in C : r \subseteq s => r = s
<1>1. IsWellFoundedOn(StrictSubsetOrdering(S), SUBSET S)
  BY FS_StrictSubsetOrderingWellFounded, FS_FiniteSubsetsOfFinite
<1>2. PICK s \in C : \A r \in C : <<r, s>> \notin StrictSubsetOrdering(S)
  BY <1>1, WFMin
<1> QED BY <1>2 DEF StrictSubsetOrdering

\* The function by which FoldFunctionOnSet sums Amount over the subsets of S.
IsSummation(S, g) ==
  g = [s \in SUBSET S |-> IF s = {} THEN 0
                          ELSE LET x == CHOOSE x \in s : TRUE IN Amount[x] + g[s \ {x}]]

\* That function, if there is one.
Summation(S) == CHOOSE g : IsSummation(S, g)

\* SumOf is the value of that function at the whole set, by definition.
LEMMA SumIsSummation == ASSUME NEW S PROVE SumOf(S) = Summation(S)[S]
BY DEF SumOf, FoldFunctionOnSet, MapThenFoldSet, Summation, IsSummation

\* Two such functions agree wherever both are defined: on a smallest set where
\* they differ they take out the same element and agree on what is left.
LEMMA SummationUnique ==
  ASSUME NEW S, NEW T, IsFiniteSet(S), NEW g, NEW h,
         IsSummation(S, g), IsSummation(T, h), NEW s, s \subseteq S, s \subseteq T
  PROVE  g[s] = h[s]
<1> SUFFICES ASSUME g[s] # h[s] PROVE FALSE
  OBVIOUS
<1> DEFINE C == {r \in SUBSET S : r \subseteq T /\ g[r] # h[r]}
<1>1. PICK m \in C : \A r \in C : r \subseteq m => r = m
  <2>1. C \subseteq SUBSET S /\ C # {}
    OBVIOUS
  <2> HIDE DEF C
  <2> QED BY <2>1, SmallestMember
<1>2. m # {}
  BY DEF IsSummation
<1> DEFINE x == CHOOSE x \in m : TRUE
<1>3. x \in m
  BY <1>2
<1>4. g[m \ {x}] = h[m \ {x}]
  BY <1>1, <1>3
<1>5. g[m] = Amount[x] + g[m \ {x}] /\ h[m] = Amount[x] + h[m \ {x}]
  BY <1>2 DEF IsSummation
<1> QED BY <1>1, <1>4, <1>5

\* The function exists: for a smallest set without one, those of its proper
\* subsets can be put together into one.
LEMMA SummationExists ==
  ASSUME NEW S, IsFiniteSet(S)
  PROVE  IsSummation(S, Summation(S))
<1> SUFFICES ASSUME ~ \E g : IsSummation(S, g) PROVE FALSE
  BY DEF Summation
<1> DEFINE C == {T \in SUBSET S : ~ \E g : IsSummation(T, g)}
<1>1. PICK m \in C : \A r \in C : r \subseteq m => r = m
  <2>1. C \subseteq SUBSET S /\ C # {}
    OBVIOUS
  <2> HIDE DEF C
  <2> QED BY <2>1, SmallestMember
<1> DEFINE g == [s \in SUBSET m |->
                   IF s = {} THEN 0
                   ELSE LET x == CHOOSE x \in s : TRUE IN
                        Amount[x] + Summation(s \ {x})[s \ {x}]]
<1>2. ASSUME NEW T, T \subseteq m, T # m PROVE IsSummation(T, Summation(T))
  <2>1. \E h : IsSummation(T, h)
    BY <1>1, <1>2
  <2> QED BY <2>1 DEF Summation
<1>3. ASSUME NEW T, T \subseteq m, T # m PROVE g[T] = Summation(T)[T]
  <2>1. IsSummation(T, Summation(T))
    BY <1>2, <1>3
  <2>2. CASE T = {}
    BY <2>1, <2>2 DEF IsSummation
  <2>3. CASE T # {}
    <3> DEFINE x == CHOOSE x \in T : TRUE
               R == T \ {x}
    <3>1. x \in T /\ R \subseteq m /\ R # m
      BY <1>3, <2>3
    <3>2. IsSummation(R, Summation(R))
      BY <1>2, <3>1
    <3>3. IsFiniteSet(T)
      BY <1>1, <1>3, FS_Subset
    <3>4. Summation(T)[R] = Summation(R)[R]
      BY <2>1, <3>2, <3>3, SummationUnique
    <3>5. Summation(T)[T] = Amount[x] + Summation(T)[R]
      BY <2>1, <2>3 DEF IsSummation
    <3>6. g[T] = Amount[x] + Summation(R)[R]
      BY <1>3, <2>3
    <3> QED BY <3>4, <3>5, <3>6
  <2> QED BY <2>2, <2>3
<1>4. IsSummation(m, g)
  <2>1. ASSUME NEW s \in SUBSET m
        PROVE  g[s] = IF s = {} THEN 0
                      ELSE LET x == CHOOSE x \in s : TRUE IN Amount[x] + g[s \ {x}]
    <3>1. CASE s = {}
      BY <3>1
    <3>2. CASE s # {}
      <4> DEFINE x == CHOOSE x \in s : TRUE
      <4>1. s \ {x} \subseteq m /\ s \ {x} # m
        BY <3>2
      <4>2. g[s \ {x}] = Summation(s \ {x})[s \ {x}]
        BY <1>3, <4>1
      <4>3. g[s] = Amount[x] + Summation(s \ {x})[s \ {x}]
        BY <3>2
      <4> HIDE DEF g
      <4> QED BY <3>2, <4>2, <4>3
    <3> QED BY <3>1, <3>2
  <2>2. g = [s \in SUBSET m |-> g[s]]
    OBVIOUS
  <2> HIDE DEF g
  <2> QED BY <2>1, <2>2 DEF IsSummation
<1> QED BY <1>1, <1>4

\* An amount is a positive number.
LEMMA AmountsArePositive == \A m \in Messages : Amount[m] \in Nat /\ Amount[m] > 0
BY RiskAssumption

\* The empty sum is 0.
LEMMA SumOfNone == SumOf({}) = 0
<1>1. IsSummation({}, Summation({}))
  BY SummationExists, FS_EmptySet
<1> QED BY <1>1, SumIsSummation DEF IsSummation

\* The element that CHOOSE picks can be taken out of a sum.
LEMMA SumUnfolds ==
  ASSUME NEW S, IsFiniteSet(S), S # {}
  PROVE  \E x \in S : SumOf(S) = Amount[x] + SumOf(S \ {x})
<1> DEFINE x == CHOOSE x \in S : TRUE
           R == S \ {x}
<1>1. IsFiniteSet(R) /\ x \in S
  BY FS_Subset
<1>2. IsSummation(S, Summation(S)) /\ IsSummation(R, Summation(R))
  BY <1>1, SummationExists
<1>3. Summation(S)[R] = Summation(R)[R]
  BY <1>2, SummationUnique
<1>4. Summation(S)[S] = Amount[x] + Summation(S)[R]
  BY <1>2 DEF IsSummation
<1> QED BY <1>1, <1>3, <1>4, SumIsSummation

\* Amounts add up to a natural number.
LEMMA SumIsNat ==
  ASSUME NEW S, IsFiniteSet(S), S \subseteq Messages
  PROVE  SumOf(S) \in Nat
<1> SUFFICES ASSUME SumOf(S) \notin Nat PROVE FALSE
  OBVIOUS
<1> DEFINE C == {s \in SUBSET S : SumOf(s) \notin Nat}
<1>1. PICK m \in C : \A r \in C : r \subseteq m => r = m
  <2>1. C \subseteq SUBSET S /\ C # {}
    OBVIOUS
  <2> HIDE DEF C
  <2> QED BY <2>1, SmallestMember
<1>2. m # {} /\ IsFiniteSet(m)
  <2>1. m \subseteq S /\ SumOf(m) \notin Nat
    OBVIOUS
  <2>2. IsFiniteSet(m)
    BY <2>1, FS_Subset
  <2>3. CASE m = {}
    BY <2>1, <2>3, SumOfNone
  <2> QED BY <2>2, <2>3
<1>3. PICK x \in m : SumOf(m) = Amount[x] + SumOf(m \ {x})
  BY <1>2, SumUnfolds
<1>4. SumOf(m \ {x}) \in Nat
  BY <1>1
<1> QED BY <1>1, <1>3, <1>4, AmountsArePositive

\* Any element can be taken out of a sum, not only the chosen one: in a smallest
\* set where y cannot, the chosen c can, then y from the rest, and the other way
\* round.
LEMMA SumWithout ==
  ASSUME NEW S, IsFiniteSet(S), S \subseteq Messages, NEW x \in S
  PROVE  SumOf(S) = Amount[x] + SumOf(S \ {x})
<1> DEFINE Splits(s, y) == SumOf(s) = Amount[y] + SumOf(s \ {y})
           C == {s \in SUBSET S : \E y \in s : ~Splits(s, y)}
<1> SUFFICES ASSUME C # {} PROVE FALSE
  OBVIOUS
<1>1. PICK m \in C : \A r \in C : r \subseteq m => r = m
  <2>1. C \subseteq SUBSET S /\ C # {}
    OBVIOUS
  <2> HIDE DEF C
  <2> QED BY <2>1, SmallestMember
<1>2. PICK y \in m : ~Splits(m, y)
  BY <1>1
<1>3. IsFiniteSet(m)
  BY FS_Subset
<1>4. PICK c \in m : Splits(m, c)
  BY <1>3, SumUnfolds
<1>5. c # y
  BY <1>2, <1>4
<1>6. Splits(m \ {c}, y) /\ Splits(m \ {y}, c)
  <2>1. ASSUME NEW r \in SUBSET S, r \subseteq m, r # m, NEW z \in r PROVE Splits(r, z)
    BY <1>1, <2>1
  <2>2. m \ {c} \in SUBSET S /\ m \ {y} \in SUBSET S
    OBVIOUS
  <2> HIDE DEF Splits, C
  <2> QED BY <1>5, <2>1, <2>2
<1>7. SumOf((m \ {c}) \ {y}) = SumOf((m \ {y}) \ {c})
  <2>1. (m \ {c}) \ {y} = (m \ {y}) \ {c}
    OBVIOUS
  <2> QED BY ONLY <2>1
<1>8. SumOf((m \ {y}) \ {c}) \in Nat /\ Amount[c] \in Nat /\ Amount[y] \in Nat
  <2> DEFINE R == (m \ {y}) \ {c}
  <2>1. R \subseteq m /\ m \subseteq Messages /\ c \in Messages /\ y \in Messages
    OBVIOUS
  <2>2. IsFiniteSet(R)
    BY <1>3, FS_Subset
  <2> HIDE DEF C, R
  <2>3. SumOf(R) \in Nat
    BY <2>1, <2>2, SumIsNat
  <2> QED BY <2>1, <2>3, AmountsArePositive DEF R
<1> HIDE DEF C
<1> QED BY <1>2, <1>4, <1>6, <1>7, <1>8

\* One more element adds at most its amount.
LEMMA SumWith ==
  ASSUME NEW S, IsFiniteSet(S), S \subseteq Messages, NEW x \in Messages
  PROVE  SumOf(S \cup {x}) <= SumOf(S) + Amount[x]
<1>1. CASE x \in S
  <2>1. SumOf(S \cup {x}) = SumOf(S)
    <3>1. S \cup {x} = S
      BY <1>1
    <3> QED BY ONLY <3>1
  <2>2. SumOf(S) \in Nat /\ Amount[x] \in Nat
    BY SumIsNat, AmountsArePositive
  <2> QED BY <2>1, <2>2
<1>2. CASE x \notin S
  <2>1. IsFiniteSet(S \cup {x})
    BY FS_AddElement
  <2>2. (S \cup {x}) \ {x} = S /\ S \cup {x} \subseteq Messages /\ x \in S \cup {x}
    BY <1>2
  <2>3. SumOf(S \cup {x}) = Amount[x] + SumOf(S)
    BY <2>1, <2>2, SumWithout
  <2> QED BY <2>3, SumIsNat, AmountsArePositive
<1> QED BY <1>1, <1>2

\* A subset adds up to no more than the set.
LEMMA SumMonotone ==
  ASSUME NEW T, IsFiniteSet(T), T \subseteq Messages, NEW S, S \subseteq T
  PROVE  SumOf(S) <= SumOf(T)
<1> DEFINE C == {s \in SUBSET T : S \subseteq s /\ ~(SumOf(S) <= SumOf(s))}
<1> SUFFICES ASSUME C # {} PROVE FALSE
  OBVIOUS
<1>1. PICK m \in C : \A r \in C : r \subseteq m => r = m
  <2>1. C \subseteq SUBSET T /\ C # {}
    OBVIOUS
  <2> HIDE DEF C
  <2> QED BY <2>1, SmallestMember
<1>2. IsFiniteSet(m) /\ IsFiniteSet(S)
  BY FS_Subset
<1>3. SumOf(S) \in Nat
  BY <1>2, SumIsNat
<1>4. m # S
  BY <1>3
<1>5. PICK x \in m : x \notin S
  BY <1>4
<1>6. SumOf(m) = Amount[x] + SumOf(m \ {x})
  BY <1>2, SumWithout
<1>7. SumOf(S) <= SumOf(m \ {x})
  BY <1>1, <1>5
<1>8. SumOf(m \ {x}) \in Nat /\ Amount[x] \in Nat
  BY <1>2, FS_Subset, SumIsNat, AmountsArePositive
<1> QED BY <1>1, <1>3, <1>6, <1>7, <1>8

\* The transactions that a set of slices belongs to.
TxsOf(A) == {a.tx : a \in A}

\* They are no more than the slices.
LEMMA TxsFinite == ASSUME NEW A, IsFiniteSet(A) PROVE IsFiniteSet(TxsOf(A))
<1> DEFINE f == [a \in A |-> a.tx]
<1>1. f \in Surjection(A, TxsOf(A))
  BY DEF Surjection, TxsOf
<1> QED BY <1>1, FS_Surjection

\* Of slices that end at n or below, one ends last.
LEMMA TopSlice ==
  ASSUME NEW A, A # {}, A \subseteq Slices, NEW n \in Nat, \A a \in A : a.hi <= n
  PROVE  \E a \in A : \A b \in A : b.hi <= a.hi
<1> DEFINE Gaps == {n - a.hi : a \in A}
<1>1. \A a \in A : a.hi \in Nat /\ n - a.hi \in Nat
  BY DEF Slices
<1>2. Gaps \subseteq Nat /\ Gaps # {}
  BY <1>1
<1>3. PICK g \in Gaps : \A h \in Gaps : <<h, g>> \notin OpToRel(<, Nat)
  <2> HIDE DEF Gaps
  <2> QED BY <1>2, NatLessThanWellFounded, WFMin
<1>4. \A h \in Gaps : ~(h < g)
  BY <1>2, <1>3 DEF OpToRel
<1>5. PICK a \in A : g = n - a.hi
  BY <1>3
<1>6. ASSUME NEW b \in A PROVE b.hi <= a.hi
  <2>1. n - b.hi \in Gaps
    OBVIOUS
  <2> HIDE DEF Gaps
  <2> QED BY <1>1, <1>4, <1>5, <2>1
<1> QED BY <1>6

\* Slices that share nothing and end at n or below add up to at most n: the last
\* one takes its amount off n, and the others end where it begins.
LEMMA DisjointSlicesFit ==
  ASSUME NEW A, IsFiniteSet(A), A \subseteq Slices,
         \A a \in A : a.hi = a.lo + Amount[a.tx],
         \A a, b \in A : a # b => Disjoint(a, b),
         NEW n \in Nat, \A a \in A : a.hi <= n
  PROVE  SumOf(TxsOf(A)) <= n
<1> DEFINE Over(B, k) == (\A b \in B : b.hi <= k) /\ ~(SumOf(TxsOf(B)) <= k)
           C == {B \in SUBSET A : \E k \in Nat : Over(B, k)}
<1> SUFFICES ASSUME C # {} PROVE FALSE
  OBVIOUS
<1>1. PICK B \in C : \A D \in C : D \subseteq B => D = B
  <2>1. C \subseteq SUBSET A
    OBVIOUS
  <2> HIDE DEF C
  <2> QED BY <2>1, SmallestMember
<1>2. B \subseteq A /\ IsFiniteSet(B) /\ \A D \in SUBSET A : D \subseteq B /\ D # B => D \notin C
  BY <1>1, FS_Subset
<1>3. PICK k \in Nat : Over(B, k)
  OBVIOUS
<1> HIDE DEF C
<1>4. B # {}
  <2>1. CASE B = {}
    <3>1. TxsOf(B) = {}
      BY <2>1 DEF TxsOf
    <3> QED BY <1>3, <3>1, SumOfNone
  <2> QED BY <2>1
<1>5. PICK top \in B : \A b \in B : b.hi <= top.hi
  <2>1. B \subseteq Slices
    BY <1>2
  <2> QED BY <1>3, <1>4, <2>1, TopSlice
<1> DEFINE D == B \ {top}
<1>6. /\ top.lo \in Nat /\ top.hi \in Nat /\ top.tx \in Messages /\ Amount[top.tx] \in Nat
      /\ top.hi = top.lo + Amount[top.tx]
  BY <1>2, <1>5, AmountsArePositive DEF Slices
<1>7. \A b \in D : b.hi <= top.lo
  <2> SUFFICES ASSUME NEW b \in D PROVE b.hi <= top.lo
    OBVIOUS
  <2>1. b \in Slices /\ b.hi = b.lo + Amount[b.tx] /\ Disjoint(b, top) /\ b.hi <= top.hi
    BY <1>2, <1>5
  <2>2. b.lo \in Nat /\ b.hi \in Nat /\ b.lo < b.hi
    BY <2>1, AmountsArePositive DEF Slices
  <2> QED BY <1>6, <2>1, <2>2 DEF Disjoint
<1>8. SumOf(TxsOf(D)) <= top.lo
  <2>1. D \in SUBSET A /\ D \subseteq B /\ D # B
    BY <1>2, <1>5
  <2>2. D \notin C
    BY <1>2, <2>1
  <2>3. ~Over(D, top.lo)
    BY <1>6, <2>1, <2>2 DEF C
  <2> QED BY <1>7, <2>3
<1>9. IsFiniteSet(TxsOf(D)) /\ TxsOf(D) \subseteq Messages /\ TxsOf(B) = TxsOf(D) \cup {top.tx}
  <2>1. IsFiniteSet(D)
    BY <1>2, FS_Subset
  <2>2. IsFiniteSet(TxsOf(D))
    BY <2>1, TxsFinite
  <2>3. TxsOf(D) \subseteq Messages
    BY <1>2 DEF TxsOf, Slices
  <2>4. TxsOf(B) = TxsOf(D) \cup {top.tx}
    BY <1>5 DEF TxsOf
  <2> QED BY <2>2, <2>3, <2>4
<1>10. SumOf(TxsOf(B)) <= SumOf(TxsOf(D)) + Amount[top.tx]
  BY <1>6, <1>9, SumWith
<1>11. SumOf(TxsOf(D)) \in Nat /\ SumOf(TxsOf(B)) \in Nat
  <2>1. IsFiniteSet(TxsOf(B))
    BY <1>2, TxsFinite
  <2>2. TxsOf(B) \subseteq Messages
    BY <1>6, <1>9
  <2> QED BY <1>9, <2>1, <2>2, SumIsNat
<1>12. top.hi <= k
  BY <1>3, <1>5
<1> QED BY <1>3, <1>6, <1>8, <1>10, <1>11, <1>12

-----------------------------------------------------------------------------
(* The daily limit in non-atomic check mode, when tasks do not share a     *)
(* Redis.                                                                  *)

\* The Redis instances whose totals task t writes, and the deployments in
\* which only one task writes the totals it reads.
WritesTo(t) == {Home(t)} \cup IF SyncMode = "dual-write" THEN {Peer[Home(t)]} ELSE {}
OneWriter   == \A t, u \in Tasks : t # u => Home(t) \notin WritesTo(u)

\* What a task has read is not yet overtaken by its total, so that writing it
\* back loses no count.
Round(t) ==
  /\ step[t] \notin {"expire", "expireSecondary"}
  /\ step[t] = "set" => total[Home(t)][User(t)] <= prev[t]
  /\ step[t] = "secondary" => /\ SyncMode = "dual-write"
                              /\ total[Home(t)][User(t)] <= prev[t] + Amt(t)

\* No lost update is under way in any task.
RoundInv == \A t \in Tasks : Round(t)

\* A SET by one task shrinks no total that some task counts in, and touches
\* none that another task counts in.
LEMMA SetTotalGrows ==
  ASSUME RiskInv, RoundInv, OneWriter, NEW t \in Tasks, step[t] \in {"set", "secondary"},
         NEW r \in WritesTo(t), SetTotal(t, r), epoch' = epoch
  PROVE  /\ \A u \in Tasks, v \in Users : GrowsAt(Home(u), v)
         /\ \A u \in Tasks, v \in Users : u # t => total'[Home(u)][v] = total[Home(u)][v]
<1>1. /\ Home(t) \in Queues /\ User(t) \in Users /\ Amt(t) \in Nat /\ prev[t] \in Nat
      /\ total \in [Queues -> [Users -> Nat]] /\ epoch \in [Queues -> [Users -> 0..MaxEpoch]]
      /\ r \in Queues
  BY TaskFacts DEF RiskInv, RiskTypeOK, WritesTo
<1>2. \A u \in Tasks : Home(u) \in Queues
  BY QueueAssumption DEF Home
<1>3. \A q \in Queues, v \in Users :
        total'[q][v] = IF q = r /\ v = User(t) THEN prev[t] + Amt(t) ELSE total[q][v]
  BY <1>1 DEF SetTotal
<1>4. ASSUME NEW u \in Tasks, NEW v \in Users, u # t
      PROVE  total'[Home(u)][v] = total[Home(u)][v]
  BY <1>2, <1>3, <1>4 DEF OneWriter
<1>5. ASSUME NEW v \in Users PROVE total'[Home(t)][v] >= total[Home(t)][v]
  <2>1. total[Home(t)][User(t)] <= prev[t] + Amt(t)
    BY <1>1 DEF RoundInv, Round
  <2>2. total[Home(t)][v] \in Nat
    BY <1>1
  <2> QED BY <1>1, <1>3, <2>1, <2>2
<1>6. ASSUME NEW u \in Tasks, NEW v \in Users PROVE GrowsAt(Home(u), v)
  <2>1. epoch[Home(u)][v] \in Int /\ total[Home(u)][v] \in Int
    BY <1>1, <1>2, RiskAssumption
  <2> QED BY <1>4, <1>5, <2>1 DEF GrowsAt
<1> QED BY <1>4, <1>6

\* A task keeps its round while it does not move and nobody raises its totals.
LEMMA RoundFramed ==
  ASSUME RiskInv, RiskInv', NEW u \in Tasks, Round(u),
         step'[u] = step[u], prev'[u] = prev[u], step[u] # "idle" => cur'[u] = cur[u],
         \A v \in Users : total'[Home(u)][v] <= total[Home(u)][v]
  PROVE  Round(u)'
<1>1. CASE step[u] \notin {"set", "secondary"}
  BY <1>1 DEF Round
<1>2. CASE step[u] \in {"set", "secondary"}
  <2>1. User(u)' = User(u) /\ Amt(u)' = Amt(u) /\ Home(u)' = Home(u)
    BY <1>2 DEF User, Amt, Tx, Home
  <2>2. Home(u) \in Queues /\ User(u) \in Users /\ Amt(u) \in Nat
    BY <1>2, TaskFacts
  <2>3. /\ total[Home(u)][User(u)] \in Nat /\ total'[Home(u)][User(u)] \in Nat
        /\ prev[u] \in Nat
    BY <2>2 DEF RiskInv, RiskTypeOK
  <2> QED BY <2>1, <2>2, <2>3 DEF Round
<1> QED BY <1>1, <1>2

\* A handler leaves the other tasks where they are.
LEMMA OtherTasksStay ==
  ASSUME RiskInv, NEW t \in Tasks, Handle(t) \/ Begin(t) \/ Kill(t), NEW u \in Tasks, u # t
  PROVE  step'[u] = step[u] /\ prev'[u] = prev[u] /\ cur'[u] = cur[u]
<1>1. RiskTypeOK /\ SqsTypeOK
  BY DEF RiskInv
<1>2. (HandleErr(t) \/ HandleOk(t) \/ UNCHANGED sqsVars) => cur'[u] = cur[u]
  BY <1>1 DEF HandleErr, HandleOk, sqsVars, SqsTypeOK
<1>3. Leave(t) => step'[u] = step[u] /\ prev'[u] = prev[u]
  BY <1>1 DEF Leave, RiskTypeOK
<1>4. ASSUME NEW next, step' = [step EXCEPT ![t] = next],
             prev' = prev \/ \E n : prev' = [prev EXCEPT ![t] = n]
      PROVE  step'[u] = step[u] /\ prev'[u] = prev[u]
  BY <1>1, <1>4 DEF RiskTypeOK
<1>5. CASE Begin(t)
  BY <1>1, <1>4, <1>5 DEF Begin, Process, SqsTypeOK
<1>6. CASE Kill(t)
  BY <1>1, <1>3, <1>6 DEF Kill, Crash, Down, SqsTypeOK
<1>7. CASE \/ IncrPrimaryFails(t) \/ IncrSecondaryFails(t) \/ GetFails(t)
           \/ SetPrimaryFails(t) \/ SetSecondaryFails(t)
           \/ Approve(t) \/ Publish(t) \/ PublishFails(t)
  BY <1>2, <1>3, <1>7 DEF IncrPrimaryFails, IncrSecondaryFails, GetFails,
     SetPrimaryFails, SetSecondaryFails, Approve, Publish, PublishFails
<1>8. CASE \/ IncrPrimary(t) \/ ExpirePrimary(t) \/ IncrSecondary(t) \/ ExpireSecondary(t)
           \/ Get(t) \/ SetPrimary(t) \/ SetSecondary(t) \/ Block(t)
  BY <1>2, <1>4, <1>8 DEF IncrPrimary, ExpirePrimary, IncrSecondary, ExpireSecondary,
     Get, SetPrimary, SetSecondary, Block
<1> QED BY <1>5, <1>6, <1>7, <1>8 DEF Handle

\* A key that expires shrinks its total and nothing else; its epoch grows.
LEMMA ExpiryShrinks ==
  ASSUME RiskInv, NEW r \in Queues, NEW u \in Users, KeyExpires(r, u)
  PROVE  /\ \A q \in Queues, v \in Users :
              GrowsAt(q, v) /\ total'[q][v] <= total[q][v]
         /\ UNCHANGED <<sqsVars, step, prev>>
<1>1. /\ total' = [total EXCEPT ![r][u] = 0]
      /\ epoch' = [epoch EXCEPT ![r][u] = @ + 1]
  BY DEF KeyExpires
<1>2. /\ total \in [Queues -> [Users -> Nat]]
      /\ \A q \in Queues, v \in Users : epoch[q][v] \in Nat
  BY RiskAssumption DEF RiskInv, RiskTypeOK
<1> QED BY <1>1, <1>2 DEF GrowsAt, RiskInv, RiskTypeOK, KeyExpires

\* Each step of the service, seen from the totals of a Redis with one writer.
LEMMA SoloGrows ==
  ASSUME RiskInv, RoundInv, OneWriter, CheckMode = "non-atomic", [Next]_vars
  PROVE  /\ \A u \in Tasks, v \in Users : GrowsAt(Home(u), v)
         /\ \A t, u \in Tasks : Handle(t) /\ u # t =>
              \A v \in Users : total'[Home(u)][v] = total[Home(u)][v]
<1> DEFINE Stays == total' = total /\ epoch' = epoch
<1>1. \A u \in Tasks : Home(u) \in Queues
  BY QueueAssumption DEF Home
<1>2. ASSUME Stays PROVE \A u \in Tasks, v \in Users : GrowsAt(Home(u), v)
  BY <1>1, <1>2, RiskAssumption DEF GrowsAt, RiskInv, RiskTypeOK
<1>3. ASSUME NEW t \in Tasks, Handle(t)
      PROVE  \/ Stays
             \/ /\ step[t] \in {"set", "secondary"} /\ epoch' = epoch
                /\ \E r \in WritesTo(t) : SetTotal(t, r)
  <2>1. ~(\/ IncrPrimary(t) \/ IncrPrimaryFails(t)
          \/ IncrSecondary(t) \/ IncrSecondaryFails(t))
    BY DEF IncrPrimary, IncrPrimaryFails, IncrSecondary, IncrSecondaryFails
  <2>2. CASE \/ ExpirePrimary(t) \/ ExpireSecondary(t) \/ Get(t) \/ GetFails(t)
             \/ Approve(t) \/ Block(t) \/ Publish(t) \/ PublishFails(t)
    BY <2>2 DEF ExpirePrimary, ExpireSecondary, Get, GetFails, Approve, Block, Publish,
                PublishFails, redisVars
  <2>3. CASE SetPrimary(t) \/ SetPrimaryFails(t)
    BY <2>3 DEF SetPrimary, SetPrimaryFails, WritesTo
  <2>4. CASE SetSecondary(t) \/ SetSecondaryFails(t)
    <3>1. step[t] = "secondary" /\ epoch' = epoch /\ (SetTotal(t, Peer[Home(t)]) \/ Stays)
      BY <2>4 DEF SetSecondary, SetSecondaryFails
    <3>2. Peer[Home(t)] \in WritesTo(t)
      BY <3>1 DEF RoundInv, Round, WritesTo
    <3> QED BY <3>1, <3>2
  <2> QED BY <1>3, <2>1, <2>2, <2>3, <2>4 DEF Handle
<1>4. ASSUME NEW t \in Tasks, Handle(t)
      PROVE  /\ \A u \in Tasks, v \in Users : GrowsAt(Home(u), v)
             /\ \A u \in Tasks, v \in Users : u # t => total'[Home(u)][v] = total[Home(u)][v]
  BY <1>2, <1>3, <1>4, SetTotalGrows
<1>5. ASSUME NEW r \in Queues, NEW u \in Users, KeyExpires(r, u)
      PROVE  \A t \in Tasks, v \in Users : GrowsAt(Home(t), v)
  BY <1>1, <1>5, ExpiryShrinks
<1>6. CASE \/ \E m \in Messages : TimesOut(m) \/ DeadLetters(m) \/ Retires(m)
           \/ \E t \in Tasks : \/ Receives(t) \/ Begin(t) \/ Deletes(t)
                               \/ Cancels(t) \/ Stops(t) \/ Kill(t) \/ Restarts(t)
           \/ UNCHANGED vars
  BY <1>2, <1>6 DEF TimesOut, DeadLetters, Retires, Receives, Begin, Deletes, Cancels,
                    Stops, Kill, Restarts, riskVars, redisVars, vars
<1> QED BY <1>4, <1>5, <1>6 DEF Next

\* Every step keeps what the tasks have read ahead of their totals.
LEMMA RoundStep ==
  ASSUME RiskInv, RoundInv, OneWriter, CheckMode = "non-atomic", [Next]_vars
  PROVE  RoundInv'
<1>1. RiskInv'
  BY RiskInvStep
<1>2. \A u \in Tasks : Home(u) \in Queues /\ Round(u)
  BY QueueAssumption DEF Home, RoundInv
<1>3. ASSUME NEW t \in Tasks, Handle(t) PROVE RoundInv'
  <2>1. ASSUME NEW u \in Tasks, u # t PROVE Round(u)'
    <3>1. \A v \in Users : total'[Home(u)][v] <= total[Home(u)][v]
      BY <1>2, <1>3, <2>1, SoloGrows DEF RiskInv, RiskTypeOK
    <3> QED BY <1>1, <1>2, <1>3, <2>1, <3>1, OtherTasksStay, RoundFramed
  <2>2. Round(t)'
    <3>1. step[t] # "idle" => /\ Home(t) \in Queues /\ User(t) \in Users /\ Amt(t) \in Nat
                              /\ pc[t] = "handle"
      BY TaskFacts
    <3>2. RiskTypeOK
      BY DEF RiskInv
    <3>3. ASSUME NEW next \in {"idle", "check", "publish"}, step' = [step EXCEPT ![t] = next]
          PROVE  Round(t)'
      BY <3>2, <3>3 DEF Round, RiskTypeOK
    <3>4. CASE \/ IncrPrimaryFails(t) \/ IncrSecondaryFails(t) \/ GetFails(t)
               \/ SetPrimaryFails(t) \/ SetSecondary(t) \/ SetSecondaryFails(t)
               \/ Approve(t) \/ Block(t) \/ Publish(t) \/ PublishFails(t)
      BY <3>3, <3>4 DEF IncrPrimaryFails, IncrSecondaryFails, GetFails, SetPrimaryFails,
         SetSecondary, SetSecondaryFails, Approve, Block, Publish, PublishFails, Leave
    <3>5. ~(IncrPrimary(t) \/ IncrSecondary(t) \/ ExpirePrimary(t) \/ ExpireSecondary(t))
      BY <1>2 DEF IncrPrimary, IncrSecondary, ExpirePrimary, ExpireSecondary, Round
    <3>6. CASE Get(t)
      <4>1. /\ step'[t] = "set" /\ prev'[t] = total[Home(t)][User(t)] /\ total' = total
            /\ cur' = cur
        BY <3>2, <3>6 DEF Get, RiskTypeOK, redisVars, sqsVars
      <4>2. total[Home(t)][User(t)] \in Nat
        BY <3>1, <3>2, <3>6, TotalTyped DEF Get
      <4> QED BY <4>1, <4>2 DEF Round, User, Tx, Home
    <3>7. CASE SetPrimary(t)
      <4>1. /\ step'[t] = AfterPrimary /\ prev' = prev /\ cur' = cur
            /\ total' = [total EXCEPT ![Home(t)][User(t)] = prev[t] + Amt(t)]
        BY <3>2, <3>7 DEF SetPrimary, SetTotal, RiskTypeOK, sqsVars
      <4>2. Home(t) \in Queues /\ User(t) \in Users /\ Amt(t) \in Nat /\ prev[t] \in Nat
        BY <3>1, <3>2, <3>7 DEF SetPrimary, RiskTypeOK
      <4>3. total'[Home(t)][User(t)] = prev[t] + Amt(t)
        BY <3>2, <4>1, <4>2 DEF RiskTypeOK
      <4>4. User(t)' = User(t) /\ Amt(t)' = Amt(t) /\ Home(t)' = Home(t)
        BY <4>1 DEF User, Amt, Tx, Home
      <4> QED BY <4>1, <4>2, <4>3, <4>4 DEF Round, AfterPrimary
    <3> QED BY <1>3, <3>4, <3>5, <3>6, <3>7 DEF Handle
  <2> QED BY <2>1, <2>2 DEF RoundInv
<1>4. ASSUME NEW t \in Tasks, Begin(t) \/ Kill(t) PROVE RoundInv'
  <2>1. ASSUME NEW u \in Tasks, u # t PROVE Round(u)'
    <3>1. \A v \in Users : total'[Home(u)][v] <= total[Home(u)][v]
      BY <1>2, <1>4 DEF Begin, Kill, redisVars, RiskInv, RiskTypeOK
    <3> QED BY <1>1, <1>2, <1>4, <2>1, <3>1, OtherTasksStay, RoundFramed
  <2>2. Round(t)'
    BY <1>4 DEF Begin, Kill, Leave, Round, RiskInv, RiskTypeOK
  <2> QED BY <2>1, <2>2 DEF RoundInv
<1>5. ASSUME \A u \in Tasks : /\ step'[u] = step[u] /\ prev'[u] = prev[u]
                              /\ step[u] # "idle" => cur'[u] = cur[u],
             \A q \in Queues, v \in Users : total'[q][v] <= total[q][v]
      PROVE  RoundInv'
  BY <1>1, <1>2, <1>5, RoundFramed DEF RoundInv
<1>6. ASSUME UNCHANGED riskVars, \A u \in Tasks : step[u] # "idle" => cur'[u] = cur[u]
      PROVE  RoundInv'
  <2>1. total' = total /\ step' = step /\ prev' = prev
    BY <1>6 DEF riskVars
  <2>2. \A q \in Queues, v \in Users : total'[q][v] <= total[q][v]
    BY <2>1 DEF RiskInv, RiskTypeOK
  <2> QED BY <1>5, <1>6, <2>1, <2>2
<1>7. ASSUME NEW r \in Queues, NEW u \in Users, KeyExpires(r, u) PROVE RoundInv'
  BY <1>5, <1>7, ExpiryShrinks DEF sqsVars
<1>8. ASSUME NEW m \in Messages, TimesOut(m) \/ DeadLetters(m) \/ Retires(m)
      PROVE  RoundInv'
  <2>1. UNCHANGED riskVars /\ cur' = cur
    BY <1>8 DEF TimesOut, DeadLetters, Retires, VisibilityTimeout, Redrive,
                RetentionExpiry, taskVars
  <2> QED BY <1>6, <2>1
<1>10. ASSUME NEW t \in Tasks,
              Receives(t) \/ Deletes(t) \/ Cancels(t) \/ Stops(t) \/ Restarts(t)
       PROVE  RoundInv'
  BY <1>6, <1>10, CurStable
<1>9. CASE UNCHANGED vars
  BY <1>6, <1>9 DEF vars, sqsVars
<1> QED BY <1>3, <1>4, <1>7, <1>8, <1>9, <1>10 DEF Next

\* Every step keeps the slices apart.
LEMMA SoloStep ==
  ASSUME RiskInv, RoundInv, SlicesInv, OneWriter, CheckMode = "non-atomic", [Next]_vars
  PROVE  SlicesInv'
<1>1. RiskInv' /\ RiskTypeOK
  BY RiskInvStep DEF RiskInv
<1>2. \A t \in Tasks, v \in Users : GrowsAt(Home(t), v)
  BY SoloGrows
<1>3. SlicesKept => SlicesInv'
  BY <1>1, <1>2, SlicesFramed DEF SlicesKept
<1>4. ASSUME NEW t \in Tasks, SetPrimary(t) PROVE SlicesInv'
  <2>1. /\ step[t] = "set" /\ ~Reserved(t) /\ approved' = approved /\ epoch' = epoch
        /\ total' = [total EXCEPT ![Home(t)][User(t)] = prev[t] + Amt(t)]
        /\ slice' = [slice EXCEPT ![t] = SliceOf(t, prev[t])]
        /\ step' = [step EXCEPT ![t] = AfterPrimary]
    BY <1>4 DEF SetPrimary, SetTotal, Reserved
  <2>2. prev[t] \in Nat
    BY <1>1 DEF RiskTypeOK
  <2>3. Home(t) \in Queues /\ User(t) \in Users
    BY <2>1, TaskFacts
  <2>4. prev[t] >= total[Home(t)][User(t)]
    BY <1>1, <2>1, <2>2, <2>3, TotalTyped DEF RoundInv, Round
  <2> QED BY <1>1, <1>2, <2>1, <2>2, <2>4, SliceAdded
<1>5. ASSUME NEW t \in Tasks, Handle(t), ~SetPrimary(t) PROVE SlicesInv'
  <2>1. ~IncrPrimary(t)
    BY DEF IncrPrimary
  <2> QED BY <1>1, <1>3, <1>5, <2>1, HandlerKeepsSlices, SliceApproved
<1> QED BY <1>1, <1>3, <1>4, <1>5, OthersKeepSlices DEF Next

\* The non-atomic check keeps the limit as well when no two tasks write the
\* Redis one of them counts in: the lost update needs a second task.
THEOREM SingleWriterEnforcesLimit ==
  ASSUME CheckMode = "non-atomic", OneWriter PROVE Spec => []ApprovalsShareNothing
<1>1. Init => SlicesInv /\ RoundInv
  BY DEF Init, RiskInit, SlicesInv, RoundInv, Round, Reserved
<1>2. RiskInv /\ RoundInv /\ [Next]_vars => RoundInv'
  BY RoundStep
<1>3. RiskInv /\ RoundInv /\ SlicesInv /\ [Next]_vars => SlicesInv'
  BY SoloStep
<1> QED BY <1>1, <1>2, <1>3, SlicesShareNothing, RiskInvInit, RiskInvStep, PTL DEF Spec

-----------------------------------------------------------------------------
(* From slices that share nothing to a sum within the limit.               *)

\* Only finitely many transactions have been approved so far.
LEMMA ApprovedFiniteStep ==
  ASSUME IsFiniteSet(approved), [Next]_vars PROVE IsFiniteSet(approved)'
<1>1. ASSUME NEW t \in Tasks, Handle(t) \/ Kill(t) \/ Begin(t)
      PROVE  approved' = approved \/ approved' = approved \cup {slice[t]}
  BY <1>1 DEF Handle, IncrPrimary, IncrPrimaryFails, ExpirePrimary, IncrSecondary,
     IncrSecondaryFails, ExpireSecondary, Get, GetFails, SetPrimary, SetPrimaryFails,
     SetSecondary, SetSecondaryFails, Approve, Block, Publish, PublishFails, Kill, Begin
<1>2. CASE \E s : approved' = approved \cup {s}
  <2>1. PICK s : approved' = approved \cup {s}
    BY <1>2
  <2>2. IsFiniteSet(approved \cup {s})
    BY FS_AddElement
  <2> QED BY <2>1, <2>2
<1>3. ASSUME \/ \E m \in Messages : TimesOut(m) \/ DeadLetters(m) \/ Retires(m)
             \/ \E t \in Tasks : \/ Receives(t) \/ Deletes(t)
                                 \/ Cancels(t) \/ Stops(t) \/ Restarts(t)
             \/ \E r \in Queues, u \in Users : KeyExpires(r, u)
             \/ UNCHANGED vars
      PROVE  approved' = approved
  BY <1>3 DEF TimesOut, DeadLetters, Retires, Receives, Deletes, Cancels, Stops,
              Restarts, KeyExpires, riskVars, vars
<1> QED BY <1>1, <1>2, <1>3 DEF Next

\* None has been at first.
LEMMA ApprovedFiniteInit == Init => IsFiniteSet(approved)
BY FS_EmptySet DEF Init, RiskInit

\* Approvals that share nothing stay within the limit together.
LEMMA ApprovalsFitTheLimit ==
  ASSUME RiskInv, IsFiniteSet(approved), ApprovalsShareNothing
  PROVE  DailySpendWithinLimit
<1> SUFFICES ASSUME NEW r \in Queues, NEW u \in Users, NEW e \in 0..MaxEpoch
             PROVE  ApprovedSpend(r, u, e) <= DailyLimit
  BY DEF DailySpendWithinLimit
<1> DEFINE A == {a \in approved : a.region = r /\ a.user = u /\ a.epoch = e}
<1>1. A \subseteq approved /\ \A a, b \in A : SameWindow(a, b)
  BY DEF SameWindow
<1>2. ApprovedSpend(r, u, e) = SumOf(TxsOf(A))
  BY DEF ApprovedSpend, ApprovedTxs, TxsOf
<1> HIDE DEF A
<1>3. IsFiniteSet(A) /\ A \subseteq Slices
  BY <1>1, FS_Subset DEF RiskInv, RiskTypeOK
<1>4. \A a \in A : a.hi = a.lo + Amount[a.tx] /\ a.hi <= DailyLimit
  BY <1>1 DEF ApprovalsShareNothing
<1>5. \A a, b \in A : a # b => Disjoint(a, b)
  BY <1>1 DEF ApprovalsShareNothing
<1>6. SumOf(TxsOf(A)) <= DailyLimit
  BY <1>3, <1>4, <1>5, DisjointSlicesFit, RiskAssumption
<1> QED BY <1>2, <1>6

\* With atomic counters, whatever the tasks, the regions and the faults, the
\* transactions approved between two expiries never add up to more than the limit.
THEOREM AtomicModeLimitsSpend ==
  ASSUME CheckMode # "non-atomic" PROVE Spec => []DailySpendWithinLimit
<1>1. Spec => []ApprovalsShareNothing
  BY AtomicModeEnforcesLimit
<1>2. RiskInv /\ IsFiniteSet(approved) /\ ApprovalsShareNothing => DailySpendWithinLimit
  BY ApprovalsFitTheLimit
<1> QED
  BY <1>1, <1>2, ApprovedFiniteInit, ApprovedFiniteStep, RiskInvInit, RiskInvStep, PTL DEF Spec

\* With read-then-write counters they do not either, as long as no two tasks
\* write the Redis one of them counts in.
THEOREM SingleWriterLimitsSpend ==
  ASSUME CheckMode = "non-atomic", OneWriter PROVE Spec => []DailySpendWithinLimit
<1>1. Spec => []ApprovalsShareNothing
  BY SingleWriterEnforcesLimit
<1>2. RiskInv /\ IsFiniteSet(approved) /\ ApprovalsShareNothing => DailySpendWithinLimit
  BY ApprovalsFitTheLimit
<1> QED
  BY <1>1, <1>2, ApprovedFiniteInit, ApprovedFiniteStep, RiskInvInit, RiskInvStep, PTL DEF Spec

-----------------------------------------------------------------------------
(* The peer's knowledge of an approval, in dual-write mode.                *)

\* There are two regions at most, and each is the other's peer.
TwoRegions == \A r, q \in Queues : q = r \/ q = Peer[r]

\* The total of region r holds the transaction task t works on.
CountedAt(t, r) ==
  \/ Home(t) = r /\ Reserved(t)
  \/ Peer[Home(t)] = r /\ step[t] \in {"expireSecondary", "check", "publish"}

\* The transactions of u the total of region r must hold: those approved
\* anywhere, and those on their way to a verdict that were counted there.
Seen(r, u) == TxsOf({a \in approved : a.user = u})
                \cup {Tx(t) : t \in {k \in Tasks : CountedAt(k, r) /\ User(k) = u}}

\* Until it expires, the total of u in r holds all of these.
Mirrored(r, u) == epoch[r][u] = 0 => SumOf(Seen(r, u)) <= total[r][u]

\* EveryReplicaCoversApprovals counts approvals only; a task on its way to one
\* must have been counted in both regions, and in one before the other.
MirrorInv ==
  /\ \A r \in Queues, u \in Users : Mirrored(r, u)
  /\ \A t \in Tasks : Reserved(t) => slice[t].user = User(t)

\* A task that was counted somewhere is at work.
LEMMA CountedWorks ==
  ASSUME NEW t, NEW r, CountedAt(t, r) PROVE step[t] # "idle" /\ Reserved(t)
BY DEF CountedAt, Reserved

\* What a total must hold is a finite set of transactions.
LEMMA SeenFinite ==
  ASSUME RiskInv, IsFiniteSet(approved), NEW r, NEW u
  PROVE  IsFiniteSet(Seen(r, u)) /\ Seen(r, u) \subseteq Messages
<1> DEFINE A == {a \in approved : a.user = u}
           K == {k \in Tasks : CountedAt(k, r) /\ User(k) = u}
           T == {Tx(t) : t \in K}
           f == [t \in K |-> Tx(t)]
<1>1. IsFiniteSet(TxsOf(A))
  <2>1. IsFiniteSet(A)
    BY FS_Subset
  <2> QED BY <2>1, TxsFinite
<1>2. IsFiniteSet(T)
  <2>1. IsFiniteSet(K)
    BY FS_Subset, QueueAssumption
  <2>2. f \in Surjection(K, T)
    BY DEF Surjection
  <2> HIDE DEF f, T, K
  <2> QED BY <2>1, <2>2, FS_Surjection
<1>3. TxsOf(A) \subseteq Messages
  BY DEF TxsOf, RiskInv, RiskTypeOK, Slices
<1>4. T \subseteq Messages
  BY CountedWorks, TaskFacts
<1>5. Seen(r, u) = TxsOf(A) \cup T
  BY DEF Seen
<1> HIDE DEF A, T
<1> QED BY <1>1, <1>2, <1>3, <1>4, <1>5, FS_Union

\* A total stays ahead of what it must hold if no more is asked of it.
LEMMA MirrorFramed ==
  ASSUME RiskInv, RiskInv', IsFiniteSet(approved), IsFiniteSet(approved)',
         NEW r \in Queues, NEW u \in Users, Mirrored(r, u), GrowsAt(r, u),
         Seen(r, u)' \subseteq Seen(r, u)
  PROVE  Mirrored(r, u)'
<1>1. /\ epoch[r][u] \in Nat /\ epoch'[r][u] \in Nat
      /\ total[r][u] \in Nat /\ total'[r][u] \in Nat
  BY RiskAssumption DEF RiskInv, RiskTypeOK
<1>2. IsFiniteSet(Seen(r, u)) /\ Seen(r, u) \subseteq Messages
  BY SeenFinite
<1>3. SumOf(Seen(r, u)') <= SumOf(Seen(r, u))
  BY <1>2, SumMonotone
<1>4. SumOf(Seen(r, u)) \in Nat /\ SumOf(Seen(r, u)') \in Nat
  BY <1>2, FS_Subset, SumIsNat
<1>5. SumOf(Seen(r, u))' = SumOf(Seen(r, u)')
  BY DEF SumOf, FoldFunctionOnSet, MapThenFoldSet
<1> QED BY <1>1, <1>3, <1>4, <1>5 DEF Mirrored, GrowsAt

\* So it does if one transaction more is asked of it and counted there.
LEMMA MirrorAdded ==
  ASSUME RiskInv, RiskInv', IsFiniteSet(approved), IsFiniteSet(approved)',
         NEW r \in Queues, NEW u \in Users, Mirrored(r, u), epoch' = epoch,
         NEW m \in Messages, Seen(r, u)' \subseteq Seen(r, u) \cup {m},
         total'[r][u] >= total[r][u] + Amount[m]
  PROVE  Mirrored(r, u)'
<1>1. total[r][u] \in Nat /\ total'[r][u] \in Nat /\ Amount[m] \in Nat
  BY RiskAssumption DEF RiskInv, RiskTypeOK
<1>2. IsFiniteSet(Seen(r, u)) /\ Seen(r, u) \subseteq Messages
  BY SeenFinite
<1> DEFINE T == Seen(r, u) \cup {m}
<1>3. IsFiniteSet(T) /\ T \subseteq Messages
  BY <1>2, FS_AddElement
<1>4. SumOf(T) <= SumOf(Seen(r, u)) + Amount[m]
  BY <1>2, SumWith
<1> HIDE DEF T
<1>5. Seen(r, u)' \subseteq T
  BY DEF T
<1>6. SumOf(Seen(r, u)') <= SumOf(T)
  BY <1>3, <1>5, SumMonotone
<1>7. SumOf(Seen(r, u)) \in Nat /\ SumOf(T) \in Nat /\ SumOf(Seen(r, u)') \in Nat
  BY <1>2, <1>3, <1>5, FS_Subset, SumIsNat
<1>8. SumOf(Seen(r, u))' = SumOf(Seen(r, u)')
  BY DEF SumOf, FoldFunctionOnSet, MapThenFoldSet
<1> QED BY <1>1, <1>4, <1>6, <1>7, <1>8 DEF Mirrored

\* A step that counts nothing and approves nothing asks no more of a total.
LEMMA SeenFramed ==
  ASSUME NEW r \in Queues, NEW u \in Users, approved' = approved,
         \A k \in Tasks : CountedAt(k, r)' => CountedAt(k, r) /\ Tx(k)' = Tx(k)
  PROVE  Seen(r, u)' \subseteq Seen(r, u)
BY DEF Seen, User

\* What stays counted when task t goes on to another call.
LEMMA MovingCounted ==
  ASSUME RiskInv, NEW t \in Tasks, NEW next,
         step' = [step EXCEPT ![t] = next],
         \A k \in Tasks : k # t => cur'[k] = cur[k],
         NEW r \in Queues, NEW k \in Tasks, CountedAt(k, r)'
  PROVE  \/ k # t /\ CountedAt(k, r) /\ Tx(k)' = Tx(k)
         \/ k = t /\ \/ Home(t) = r /\ next \in {"expire", "secondary", "expireSecondary",
                                                 "check", "publish"}
                     \/ Peer[Home(t)] = r /\ next \in {"expireSecondary", "check", "publish"}
BY DEF CountedAt, Reserved, Home, Tx, RiskInv, RiskTypeOK

\* Every step keeps both totals ahead of the approvals.
LEMMA MirrorStep ==
  ASSUME RiskInv, AllowanceInv, MirrorInv, IsFiniteSet(approved), [Next]_vars,
         CheckMode # "non-atomic", SyncMode = "dual-write", TwoRegions
  PROVE  MirrorInv'
<1>1. RiskInv' /\ IsFiniteSet(approved)' /\ RiskTypeOK /\ RiskTypeOK'
  BY RiskInvStep, ApprovedFiniteStep DEF RiskInv
<1>2. \A r \in Queues, u \in Users : GrowsAt(r, u) /\ Mirrored(r, u)
  BY TotalsGrow DEF AllowanceInv, MirrorInv
<1>3. \A t \in Tasks : step[t] # "set"
  BY DEF AllowanceInv
<1> DEFINE Kept == \A r \in Queues, u \in Users : Mirrored(r, u)'
           Asks(r) == \A k \in Tasks : CountedAt(k, r)' => CountedAt(k, r) /\ Tx(k)' = Tx(k)
<1>4. ASSUME approved' = approved, \A r \in Queues : Asks(r) PROVE Kept
  BY <1>1, <1>2, <1>4, SeenFramed, MirrorFramed
<1> HIDE DEF Kept
<1>5. ASSUME NEW t \in Tasks, Handle(t), NEW u \in Tasks, u # t
      PROVE  cur'[u] = cur[u] /\ step'[u] = step[u] /\ slice'[u] = slice[u]
  <2>1. slice'[u] = slice[u]
    BY <1>1, <1>5 DEF Handle, IncrPrimary, IncrPrimaryFails, ExpirePrimary, IncrSecondary,
       IncrSecondaryFails, ExpireSecondary, Get, GetFails, SetPrimary, SetPrimaryFails,
       SetSecondary, SetSecondaryFails, Approve, Block, Publish, PublishFails, Leave, RiskTypeOK
  <2> QED BY <1>5, <2>1, OtherTasksStay
<1>6. ASSUME NEW t \in Tasks, IncrPrimary(t) PROVE Kept
  <2>1. PICK resent \in {0, Amt(t)} :
          LET lo == total[Home(t)][User(t)] + resent IN
          /\ total' = [total EXCEPT ![Home(t)][User(t)] = lo + Amt(t)]
          /\ step' = [step EXCEPT ![t] = IF lo = 0 THEN "expire" ELSE AfterPrimary]
    BY <1>6 DEF IncrPrimary
  <2>2. /\ Home(t) \in Queues /\ User(t) \in Users /\ Tx(t) \in Messages
        /\ Amt(t) \in Nat /\ step[t] = "update"
    BY <1>6, TaskFacts DEF IncrPrimary
  <2>3. approved' = approved /\ epoch' = epoch /\ cur' = cur
    BY <1>6 DEF IncrPrimary, sqsVars
  <2>4. \E next \in {"expire", "secondary"} : step' = [step EXCEPT ![t] = next]
    BY <2>1 DEF AfterPrimary
  <2>5. ASSUME NEW r \in Queues, NEW k \in Tasks, CountedAt(k, r)'
        PROVE  Tx(k)' = Tx(k) /\ (CountedAt(k, r) \/ (k = t /\ r = Home(t)))
    <3>1. PICK next \in {"expire", "secondary"} : step' = [step EXCEPT ![t] = next]
      BY <2>4
    <3>2. \/ k # t /\ CountedAt(k, r)
          \/ k = t /\ \/ Home(t) = r
                      \/ Peer[Home(t)] = r /\ next \in {"expireSecondary", "check", "publish"}
      BY <2>3, <2>5, <3>1, MovingCounted
    <3>3. Tx(k)' = Tx(k)
      BY <2>3 DEF Tx
    <3> QED BY <3>1, <3>2, <3>3
  <2> SUFFICES ASSUME NEW r \in Queues, NEW u \in Users PROVE Mirrored(r, u)'
    BY DEF Kept
  <2>6. CASE r = Home(t) /\ u = User(t)
    <3>1. Seen(r, u)' \subseteq Seen(r, u) \cup {Tx(t)}
      BY <2>3, <2>5 DEF Seen, User
    <3>2. total'[r][u] >= total[r][u] + Amount[Tx(t)]
      <4>1. total[r][u] \in Nat /\ resent \in Nat
        BY <1>1, <2>2, TotalTyped
      <4>2. total'[r][u] = total[r][u] + resent + Amt(t)
        BY <1>1, <2>1, <2>2, <2>6 DEF RiskTypeOK
      <4> QED BY <2>2, <4>1, <4>2 DEF Amt
    <3> QED BY <1>1, <1>2, <2>2, <2>3, <3>1, <3>2, MirrorAdded
  <2>7. CASE ~(r = Home(t) /\ u = User(t))
    <3>1. Seen(r, u)' \subseteq Seen(r, u)
      BY <2>3, <2>5, <2>7 DEF Seen, User, Tx
    <3> QED BY <1>1, <1>2, <3>1, MirrorFramed
  <2> QED BY <2>6, <2>7
<1>7. ASSUME NEW t \in Tasks, IncrSecondary(t) PROVE Kept
  <2> DEFINE peer == Peer[Home(t)]
  <2>1. /\ total' = [total EXCEPT ![peer][User(t)] = total[peer][User(t)] + Amt(t)]
        /\ \E next \in {"expireSecondary", "check"} : step' = [step EXCEPT ![t] = next]
        /\ approved' = approved /\ epoch' = epoch /\ cur' = cur
        /\ step[t] = "secondary"
    BY <1>7 DEF IncrSecondary, sqsVars
  <2>2. /\ peer \in Queues /\ User(t) \in Users /\ Tx(t) \in Messages
        /\ Amt(t) \in Nat
    BY <2>1, TaskFacts
  <2>3. CountedAt(t, Home(t))
    BY <2>1 DEF CountedAt, Reserved
  <2>4. ASSUME NEW r \in Queues, NEW k \in Tasks, CountedAt(k, r)'
        PROVE  Tx(k)' = Tx(k) /\ (CountedAt(k, r) \/ (k = t /\ r = peer))
    <3>1. PICK next : step' = [step EXCEPT ![t] = next]
      BY <2>1
    <3>2. \/ k # t /\ CountedAt(k, r)
          \/ k = t /\ (Home(t) = r \/ peer = r)
      BY <2>1, <2>4, <3>1, MovingCounted
    <3>3. Tx(k)' = Tx(k)
      BY <2>1 DEF Tx
    <3>4. CASE k = t /\ Home(t) = r
      BY <2>3, <3>3, <3>4
    <3> QED BY <3>2, <3>3, <3>4
  <2> SUFFICES ASSUME NEW r \in Queues, NEW u \in Users PROVE Mirrored(r, u)'
    BY DEF Kept
  <2>5. CASE r = peer /\ u = User(t)
    <3>1. Seen(r, u)' \subseteq Seen(r, u) \cup {Tx(t)}
      BY <2>1, <2>4 DEF Seen, User
    <3>2. total'[r][u] >= total[r][u] + Amount[Tx(t)]
      <4>1. total[r][u] \in Nat
        BY <1>1, <2>2, TotalTyped
      <4>2. total'[r][u] = total[r][u] + Amt(t)
        BY <1>1, <2>1, <2>2, <2>5 DEF RiskTypeOK
      <4> QED BY <2>2, <4>1, <4>2 DEF Amt
    <3> QED BY <1>1, <1>2, <2>1, <2>2, <3>1, <3>2, MirrorAdded
  <2>6. CASE ~(r = peer /\ u = User(t))
    <3>1. Seen(r, u)' \subseteq Seen(r, u)
      BY <2>1, <2>4, <2>6 DEF Seen, User, Tx
    <3> QED BY <1>1, <1>2, <3>1, MirrorFramed
  <2> QED BY <2>5, <2>6
<1>8. ASSUME NEW t \in Tasks, Approve(t) PROVE Kept
  <2>1. /\ approved' = approved \cup {slice[t]} /\ step[t] = "check"
        /\ step' = [step EXCEPT ![t] = "idle"]
    BY <1>8 DEF Approve, Leave
  <2>2. slice[t].user = User(t) /\ slice[t].tx = Tx(t)
    BY <2>1 DEF MirrorInv, RiskInv, TaskInv, Reserved
  <2>3. \A r \in Queues : CountedAt(t, r)
    BY <2>1, QueueAssumption DEF TwoRegions, CountedAt, Reserved, Home
  <2>4. ASSUME NEW r \in Queues, NEW k \in Tasks, CountedAt(k, r)'
        PROVE  CountedAt(k, r) /\ Tx(k)' = Tx(k)
    <3>1. Handle(t)
      BY <1>8 DEF Handle
    <3>2. \A j \in Tasks : j # t => cur'[j] = cur[j]
      BY <1>5, <3>1
    <3> DEFINE next == "idle"
    <3>3. step' = [step EXCEPT ![t] = next] /\ next \notin {"expire", "secondary",
                                              "expireSecondary", "check", "publish"}
      BY <2>1
    <3> HIDE DEF next
    <3> QED BY <2>4, <3>2, <3>3, MovingCounted
  <2> SUFFICES ASSUME NEW r \in Queues, NEW u \in Users PROVE Mirrored(r, u)'
    BY DEF Kept
  <2>5. Seen(r, u)' \subseteq Seen(r, u)
    BY <2>1, <2>2, <2>3, <2>4 DEF Seen, User, TxsOf
  <2> QED BY <1>1, <1>2, <2>5, MirrorFramed
<1>9. ASSUME NEW t \in Tasks, Handle(t), ~IncrPrimary(t), ~IncrSecondary(t), ~Approve(t)
      PROVE  Kept
  <2>1. ~(Get(t) \/ SetPrimary(t) \/ SetPrimaryFails(t) \/ SetSecondary(t))
    BY <1>3 DEF Get, SetPrimary, SetPrimaryFails, SetSecondary
  <2>2. approved' = approved
    BY <1>1, <1>9, <2>1, HandlerKeepsSlices DEF SlicesKept
  <2>3. ASSUME NEW next, step' = [step EXCEPT ![t] = next],
               \/ next = "idle"
               \/ cur' = cur /\ next \in {"secondary", "check", "publish"} /\ Reserved(t)
                  /\ (next # "secondary" => \A r \in Queues : CountedAt(t, r))
        PROVE  Kept
    <3>1. ASSUME NEW r \in Queues, NEW k \in Tasks, CountedAt(k, r)'
          PROVE  CountedAt(k, r) /\ Tx(k)' = Tx(k)
      <4>1. \A j \in Tasks : j # t => cur'[j] = cur[j]
        BY <1>5, <1>9
      <4>2. \/ k # t /\ CountedAt(k, r) /\ Tx(k)' = Tx(k)
            \/ k = t /\ \/ Home(t) = r /\ next # "idle"
                        \/ Peer[Home(t)] = r /\ next \in {"check", "publish"}
        BY <2>3, <3>1, <4>1, MovingCounted
      <4> QED BY <2>3, <4>2 DEF CountedAt, Tx
    <3> QED BY <1>4, <2>2, <3>1
  <2>4. step[t] \in {"check", "expireSecondary"} => \A r \in Queues : CountedAt(t, r)
    BY QueueAssumption DEF TwoRegions, CountedAt, Reserved, Home
  <2>5. CASE ExpirePrimary(t)
    BY <2>3, <2>5 DEF ExpirePrimary, AfterPrimary, Reserved, sqsVars
  <2>6. CASE ExpireSecondary(t) \/ Block(t)
    BY <2>3, <2>4, <2>6 DEF ExpireSecondary, Block, Reserved, sqsVars
  <2>7. CASE \/ IncrPrimaryFails(t) \/ IncrSecondaryFails(t) \/ GetFails(t)
             \/ SetSecondaryFails(t) \/ Publish(t) \/ PublishFails(t)
    BY <2>3, <2>7 DEF IncrPrimaryFails, IncrSecondaryFails, GetFails, SetSecondaryFails,
                      Publish, PublishFails, Leave
  <2> QED BY <1>9, <2>1, <2>5, <2>6, <2>7 DEF Handle
<1>10. ASSUME NEW t \in Tasks, Begin(t) \/ Kill(t) PROVE Kept
  <2>1. \E next \in {"update", "idle"} : step' = [step EXCEPT ![t] = next]
    BY <1>10 DEF Begin, Kill, Leave
  <2>2. approved' = approved /\ \A k \in Tasks : k # t => cur'[k] = cur[k]
    BY <1>10, OtherTasksStay DEF Begin, Kill
  <2>3. ASSUME NEW r \in Queues, NEW k \in Tasks, CountedAt(k, r)'
        PROVE  CountedAt(k, r) /\ Tx(k)' = Tx(k)
    BY <2>1, <2>2, <2>3, MovingCounted
  <2> QED BY <1>4, <2>2, <2>3
<1>11. ASSUME UNCHANGED <<step, approved>>, \A k \in Tasks : step[k] # "idle" => cur'[k] = cur[k]
       PROVE  Kept
  <2>1. ASSUME NEW r \in Queues, NEW k \in Tasks, CountedAt(k, r)'
        PROVE  CountedAt(k, r) /\ Tx(k)' = Tx(k)
    BY <1>11, <2>1 DEF CountedAt, Reserved, Home, Tx
  <2> QED BY <1>4, <1>11, <2>1
<1>12. ASSUME NEW t \in Tasks, Receives(t) \/ Deletes(t) \/ Cancels(t) \/ Stops(t) \/ Restarts(t)
       PROVE  Kept
  BY <1>11, <1>12, CurStable DEF riskVars
<1>13. ASSUME NEW m \in Messages, TimesOut(m) \/ DeadLetters(m) \/ Retires(m) PROVE Kept
  BY <1>11, <1>13 DEF TimesOut, DeadLetters, Retires, VisibilityTimeout, Redrive,
                      RetentionExpiry, taskVars, riskVars
<1>14. ASSUME NEW r \in Queues, NEW u \in Users, KeyExpires(r, u) PROVE Kept
  BY <1>11, <1>14 DEF KeyExpires, sqsVars
<1>15. ASSUME UNCHANGED vars PROVE Kept
  <2>1. step' = step /\ approved' = approved /\ cur' = cur
    BY <1>15 DEF vars, sqsVars, riskVars
  <2> QED BY <1>11, <2>1
<1>16. Kept
  BY <1>6, <1>7, <1>8, <1>9, <1>10, <1>12, <1>13, <1>14, <1>15 DEF Next
<1>17. \A t \in Tasks : Reserved(t)' => slice'[t].user = User(t)'
  <2> SUFFICES ASSUME NEW t \in Tasks, Reserved(t)' PROVE slice'[t].user = User(t)'
    OBVIOUS
  <2>1. CASE step'[t] = step[t] /\ slice'[t] = slice[t] /\ cur'[t] = cur[t]
    BY <2>1 DEF MirrorInv, Reserved, User, Tx
  <2>2. CASE Handle(t)
    <3>1. CASE Leave(t) \/ Get(t)
      BY <1>1, <3>1 DEF Leave, Get, Reserved, RiskTypeOK
    <3>2. CASE \/ ExpirePrimary(t) \/ IncrSecondary(t) \/ ExpireSecondary(t)
               \/ SetSecondary(t) \/ Block(t)
      <4>1. Reserved(t) /\ slice' = slice /\ cur' = cur
        BY <3>2 DEF ExpirePrimary, IncrSecondary, ExpireSecondary, SetSecondary, Block,
                    Reserved, sqsVars
      <4> QED BY <4>1 DEF MirrorInv, User, Tx
    <3>3. CASE IncrPrimary(t) \/ SetPrimary(t)
      <4>1. (\E lo : slice' = [slice EXCEPT ![t] = SliceOf(t, lo)]) /\ cur' = cur
        BY <3>3 DEF IncrPrimary, SetPrimary, sqsVars
      <4>2. User(t)' = User(t)
        BY <4>1 DEF User, Tx
      <4>3. slice'[t].user = User(t)
        BY <1>1, <4>1 DEF SliceOf, RiskTypeOK
      <4> QED BY <4>2, <4>3
    <3> QED
      BY <2>2, <3>1, <3>2, <3>3 DEF Handle, IncrPrimaryFails, IncrSecondaryFails, GetFails,
         SetPrimaryFails, SetSecondaryFails, Approve, Publish, PublishFails
  <2>3. CASE Begin(t) \/ Kill(t)
    BY <1>1, <2>3 DEF Begin, Kill, Leave, Reserved, RiskTypeOK
  <2>4. ASSUME NEW u \in Tasks, u # t, Handle(u) \/ Begin(u) \/ Kill(u)
        PROVE  step'[t] = step[t] /\ slice'[t] = slice[t] /\ cur'[t] = cur[t]
    BY <1>1, <1>5, <2>4, OtherTasksStay DEF Begin, Kill, Leave, RiskTypeOK
  <2>5. ASSUME \/ \E m \in Messages : TimesOut(m) \/ DeadLetters(m) \/ Retires(m)
               \/ \E u \in Tasks : \/ Receives(u) \/ Deletes(u)
                                   \/ Cancels(u) \/ Stops(u) \/ Restarts(u)
               \/ \E r \in Queues, u \in Users : KeyExpires(r, u)
               \/ UNCHANGED vars
        PROVE  step'[t] = step[t] /\ slice'[t] = slice[t] /\ cur'[t] = cur[t]
    <3>1. UNCHANGED <<step, slice>>
      BY <2>5 DEF TimesOut, DeadLetters, Retires, Receives, Deletes, Cancels, Stops,
                  Restarts, KeyExpires, riskVars, vars
    <3>2. step[t] # "idle"
      BY <3>1 DEF Reserved
    <3>3. ASSUME NEW u \in Tasks,
                 Receives(u) \/ Deletes(u) \/ Cancels(u) \/ Stops(u) \/ Restarts(u)
          PROVE  cur'[t] = cur[t]
      BY <3>2, <3>3, CurStable
    <3>4. CASE \/ \E m \in Messages : TimesOut(m) \/ DeadLetters(m) \/ Retires(m)
               \/ \E r \in Queues, u \in Users : KeyExpires(r, u)
               \/ UNCHANGED vars
      <4>1. cur' = cur
        BY <3>4 DEF TimesOut, DeadLetters, Retires, VisibilityTimeout, Redrive,
                    RetentionExpiry, KeyExpires, taskVars, sqsVars, vars
      <4> QED BY <3>1, <4>1
    <3> QED BY <2>5, <3>1, <3>3, <3>4
  <2> QED BY <2>1, <2>2, <2>3, <2>4, <2>5 DEF Next
<1> QED BY <1>16, <1>17 DEF MirrorInv, Kept

\* At first nothing has to be held.
LEMMA MirrorInit == Init => MirrorInv
<1> SUFFICES ASSUME Init PROVE MirrorInv
  OBVIOUS
<1>1. \A r \in Queues, u \in Users : Seen(r, u) = {} /\ total[r][u] = 0
  BY DEF Init, RiskInit, Seen, TxsOf, CountedAt, Reserved
<1>2. \A t \in Tasks : ~Reserved(t)
  BY DEF Init, RiskInit, Reserved
<1>3. \A r \in Queues, u \in Users : SumOf(Seen(r, u)) = 0
  BY <1>1, SumOfNone
<1> QED BY <1>1, <1>2, <1>3 DEF MirrorInv, Mirrored

\* What a total must hold includes all that was approved.
LEMMA MirrorCovers ==
  ASSUME RiskInv, IsFiniteSet(approved), MirrorInv,
         NEW r \in Queues, NEW u \in Users, epoch[r][u] = 0
  PROVE  GlobalSpend(u) <= total[r][u]
<1> DEFINE T == TxsOf({a \in approved : a.user = u})
<1>1. T \subseteq Seen(r, u)
  BY DEF Seen
<1>2. IsFiniteSet(Seen(r, u)) /\ Seen(r, u) \subseteq Messages
  BY SeenFinite
<1>3. GlobalSpend(u) = SumOf(T)
  BY DEF GlobalSpend, TxsOf
<1> HIDE DEF T
<1>4. SumOf(T) <= SumOf(Seen(r, u))
  BY <1>1, <1>2, SumMonotone
<1>5. SumOf(T) \in Nat /\ SumOf(Seen(r, u)) \in Nat /\ total[r][u] \in Nat
  BY <1>1, <1>2, FS_Subset, SumIsNat DEF RiskInv, RiskTypeOK
<1> QED BY <1>3, <1>4, <1>5 DEF MirrorInv, Mirrored

\* With atomic counters written to both regions, whatever fails, a total that
\* has never expired covers all that was approved for its user anywhere.
THEOREM UnexpiredTotalsCoverApprovals ==
  ASSUME CheckMode # "non-atomic", SyncMode = "dual-write", TwoRegions
  PROVE  Spec => [](\A r \in Queues, u \in Users :
                      epoch[r][u] = 0 => GlobalSpend(u) <= total[r][u])
<1>1. RiskInv /\ AllowanceInv /\ [Next]_vars => AllowanceInv'
  BY AllowanceStep
<1>2. RiskInv /\ AllowanceInv /\ MirrorInv /\ IsFiniteSet(approved) /\ [Next]_vars => MirrorInv'
  BY MirrorStep
<1>3. RiskInv /\ MirrorInv /\ IsFiniteSet(approved) =>
        \A r \in Queues, u \in Users : epoch[r][u] = 0 => GlobalSpend(u) <= total[r][u]
  BY MirrorCovers
<1> QED
  BY <1>1, <1>2, <1>3, AllowanceInit, MirrorInit, ApprovedFiniteInit, ApprovedFiniteStep,
     RiskInvInit, RiskInvStep, PTL DEF Spec

\* So until the first expiry every replica covers the approvals of both regions.
THEOREM DualWriteCoversApprovals ==
  ASSUME CheckMode # "non-atomic", SyncMode = "dual-write", TwoRegions, MaxEpoch = 0
  PROVE  Spec => []EveryReplicaCoversApprovals
<1>1. RiskInv => \A r \in Queues, u \in Users : epoch[r][u] = 0
  BY DEF RiskInv, RiskTypeOK
<1>2. RiskInv /\ (\A r \in Queues, u \in Users : epoch[r][u] = 0 => GlobalSpend(u) <= total[r][u])
        => EveryReplicaCoversApprovals
  BY <1>1 DEF EveryReplicaCoversApprovals
<1> QED
  BY <1>2, UnexpiredTotalsCoverApprovals, RiskInvInit, RiskInvStep, PTL DEF Spec

-----------------------------------------------------------------------------
(* Expiry of the totals.                                                   *)

\* A handler of task t works on m.
Running(t, m) == step[t] # "idle" /\ Tx(t) = m

\* A message handed out once is with one handler or has a verdict, never both.
OnceInv ==
  \A m \in Messages :
    /\ attempts[m] = 0 => m \notin handled /\ \A t \in Tasks : ~Running(t, m)
    /\ attempts[m] <= 1 =>
         /\ \A t, u \in Tasks : Running(t, m) /\ Running(u, m) => t = u
         /\ m \in handled => \A t \in Tasks : ~Running(t, m)

\* No call has failed so far: of the messages handed out, each once, those
\* without a verdict are still with a handler.
Clean ==
  \A m \in Messages :
    /\ attempts[m] <= 1
    /\ attempts[m] = 1 => m \in handled \/ \E t \in Tasks : Running(t, m)

\* Some task has counted u's first amount in region r and goes on to EXPIRE.
AboutToExpire(r, u) ==
  \E t \in Tasks : /\ User(t) = u
                   /\ \/ step[t] = "expire" /\ Home(t) = r
                      \/ step[t] = "expireSecondary" /\ Peer[Home(t)] = r

\* EveryTotalExpires is about moments of rest; while tasks run, the one that
\* counted first may still owe the TTL.
ExpiryInv ==
  Clean => \A r \in Queues, u \in Users :
             total[r][u] > 0 => ttl[r][u] \/ AboutToExpire(r, u)

\* How a step can touch attempts, verdicts and running handlers.  Task t starts
\* a handler for m.
Starts(t, m) ==
  /\ step[t] = "idle" /\ step'[t] # "idle" /\ Tx(t)' = m
  /\ attempts' = [attempts EXCEPT ![m] = @ + 1] /\ handled' = handled

\* Task t ends its handler, with or without a verdict.
Ends(t) ==
  /\ step[t] # "idle" /\ step'[t] = "idle" /\ attempts' = attempts
  /\ handled' \in {handled, handled \cup {Tx(t)}}

\* Task t is where it was: working on the same message, or idle.
Continues(t) ==
  /\ step[t] # "idle" <=> step'[t] # "idle"
  /\ step[t] # "idle" => Tx(t)' = Tx(t)

\* So are all tasks but t.
OthersContinue(t) == \A u \in Tasks : u # t => Continues(u)

\* A step starts one handler, ends one, or does neither.
RunStep ==
  \/ \E t \in Tasks, m \in Messages : Starts(t, m) /\ OthersContinue(t)
  \/ \E t \in Tasks : Ends(t) /\ OthersContinue(t)
  \/ attempts' = attempts /\ handled' = handled /\ \A t \in Tasks : Continues(t)

\* Each of these keeps OnceInv, and repairs nothing that has failed.
LEMMA OnceStep ==
  ASSUME RiskInv, OnceInv, RunStep PROVE OnceInv' /\ (Clean' => Clean)
<1>1. attempts \in [Messages -> Nat] /\ \A t \in Tasks : step[t] # "idle" => Tx(t) \in Messages
  BY TaskFacts DEF RiskInv, SqsTypeOK
<1>2. CASE \E t \in Tasks, m \in Messages : Starts(t, m) /\ OthersContinue(t)
  <2>1. PICK t \in Tasks, m \in Messages : Starts(t, m) /\ OthersContinue(t)
    BY <1>2
  <2>2. ASSUME NEW u \in Tasks, NEW k \in Messages
        PROVE  Running(u, k)' <=> Running(u, k) \/ (u = t /\ k = m)
    BY <2>1 DEF Starts, OthersContinue, Continues, Running
  <2>3. ~ \E k : Running(t, k)
    BY <2>1 DEF Starts, Running
  <2>4. /\ handled' = handled
        /\ \A k \in Messages : attempts'[k] = IF k = m THEN attempts[k] + 1 ELSE attempts[k]
    BY <1>1, <2>1 DEF Starts
  <2>5. OnceInv'
    BY <1>1, <2>2, <2>3, <2>4 DEF OnceInv
  <2>6. Clean' => Clean
    BY <1>1, <2>2, <2>4 DEF OnceInv, Clean
  <2> QED BY <2>5, <2>6
<1>3. CASE \E t \in Tasks : Ends(t) /\ OthersContinue(t)
  <2>1. PICK t \in Tasks : Ends(t) /\ OthersContinue(t)
    BY <1>3
  <2>2. ASSUME NEW u \in Tasks, NEW k \in Messages
        PROVE  Running(u, k)' <=> Running(u, k) /\ u # t
    BY <2>1 DEF Ends, OthersContinue, Continues, Running
  <2>3. /\ attempts' = attempts /\ handled \subseteq handled'
        /\ \A k \in Messages : k \in handled' => k \in handled \/ Running(t, k)
    BY <2>1 DEF Ends, Running
  <2>4. OnceInv'
    BY <1>1, <2>1, <2>2, <2>3 DEF OnceInv
  <2>5. Clean' => Clean
    BY <1>1, <2>1, <2>2, <2>3 DEF OnceInv, Clean
  <2> QED BY <2>4, <2>5
<1>4. CASE attempts' = attempts /\ handled' = handled /\ \A t \in Tasks : Continues(t)
  <2>1. \A u \in Tasks, k \in Messages : Running(u, k)' <=> Running(u, k)
    BY <1>4 DEF Continues, Running
  <2> QED BY <1>4, <2>1 DEF OnceInv, Clean
<1> QED BY <1>2, <1>3, <1>4 DEF RunStep

\* A handler that ends without a verdict leaves its message unhandled.
LEMMA FailureIsSeen ==
  ASSUME RiskInv, OnceInv, NEW t \in Tasks, step[t] # "idle", Ends(t), OthersContinue(t),
         handled' = handled
  PROVE  ~Clean'
<1> SUFFICES ASSUME Clean' PROVE FALSE
  OBVIOUS
<1>1. PICK m \in Messages : m = Tx(t)
  BY TaskFacts
<1>2. Running(t, m)
  BY <1>1 DEF Running
<1>3. attempts[m] = 1 /\ m \notin handled /\ attempts' = attempts
  BY <1>2 DEF Ends, Clean, OnceInv, RiskInv, SqsTypeOK
<1>4. PICK u \in Tasks : Running(u, m)'
  BY <1>3 DEF Clean
<1>5. u # t /\ Running(u, m)
  BY <1>4 DEF Running, Ends, OthersContinue, Continues
<1> QED BY <1>2, <1>3, <1>5 DEF OnceInv

\* Every step of the service touches handlers in one of these ways.
LEMMA NextIsRunStep == ASSUME RiskInv, [Next]_vars PROVE RunStep
<1>1. RiskTypeOK /\ SqsTypeOK /\ \A t \in Tasks : step[t] # "idle" => pc[t] = "handle"
  BY DEF RiskInv, TaskInv
<1>2. ASSUME NEW t \in Tasks, Handle(t) \/ Begin(t) \/ Kill(t) PROVE OthersContinue(t)
  BY <1>2, OtherTasksStay DEF OthersContinue, Continues, Tx
<1>3. ASSUME NEW t \in Tasks, Handle(t) PROVE RunStep
  <2>1. CASE Leave(t) /\ (HandleErr(t) \/ HandleOk(t))
    <3>1. step[t] # "idle"
      BY <1>3 DEF Handle, IncrPrimary, IncrPrimaryFails, ExpirePrimary, IncrSecondary,
         IncrSecondaryFails, ExpireSecondary, Get, GetFails, SetPrimary, SetPrimaryFails,
         SetSecondary, SetSecondaryFails, Approve, Block, Publish, PublishFails
    <3>2. Ends(t)
      BY <1>1, <2>1, <3>1 DEF Leave, HandleErr, HandleOk, Ends, RiskTypeOK, Tx
    <3> QED BY <1>2, <1>3, <3>2 DEF RunStep
  <2>2. CASE ~Leave(t)
    <3>1. /\ step[t] # "idle" /\ UNCHANGED sqsVars
          /\ \E next : next # "idle" /\ step' = [step EXCEPT ![t] = next]
      BY <1>3, <2>2 DEF Handle, IncrPrimary, IncrPrimaryFails, ExpirePrimary, IncrSecondary,
         IncrSecondaryFails, ExpireSecondary, Get, GetFails, SetPrimary, SetPrimaryFails,
         SetSecondary, SetSecondaryFails, Approve, Block, Publish, PublishFails, AfterPrimary
    <3>2. Continues(t)
      BY <1>1, <3>1 DEF Continues, Tx, sqsVars, RiskTypeOK
    <3>3. attempts' = attempts /\ handled' = handled
      BY <3>1 DEF sqsVars
    <3> QED BY <1>2, <1>3, <3>2, <3>3 DEF RunStep, OthersContinue
  <2>3. Leave(t) => HandleErr(t) \/ HandleOk(t)
    BY <1>1, <1>3 DEF Handle, IncrPrimary, IncrPrimaryFails, ExpirePrimary, IncrSecondary,
       IncrSecondaryFails, ExpireSecondary, Get, GetFails, SetPrimary, SetPrimaryFails,
       SetSecondary, SetSecondaryFails, Approve, Block, Publish, PublishFails, Leave,
       AfterPrimary, RiskTypeOK
  <2> QED BY <2>1, <2>2, <2>3
<1>4. ASSUME NEW t \in Tasks, Begin(t) PROVE RunStep
  <2>1. PICK r \in batch[t] : /\ cur' = [cur EXCEPT ![t] = r]
                              /\ attempts' = [attempts EXCEPT ![r.msg] = @ + 1]
    BY <1>4 DEF Begin, Process
  <2>2. r.msg \in Messages
    BY <1>1 DEF SqsTypeOK, Receipts
  <2>3. pc[t] = "loop" /\ handled' = handled /\ step' = [step EXCEPT ![t] = "update"]
    BY <1>4 DEF Begin, Process
  <2>4. Starts(t, r.msg)
    BY <1>1, <2>1, <2>3 DEF Starts, Tx, RiskTypeOK, SqsTypeOK
  <2> QED BY <1>2, <1>4, <2>2, <2>4 DEF RunStep
<1>5. ASSUME NEW t \in Tasks, Kill(t) PROVE RunStep
  <2>1. step'[t] = "idle" /\ attempts' = attempts /\ handled' = handled
    BY <1>1, <1>5 DEF Kill, Leave, Crash, Down, RiskTypeOK
  <2>2. CASE step[t] # "idle"
    BY <1>2, <1>5, <2>1, <2>2 DEF RunStep, Ends
  <2>3. CASE step[t] = "idle"
    BY <1>2, <1>5, <2>1, <2>3 DEF RunStep, OthersContinue, Continues
  <2> QED BY <2>2, <2>3
<1>6. ASSUME step' = step, attempts' = attempts, handled' = handled,
             \A t \in Tasks : step[t] # "idle" => cur'[t] = cur[t]
      PROVE  RunStep
  BY <1>6 DEF RunStep, Continues, Tx
<1>7. ASSUME NEW t \in Tasks, Receives(t) \/ Deletes(t) \/ Cancels(t) \/ Stops(t) \/ Restarts(t)
      PROVE  RunStep
  <2>1. step' = step /\ \A u \in Tasks : step[u] # "idle" => cur'[u] = cur[u]
    BY <1>7, CurStable DEF riskVars
  <2>2. attempts' = attempts /\ handled' = handled
    BY <1>7 DEF Receives, Deletes, Cancels, Stops, Restarts, Receive, Delete, Cancel, Stop,
                Down, Restart
  <2> QED BY <1>6, <2>1, <2>2
<1>8. ASSUME \/ \E m \in Messages : TimesOut(m) \/ DeadLetters(m) \/ Retires(m)
             \/ \E r \in Queues, u \in Users : KeyExpires(r, u)
             \/ UNCHANGED vars
      PROVE  RunStep
  <2>1. step' = step /\ attempts' = attempts /\ handled' = handled /\ cur' = cur
    BY <1>8 DEF TimesOut, DeadLetters, Retires, VisibilityTimeout, Redrive, RetentionExpiry,
                KeyExpires, taskVars, sqsVars, riskVars, vars
  <2> QED BY <1>6, <2>1
<1> QED BY <1>3, <1>4, <1>5, <1>7, <1>8 DEF Next

\* A positive total has its TTL or will get it.
Expires(r, u) == total[r][u] > 0 => ttl[r][u] \/ AboutToExpire(r, u)

\* A task that owes no TTL takes none away by moving.
LEMMA OwedKept ==
  ASSUME RiskInv, NEW t \in Tasks, Handle(t) \/ Begin(t) \/ Kill(t),
         NEW r \in Queues, NEW u \in Users, AboutToExpire(r, u),
         \/ step[t] \notin {"expire", "expireSecondary"}
         \/ step[t] = "expire" /\ ~(r = Home(t) /\ u = User(t))
         \/ step[t] = "expireSecondary" /\ ~(r = Peer[Home(t)] /\ u = User(t))
  PROVE  AboutToExpire(r, u)'
<1>1. PICK k \in Tasks : /\ User(k) = u
                         /\ \/ step[k] = "expire" /\ Home(k) = r
                            \/ step[k] = "expireSecondary" /\ Peer[Home(k)] = r
  BY DEF AboutToExpire
<1>2. k # t
  BY <1>1
<1>3. step'[k] = step[k] /\ cur'[k] = cur[k]
  BY <1>2, OtherTasksStay
<1> QED BY <1>1, <1>3 DEF AboutToExpire, User, Tx, Home

\* While no call fails, every step keeps every positive total on its way to a TTL.
LEMMA ExpiryStep ==
  ASSUME RiskInv, OnceInv, ExpiryInv, [Next]_vars, \A t \in Tasks : ~ctxDone[t],
         "redis" \notin Faults, "expire" \notin Faults
  PROVE  ExpiryInv'
<1> SUFFICES ASSUME Clean', NEW r \in Queues, NEW u \in Users PROVE Expires(r, u)'
  BY DEF ExpiryInv, Expires
<1>1. /\ RiskInv' /\ RiskTypeOK /\ RiskTypeOK'
      /\ \A q \in Queues, v \in Users : Expires(q, v)
  BY RiskInvStep, NextIsRunStep, OnceStep DEF ExpiryInv, Expires, RiskInv
<1>2. ASSUME total'[r][u] = total[r][u], ttl'[r][u] = ttl[r][u],
             AboutToExpire(r, u) => AboutToExpire(r, u)'
      PROVE  Expires(r, u)'
  BY <1>1, <1>2 DEF Expires
<1>3. \A t \in Tasks : ~MayFail(t, "redis") /\ ~MayFail(t, "expire")
  BY DEF MayFail
<1>4. ASSUME NEW t \in Tasks, HandleErr(t), Leave(t), step[t] # "idle",
             Handle(t) \/ Begin(t) \/ Kill(t)
      PROVE  FALSE
  <2>1. Ends(t) /\ handled' = handled
    BY <1>1, <1>4 DEF HandleErr, Leave, Ends, RiskTypeOK
  <2>2. OthersContinue(t)
    BY <1>4, OtherTasksStay DEF OthersContinue, Continues, Tx
  <2> QED BY <1>4, <2>1, <2>2, FailureIsSeen
<1>5. ASSUME NEW t \in Tasks, Handle(t) PROVE Expires(r, u)'
  <2>1. step[t] # "idle"
    BY <1>5 DEF Handle, IncrPrimary, IncrPrimaryFails, ExpirePrimary, IncrSecondary,
       IncrSecondaryFails, ExpireSecondary, Get, GetFails, SetPrimary, SetPrimaryFails,
       SetSecondary, SetSecondaryFails, Approve, Block, Publish, PublishFails
  <2>2. Home(t) \in Queues /\ Peer[Home(t)] \in Queues /\ User(t) \in Users /\ Amt(t) \in Nat
    BY <2>1, TaskFacts
  <2>3. ~(\/ IncrPrimaryFails(t) \/ IncrSecondaryFails(t) \/ GetFails(t)
          \/ SetPrimaryFails(t) \/ SetSecondaryFails(t) \/ PublishFails(t))
    BY <1>4, <1>5, <2>1 DEF IncrPrimaryFails, IncrSecondaryFails, GetFails, SetPrimaryFails,
                      SetSecondaryFails, PublishFails
  \* A count on a key: it was positive before, or its counter owes the TTL.
  <2>4. ASSUME NEW q \in Queues, NEW next,
               total' = [total EXCEPT ![q][User(t)] = @ + Amt(t)], ttl' = ttl, cur' = cur,
               step' = [step EXCEPT ![t] = next],
               step[t] \notin {"expire", "expireSecondary"},
               total[q][User(t)] = 0 =>
                 \/ next = "expire" /\ q = Home(t)
                 \/ next = "expireSecondary" /\ q = Peer[Home(t)]
        PROVE  Expires(r, u)'
    <3>1. AboutToExpire(r, u) => AboutToExpire(r, u)'
      BY <1>5, <2>4, OwedKept
    <3>2. CASE q = r /\ User(t) = u
      <4>1. CASE total[q][User(t)] = 0
        <5>1. User(t)' = User(t) /\ Home(t)' = Home(t) /\ step'[t] = next
          BY <1>1, <2>4 DEF User, Tx, Home, RiskTypeOK
        <5> QED BY <2>4, <3>2, <4>1, <5>1 DEF Expires, AboutToExpire
      <4>2. CASE total[q][User(t)] # 0
        <5>1. total[r][u] > 0
          BY <1>1, <3>2, <4>2 DEF RiskTypeOK
        <5> QED BY <1>1, <2>4, <3>1, <5>1 DEF Expires
      <4> QED BY <4>1, <4>2
    <3>3. CASE ~(q = r /\ User(t) = u)
      <4>1. total'[r][u] = total[r][u]
        BY <1>1, <2>4, <3>3 DEF RiskTypeOK
      <4> QED BY <1>2, <2>4, <3>1, <4>1
    <3> QED BY <3>2, <3>3
  <2>5. CASE IncrPrimary(t)
    <3>1. total[Home(t)][User(t)] \in Nat
      BY <1>1, <2>2, TotalTyped
    <3>2. PICK resent : /\ resent = 0
                        /\ LET lo == total[Home(t)][User(t)] + resent IN
                           /\ total' = [total EXCEPT ![Home(t)][User(t)] = lo + Amt(t)]
                           /\ step' = [step EXCEPT ![t] = IF lo = 0 THEN "expire"
                                                                  ELSE AfterPrimary]
      BY <2>5 DEF IncrPrimary
    <3>3. total[Home(t)][User(t)] + resent = total[Home(t)][User(t)]
      BY <3>1, <3>2
    <3>4. total' = [total EXCEPT ![Home(t)][User(t)] = @ + Amt(t)]
      BY <3>2, <3>3
    <3>5. step' = [step EXCEPT ![t] = IF total[Home(t)][User(t)] = 0 THEN "expire"
                                                                     ELSE AfterPrimary]
      BY <3>2, <3>3
    <3>6. ttl' = ttl /\ cur' = cur /\ step[t] = "update"
      BY <2>5 DEF IncrPrimary, sqsVars
    <3> QED BY <2>2, <2>4, <3>4, <3>5, <3>6
  <2>6. CASE IncrSecondary(t)
    <3>1. /\ total' = [total EXCEPT ![Peer[Home(t)]][User(t)] = @ + Amt(t)]
          /\ ttl' = ttl /\ cur' = cur /\ step[t] = "secondary"
          /\ \E next : /\ step' = [step EXCEPT ![t] = next]
                       /\ total[Peer[Home(t)]][User(t)] = 0 => next = "expireSecondary"
      BY <2>6 DEF IncrSecondary, sqsVars
    <3> QED BY <2>2, <2>4, <3>1
  <2>7. ASSUME NEW q \in Queues, total' = total,
               ttl' = [ttl EXCEPT ![q][User(t)] = total[q][User(t)] > 0],
               \/ step[t] = "expire" /\ q = Home(t)
               \/ step[t] = "expireSecondary" /\ q = Peer[Home(t)]
        PROVE  Expires(r, u)'
    <3>1. CASE q = r /\ u = User(t)
      <4>1. ttl'[r][u] = (total[r][u] > 0)
        BY <1>1, <2>7, <3>1 DEF RiskTypeOK
      <4> QED BY <2>7, <4>1 DEF Expires
    <3>2. CASE ~(q = r /\ u = User(t))
      <4>1. ttl'[r][u] = ttl[r][u]
        BY <1>1, <2>7, <3>2 DEF RiskTypeOK
      <4>2. AboutToExpire(r, u) => AboutToExpire(r, u)'
        BY <1>5, <2>7, <3>2, OwedKept
      <4> QED BY <1>2, <2>7, <4>1, <4>2
    <3> QED BY <3>1, <3>2
  <2>8. CASE ExpirePrimary(t) \/ ExpireSecondary(t)
    BY <1>3, <2>2, <2>7, <2>8 DEF ExpirePrimary, ExpireSecondary
  <2>9. ASSUME NEW q \in Queues, SetTotal(t, q), step[t] \notin {"expire", "expireSecondary"}
        PROVE  Expires(r, u)'
    <3>1. CASE q = r /\ u = User(t)
      <4>1. ttl'[r][u] = TRUE
        BY <1>1, <2>9, <3>1 DEF SetTotal, RiskTypeOK
      <4> QED BY <4>1 DEF Expires
    <3>2. CASE ~(q = r /\ u = User(t))
      <4>1. ttl'[r][u] = ttl[r][u] /\ total'[r][u] = total[r][u]
        BY <1>1, <2>9, <3>2 DEF SetTotal, RiskTypeOK
      <4>2. AboutToExpire(r, u) => AboutToExpire(r, u)'
        BY <1>5, <2>9, OwedKept
      <4> QED BY <1>2, <4>1, <4>2
    <3> QED BY <3>1, <3>2
  <2>10. CASE SetPrimary(t) \/ SetSecondary(t)
    BY <2>2, <2>9, <2>10 DEF SetPrimary, SetSecondary
  <2>11. CASE Get(t) \/ Approve(t) \/ Block(t) \/ Publish(t)
    <3>1. step[t] \notin {"expire", "expireSecondary"} /\ total' = total /\ ttl' = ttl
      BY <2>11 DEF Get, Approve, Block, Publish, redisVars
    <3>2. AboutToExpire(r, u) => AboutToExpire(r, u)'
      BY <1>5, <3>1, OwedKept
    <3> QED BY <1>2, <3>1, <3>2
  <2> QED BY <1>5, <2>3, <2>5, <2>6, <2>8, <2>10, <2>11 DEF Handle
<1>6. ASSUME NEW t \in Tasks, Begin(t) PROVE Expires(r, u)'
  <2>1. step[t] = "idle" /\ total' = total /\ ttl' = ttl
    BY <1>6 DEF Begin, Process, redisVars, RiskInv, TaskInv
  <2>2. AboutToExpire(r, u) => AboutToExpire(r, u)'
    BY <1>6, <2>1, OwedKept
  <2> QED BY <1>2, <2>1, <2>2
<1>7. ASSUME NEW t \in Tasks, Kill(t) PROVE Expires(r, u)'
  <2>1. total' = total /\ ttl' = ttl /\ attempts' = attempts /\ handled' = handled
        /\ step'[t] = "idle"
    BY <1>1, <1>7 DEF Kill, Crash, Down, Leave, redisVars, RiskTypeOK
  <2>2. CASE step[t] = "idle"
    <3>1. AboutToExpire(r, u) => AboutToExpire(r, u)'
      BY <1>7, <2>2, OwedKept
    <3> QED BY <1>2, <2>1, <3>1
  <2>3. CASE step[t] # "idle"
    <3>1. OthersContinue(t)
      BY <1>7, OtherTasksStay DEF OthersContinue, Continues, Tx
    <3>2. Ends(t)
      BY <2>1, <2>3 DEF Ends
    <3> QED BY <2>1, <2>3, <3>1, <3>2, FailureIsSeen
  <2> QED BY <2>2, <2>3
<1>8. ASSUME step' = step, total' = total, ttl' = ttl,
             \A t \in Tasks : step[t] # "idle" => cur'[t] = cur[t]
      PROVE  Expires(r, u)'
  <2>1. AboutToExpire(r, u) => AboutToExpire(r, u)'
    BY <1>8 DEF AboutToExpire, User, Tx, Home
  <2> QED BY <1>2, <1>8, <2>1
<1>9. ASSUME NEW t \in Tasks, Receives(t) \/ Deletes(t) \/ Cancels(t) \/ Stops(t) \/ Restarts(t)
      PROVE  Expires(r, u)'
  BY <1>8, <1>9, CurStable DEF riskVars
<1>10. ASSUME (\E m \in Messages : TimesOut(m) \/ DeadLetters(m) \/ Retires(m)) \/ UNCHANGED vars
       PROVE  Expires(r, u)'
  <2>1. UNCHANGED riskVars /\ cur' = cur
    BY <1>10 DEF TimesOut, DeadLetters, Retires, VisibilityTimeout, Redrive, RetentionExpiry,
                 taskVars, sqsVars, vars
  <2> QED BY <1>8, <2>1 DEF riskVars
<1>11. ASSUME NEW q \in Queues, NEW v \in Users, KeyExpires(q, v) PROVE Expires(r, u)'
  <2>1. /\ step' = step /\ cur' = cur
        /\ total' = [total EXCEPT ![q][v] = 0] /\ ttl' = [ttl EXCEPT ![q][v] = FALSE]
    BY <1>11 DEF KeyExpires, sqsVars
  <2>2. CASE q = r /\ v = u
    <3>1. total'[r][u] = 0
      BY <1>1, <2>1, <2>2 DEF RiskTypeOK
    <3> QED BY <3>1 DEF Expires
  <2>3. CASE ~(q = r /\ v = u)
    <3>1. total'[r][u] = total[r][u] /\ ttl'[r][u] = ttl[r][u]
      BY <1>1, <2>1, <2>3 DEF RiskTypeOK
    <3>2. AboutToExpire(r, u) => AboutToExpire(r, u)'
      BY <2>1 DEF AboutToExpire, User, Tx, Home
    <3> QED BY <1>2, <3>1, <3>2
  <2> QED BY <2>2, <2>3
<1> QED BY <1>5, <1>6, <1>7, <1>9, <1>10, <1>11 DEF Next

\* Without SIGTERM no context is ever cancelled.
LEMMA ContextsStayOpen ==
  ASSUME SqsTypeOK, "shutdown" \notin Faults, \A t \in Tasks : ~ctxDone[t], [Next]_vars
  PROVE  \A t \in Tasks : ~ctxDone'[t]
<1>1. CASE ctxDone' = ctxDone
  BY <1>1
<1>2. ASSUME NEW t \in Tasks, Restarts(t) PROVE \A u \in Tasks : ~ctxDone'[u]
  BY <1>2 DEF Restarts, Restart, SqsTypeOK
<1>3. ASSUME NEW t \in Tasks, Handle(t) PROVE ctxDone' = ctxDone
  <2>1. HandleErr(t) \/ HandleOk(t) \/ UNCHANGED sqsVars
    BY <1>3 DEF Handle, IncrPrimary, IncrPrimaryFails, ExpirePrimary, IncrSecondary,
                IncrSecondaryFails, ExpireSecondary, Get, GetFails, SetPrimary,
                SetPrimaryFails, SetSecondary, SetSecondaryFails, Approve, Block,
                Publish, PublishFails
  <2> QED BY <2>1 DEF HandleErr, HandleOk, sqsVars
<1>4. ASSUME \/ \E m \in Messages : TimesOut(m) \/ DeadLetters(m) \/ Retires(m)
             \/ \E t \in Tasks : \/ Receives(t) \/ Begin(t) \/ Deletes(t)
                                 \/ Cancels(t) \/ Stops(t) \/ Kill(t)
             \/ \E r \in Queues, u \in Users : KeyExpires(r, u)
             \/ UNCHANGED vars
      PROVE  ctxDone' = ctxDone
  BY <1>4 DEF TimesOut, DeadLetters, Retires, VisibilityTimeout, Redrive, RetentionExpiry,
     Receives, Begin, Deletes, Cancels, Stops, Kill, Receive, Process, Delete, Stop, Crash,
     Down, KeyExpires, taskVars, sqsVars, vars
<1> QED BY <1>1, <1>2, <1>3, <1>4 DEF Next

\* If commands reach Redis once, EXPIRE does not fail and no task is told to
\* stop, every total will expire as long as no handler has failed: in either
\* check mode and any sync mode, with crashes, redelivery and failing
\* secondaries, only a task that returned an error or died leaves a total for ever.
THEOREM NoTotalForgetsItsTtl ==
  ASSUME "redis" \notin Faults, "expire" \notin Faults, "shutdown" \notin Faults
  PROVE  Spec => []EveryTotalExpires
<1>1. Init => OnceInv /\ ExpiryInv /\ \A t \in Tasks : ~ctxDone[t]
  BY DEF Init, SqsInit, RiskInit, OnceInv, ExpiryInv, Running
<1>2. RiskInv /\ OnceInv /\ [Next]_vars => OnceInv'
  BY NextIsRunStep, OnceStep
<1>3. RiskInv /\ OnceInv /\ ExpiryInv /\ (\A t \in Tasks : ~ctxDone[t]) /\ [Next]_vars
        => ExpiryInv'
  BY ExpiryStep
<1>4. RiskInv /\ (\A t \in Tasks : ~ctxDone[t]) /\ [Next]_vars => (\A t \in Tasks : ~ctxDone[t])'
  BY ContextsStayOpen DEF RiskInv
<1>5. ExpiryInv => EveryTotalExpires
  BY DEF ExpiryInv, EveryTotalExpires, Idle, NothingFailed, Clean, AboutToExpire
<1> QED BY <1>1, <1>2, <1>3, <1>4, <1>5, RiskInvInit, RiskInvStep, PTL DEF Spec
=============================================================================
