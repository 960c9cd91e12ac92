--------------------------- MODULE CostLedgerProofs ---------------------------
(***************************************************************************)
(* The money of an install, for every cap, calendar, number of runs and    *)
(* size of samples: a vault that asks for one run at a time passes a       *)
(* month's cap by no more than one run's overshoot.                        *)
(*                                                                         *)
(* A sum over a set is a recursive function in the community modules, so   *)
(* the first half shows what it computes: that its equation has a solution *)
(* and only one, by induction on subsets of a finite set.                  *)
(***************************************************************************)
EXTENDS CostLedger, FiniteSetTheorems, TLAPS

-----------------------------------------------------------------------------
(* Sums.                                                                   *)

\* Induction: a family of subsets of a finite set that is not empty has a smallest one.
LEMMA SmallestSubset ==
  ASSUME NEW S, IsFiniteSet(S), NEW T \in SUBSET SUBSET S, T # {}
  PROVE  \E U \in T : \A V \in T : V \subseteq U => V = U
<1>1. IsWellFoundedOn(StrictSubsetOrdering(S), FiniteSubsetsOf(S)) /\ T \subseteq FiniteSubsetsOf(S)
  BY FS_StrictSubsetOrderingWellFounded, FS_FiniteSubsetsOfFinite
<1>2. PICK U \in T : \A V \in T : ~ (<<V, U>> \in StrictSubsetOrdering(S))
  BY <1>1, WFMin
<1>3. ASSUME NEW V \in T, V \subseteq U PROVE V = U
  BY <1>2, <1>3 DEF StrictSubsetOrdering
<1> QED
  BY <1>3

First(s) == CHOOSE x \in s : TRUE

\* The element the sum takes first is one of the set.
LEMMA FirstIsIn == ASSUME NEW s, s # {} PROVE First(s) \in s
BY DEF First

\* The equation that defines the sum of f over the subsets of S.
Sums(f, S, it) ==
  it = [s \in SUBSET S |-> IF s = {} THEN 0 ELSE f[First(s)] + it[s \ {First(s)}]]

\* The equation at one subset.
LEMMA SumsAt ==
  ASSUME NEW f, NEW S, NEW it, Sums(f, S, it), NEW s \in SUBSET S
  PROVE  it[s] = IF s = {} THEN 0 ELSE f[First(s)] + it[s \ {First(s)}]
<1> DEFINE g == [t \in SUBSET S |-> IF t = {} THEN 0 ELSE f[First(t)] + it[t \ {First(t)}]]
<1>1. it = g
  BY Zenon DEF Sums
<1>2. g[s] = IF s = {} THEN 0 ELSE f[First(s)] + it[s \ {First(s)}]
  OBVIOUS
<1> HIDE DEF g
<1> QED
  BY <1>1, <1>2

\* At the empty set,
LEMMA SumsAtNone == ASSUME NEW f, NEW S, NEW it, Sums(f, S, it) PROVE it[{}] = 0
BY SumsAt

\* and at any other.
LEMMA SumsAtSome ==
  ASSUME NEW f, NEW S, NEW it, Sums(f, S, it), NEW s \in SUBSET S, s # {}
  PROVE  it[s] = f[First(s)] + it[s \ {First(s)}]
BY SumsAt

\* Two of its solutions agree.
LEMMA SumsAgree ==
  ASSUME NEW f, NEW S, NEW T, IsFiniteSet(S), NEW it, Sums(f, S, it), NEW jt, Sums(f, T, jt),
         NEW s \in SUBSET S, s \in SUBSET T
  PROVE  it[s] = jt[s]
<1> DEFINE Bad == {t \in SUBSET s : it[t] # jt[t]}
<1> SUFFICES ASSUME Bad # {} PROVE FALSE
  OBVIOUS
<1>1. IsFiniteSet(s) /\ Bad \in SUBSET SUBSET s
  BY FS_Subset
<1>2. PICK t \in Bad : \A u \in Bad : u \subseteq t => u = t
  <2> HIDE DEF Bad
  <2> QED
    BY <1>1, SmallestSubset
<1>3. t # {}
  <2>1. it[{}] = 0 /\ jt[{}] = 0
    BY SumsAtNone
  <2> QED
    BY <2>1
<1> DEFINE u == t \ {First(t)}
<1>4. u \subseteq t /\ u # t /\ u \notin Bad
  BY <1>2, <1>3, FirstIsIn
<1>5. it[u] = jt[u]
  BY <1>4
<1>6. it[t] = f[First(t)] + it[u] /\ jt[t] = f[First(t)] + jt[u]
  <2>1. t \in SUBSET S /\ t \in SUBSET T
    OBVIOUS
  <2>2. it[t] = f[First(t)] + it[u]
    BY SMTT(20), <2>1, <1>3, SumsAtSome
  <2>3. jt[t] = f[First(t)] + jt[u]
    BY <2>1, <1>3, SumsAtSome
  <2> QED
    BY <2>2, <2>3
<1> QED
  BY <1>2, <1>5, <1>6, Zenon

\* There is one.
LEMMA SumsExist == ASSUME NEW f, NEW S, IsFiniteSet(S) PROVE \E it : Sums(f, S, it)
<1> DEFINE Bad == {U \in SUBSET S : ~ \E it : Sums(f, U, it)}
<1> SUFFICES ASSUME Bad # {} PROVE FALSE
  OBVIOUS
<1>1. PICK U \in Bad : \A V \in Bad : V \subseteq U => V = U
  <2>1. Bad \in SUBSET SUBSET S
    OBVIOUS
  <2> HIDE DEF Bad
  <2> QED
    BY <2>1, SmallestSubset
<1> DEFINE G(V) == CHOOSE it : Sums(f, V, it)
           h == [s \in SUBSET U |-> IF s = {} THEN 0
                                    ELSE f[First(s)] + G(s \ {First(s)})[s \ {First(s)}]]
<1>2. ASSUME NEW V \in SUBSET U, V # U PROVE Sums(f, V, G(V))
  <2>1. \E it : Sums(f, V, it)
    BY <1>1, <1>2
  <2> QED
    BY <2>1, Zenon
<1>3. ASSUME NEW V \in SUBSET U, V # U PROVE h[V] = G(V)[V]
  <2>1. IsFiniteSet(V) /\ Sums(f, V, G(V)) /\ V \in SUBSET V
    BY <1>2, <1>3, FS_Subset
  <2>2. CASE V = {}
    <3>1. G(V)[V] = 0
      BY <2>1, <2>2, SumsAtNone
    <3> QED
      BY <3>1, <2>2
  <2>3. CASE V # {}
    <3> DEFINE W == V \ {First(V)}
    <3>1. W \in SUBSET U /\ W # U /\ IsFiniteSet(W) /\ W \in SUBSET V
      BY <2>1, FS_Subset
    <3>2. Sums(f, W, G(W))
      BY <3>1, <1>2
    <3>3. G(V)[V] = f[First(V)] + G(V)[W]
      BY <2>1, <2>3, SumsAtSome
    <3>4. G(V)[W] = G(W)[W]
      <4>1. W \in SUBSET W
        OBVIOUS
      <4> HIDE DEF G, W
      <4> QED
        BY <2>1, <3>1, <3>2, <4>1, SumsAgree
    <3>5. h[V] = f[First(V)] + G(W)[W]
      BY <2>3
    <3> QED
      BY <3>3, <3>4, <3>5, Zenon
  <2> QED
    BY <2>2, <2>3
<1>4. Sums(f, U, h)
  <2>1. ASSUME NEW s \in SUBSET U, s # {} PROVE h[s \ {First(s)}] = G(s \ {First(s)})[s \ {First(s)}]
    <3>1. s \ {First(s)} \in SUBSET U /\ s \ {First(s)} # U
      BY <2>1, FirstIsIn
    <3> QED
      BY <3>1, <1>3
  <2>2. h = [s \in SUBSET U |-> IF s = {} THEN 0 ELSE f[First(s)] + h[s \ {First(s)}]]
    <3> DEFINE k == [s \in SUBSET U |-> IF s = {} THEN 0 ELSE f[First(s)] + h[s \ {First(s)}]]
    <3>1. ASSUME NEW s \in SUBSET U PROVE h[s] = k[s]
      <4>1. CASE s = {}
        BY <4>1
      <4>2. CASE s # {}
        <5>1. h[s] = f[First(s)] + G(s \ {First(s)})[s \ {First(s)}]
          BY <4>2
        <5>2. k[s] = f[First(s)] + h[s \ {First(s)}]
          BY <4>2
        <5> HIDE DEF G, h, k
        <5> QED
          BY <5>1, <5>2, <4>2, <2>1
      <4> QED
        BY <4>1, <4>2
    <3>2. DOMAIN h = SUBSET U /\ DOMAIN k = SUBSET U /\ h = [s \in DOMAIN h |-> h[s]] /\ k = [s \in DOMAIN k |-> k[s]]
      OBVIOUS
    <3> HIDE DEF h, k
    <3>3. h = k
      BY <3>1, <3>2
    <3> QED
      BY <3>3 DEF k
  <2> QED
    BY <2>2, Zenon DEF Sums
<1>5. U \in Bad /\ \E it : Sums(f, U, it)
  BY <1>4, <1>1
<1> QED
  BY <1>5

\* What SumFunctionOnSet is, then: a sum over the set, element by element.
LEMMA SumIsOf ==
  ASSUME NEW f, NEW S, IsFiniteSet(S), NEW it, Sums(f, S, it), NEW T \in SUBSET S
  PROVE  SumFunctionOnSet(f, T) = it[T]
<1> DEFINE jt == CHOOSE jt : Sums(f, T, jt)
<1>1. SumFunctionOnSet(f, T) = jt[T]
  BY DEF SumFunctionOnSet, FoldFunctionOnSet, MapThenFoldSet, Sums, First
<1>2. Sums(f, T, jt)
  <2>1. \E kt : Sums(f, T, kt)
    BY FS_Subset, SumsExist
  <2> QED
    BY <2>1, Zenon
<1>3. T \in SUBSET T
  OBVIOUS
<1> HIDE DEF jt
<1>4. it[T] = jt[T]
  BY <1>2, <1>3, SumsAgree
<1> QED
  BY <1>1, <1>4

\* The sum over nothing is 0,
LEMMA SumOfNone == ASSUME NEW f PROVE SumFunctionOnSet(f, {}) = 0
<1>1. IsFiniteSet({})
  BY FS_EmptySet
<1>2. PICK it : Sums(f, {}, it)
  BY <1>1, SumsExist
<1>3. SumFunctionOnSet(f, {}) = it[{}]
  BY <1>1, <1>2, SumIsOf
<1> QED
  BY <1>2, <1>3, SumsAtNone

\* and over more it is the first element's value and the sum over the others.
LEMMA SumFirst ==
  ASSUME NEW f, NEW S, IsFiniteSet(S), S # {}
  PROVE  SumFunctionOnSet(f, S) = f[First(S)] + SumFunctionOnSet(f, S \ {First(S)})
<1>1. PICK it : Sums(f, S, it)
  BY SumsExist
<1>2. S \in SUBSET S /\ S \ {First(S)} \in SUBSET S
  OBVIOUS
<1>3. SumFunctionOnSet(f, S) = it[S]
  BY <1>1, <1>2, SumIsOf
<1>4. SumFunctionOnSet(f, S \ {First(S)}) = it[S \ {First(S)}]
  BY <1>1, <1>2, SumIsOf
<1>5. it[S] = f[First(S)] + it[S \ {First(S)}]
  BY <1>1, <1>2, SumsAtSome
<1> QED
  BY <1>3, <1>4, <1>5

\* A sum of naturals is a natural.
LEMMA SumType ==
  ASSUME NEW f, NEW S, IsFiniteSet(S), \A x \in S : f[x] \in Nat
  PROVE  SumFunctionOnSet(f, S) \in Nat
<1> DEFINE Bad == {U \in SUBSET S : SumFunctionOnSet(f, U) \notin Nat}
<1> SUFFICES ASSUME Bad # {} PROVE FALSE
  OBVIOUS
<1>1. PICK U \in Bad : \A V \in Bad : V \subseteq U => V = U
  <2>1. Bad \in SUBSET SUBSET S
    OBVIOUS
  <2> HIDE DEF Bad
  <2> QED
    BY <2>1, SmallestSubset
<1>2. IsFiniteSet(U) /\ U # {}
  <2>1. SumFunctionOnSet(f, {}) = 0
    BY SumOfNone
  <2>2. IsFiniteSet(U)
    BY FS_Subset
  <2> QED
    BY <2>1, <2>2
<1> DEFINE V == U \ {First(U)}
<1>3. First(U) \in U /\ V \subseteq U /\ V # U
  BY <1>2, FirstIsIn
<1>4. SumFunctionOnSet(f, V) \in Nat /\ f[First(U)] \in Nat
  BY <1>1, <1>3
<1>5. SumFunctionOnSet(f, U) = f[First(U)] + SumFunctionOnSet(f, V)
  BY <1>2, SumFirst
<1> QED
  BY <1>4, <1>5

\* Whichever element is taken out.
LEMMA SumTake ==
  ASSUME NEW f, NEW S, IsFiniteSet(S), \A x \in S : f[x] \in Nat, NEW x \in S
  PROVE  SumFunctionOnSet(f, S) = f[x] + SumFunctionOnSet(f, S \ {x})
<1> DEFINE Taken(U, z) == SumFunctionOnSet(f, U) = f[z] + SumFunctionOnSet(f, U \ {z})
           Bad == {U \in SUBSET S : \E z \in U : ~ Taken(U, z)}
<1> SUFFICES ASSUME Bad # {} PROVE FALSE
  OBVIOUS
<1>1. PICK U \in Bad : \A V \in Bad : V \subseteq U => V = U
  <2>1. Bad \in SUBSET SUBSET S
    OBVIOUS
  <2> HIDE DEF Bad
  <2> QED
    BY <2>1, SmallestSubset
<1>2. PICK z \in U : ~ Taken(U, z)
  BY <1>1
<1> DEFINE y == First(U)
           V == U \ {y}
           W == U \ {z}
<1>3. IsFiniteSet(U) /\ U # {} /\ y \in U /\ U \subseteq S
  BY FS_Subset, FirstIsIn
<1>4. Taken(U, y)
  BY <1>3, SumFirst
<1>5. y # z
  BY <1>2, <1>4
<1>6. Taken(V, z) /\ Taken(W, y)
  <2>1. V \subseteq U /\ V # U /\ z \in V /\ W \subseteq U /\ W # U /\ y \in W
    BY <1>3, <1>5
  <2>2. V \notin Bad /\ W \notin Bad
    BY <1>1, <2>1
  <2>3. V \in SUBSET S /\ W \in SUBSET S
    BY <1>3
  <2> HIDE DEF Taken, V, W, y
  <2> QED
    BY <2>1, <2>2, <2>3
<1>7. V \ {z} = W \ {y} /\ IsFiniteSet(W \ {y}) /\ \A v \in W \ {y} : f[v] \in Nat
  BY <1>3, FS_Subset
<1>8. f[z] \in Nat /\ f[y] \in Nat /\ SumFunctionOnSet(f, W \ {y}) \in Nat
  BY <1>3, <1>7, SumType
<1>9. SumFunctionOnSet(f, U) = f[z] + SumFunctionOnSet(f, U \ {z})
  <2>1. SumFunctionOnSet(f, V) = f[z] + SumFunctionOnSet(f, W \ {y})
    BY <1>6, <1>7
  <2>2. SumFunctionOnSet(f, W) = f[y] + SumFunctionOnSet(f, W \ {y})
    BY <1>6
  <2>3. SumFunctionOnSet(f, U) = f[y] + SumFunctionOnSet(f, V)
    BY <1>4
  <2> HIDE DEF Taken, V, y
  <2>4. SumFunctionOnSet(f, U) = f[z] + SumFunctionOnSet(f, W)
    BY <1>8, <2>1, <2>2, <2>3
  <2> QED
    BY <2>4
<1> QED
  BY <1>2, <1>9

\* Functions that agree on a set have the same sum over it.
LEMMA SumSame ==
  ASSUME NEW f, NEW g, NEW S, IsFiniteSet(S), \A x \in S : f[x] = g[x]
  PROVE  SumFunctionOnSet(f, S) = SumFunctionOnSet(g, S)
<1> DEFINE Bad == {U \in SUBSET S : SumFunctionOnSet(f, U) # SumFunctionOnSet(g, U)}
<1> SUFFICES ASSUME Bad # {} PROVE FALSE
  OBVIOUS
<1>1. PICK U \in Bad : \A V \in Bad : V \subseteq U => V = U
  <2>1. Bad \in SUBSET SUBSET S
    OBVIOUS
  <2> HIDE DEF Bad
  <2> QED
    BY <2>1, SmallestSubset
<1>2. IsFiniteSet(U) /\ U # {}
  <2>1. SumFunctionOnSet(f, {}) = SumFunctionOnSet(g, {})
    BY SumOfNone
  <2> QED
    BY <2>1, FS_Subset
<1> DEFINE V == U \ {First(U)}
<1>3. First(U) \in U /\ V \subseteq U /\ V # U
  BY <1>2, FirstIsIn
<1>4. SumFunctionOnSet(f, V) = SumFunctionOnSet(g, V) /\ f[First(U)] = g[First(U)]
  BY <1>1, <1>3
<1>5. SumFunctionOnSet(f, U) = f[First(U)] + SumFunctionOnSet(f, V)
  BY <1>2, SumFirst
<1>6. SumFunctionOnSet(g, U) = g[First(U)] + SumFunctionOnSet(g, V)
  BY <1>2, SumFirst
<1> QED
  BY <1>1, <1>4, <1>5, <1>6

\* A finite set of naturals that is not empty has a greatest element.
LEMMA GreatestExists ==
  ASSUME NEW S, IsFiniteSet(S), \A x \in S : x \in Nat
  PROVE  S = {} \/ \E x \in S : \A y \in S : y <= x
<1> DEFINE Bad == {U \in SUBSET S : U # {} /\ ~ \E x \in U : \A y \in U : y <= x}
<1> SUFFICES ASSUME Bad # {} PROVE FALSE
  OBVIOUS
<1>1. PICK U \in Bad : \A V \in Bad : V \subseteq U => V = U
  <2>1. Bad \in SUBSET SUBSET S
    OBVIOUS
  <2> HIDE DEF Bad
  <2> QED
    BY <2>1, SmallestSubset
<1>2. PICK x \in U : TRUE
  OBVIOUS
<1> DEFINE V == U \ {x}
<1>3. V = {} \/ \E z \in V : \A y \in V : y <= z
  <2>1. V \subseteq U /\ V # U /\ V \in SUBSET S
    OBVIOUS
  <2>2. V \notin Bad
    BY <1>1, <2>1
  <2> QED
    BY <2>1, <2>2
<1>4. CASE V = {}
  <2>1. U = {x} /\ x \in Nat
    BY <1>4
  <2> QED
    BY <2>1
<1>5. ASSUME NEW z \in V, \A y \in V : y <= z PROVE FALSE
  <2>1. x \in Nat /\ z \in Nat /\ z \in U /\ \A y \in U : y \in Nat /\ (y = x \/ y \in V)
    OBVIOUS
  <2>2. IF x <= z THEN \A y \in U : y <= z ELSE \A y \in U : y <= x
    BY <1>5, <2>1
  <2> QED
    BY <1>1, <2>1, <2>2
<1> QED
  BY <1>3, <1>4, <1>5

\* What Max chooses is the greatest element.
LEMMA MaxIsGreatest ==
  ASSUME NEW S, IsFiniteSet(S), S \subseteq Nat, S # {}
  PROVE  Max(S) \in S /\ \A x \in S : x <= Max(S)
<1>1. \E x \in S : \A y \in S : x >= y
  BY GreatestExists
<1> QED
  BY <1>1 DEF Max
-----------------------------------------------------------------------------
(* What runs have spent.                                                   *)

RunType == [outcome : {"none", "running", "ended"}, day : Days, cost : Nat,
            num : Nat, den : Nat \ {0}, samples : Nat, late : Nat]

Spend(h, R) == SumFunctionOnSet([r \in Runs |-> h[r].cost], R)

\* Cost is a sum over the rows, stated of any rows so that both sides of a step can use it.
LEMMA CostIsSpend == \A R : Cost(R) = Spend(run, R)
BY DEF Cost, Spend

\* An install has finitely many runs.
LEMMA RunsAreFinite == ASSUME NEW R \in SUBSET Runs PROVE IsFiniteSet(R)
<1>1. IsFiniteSet(Runs)
  BY MoneyAssumption, FS_Interval DEF Runs
<1> QED
  BY <1>1, FS_Subset

\* What runs have spent is a natural,
LEMMA SpendType ==
  ASSUME NEW h \in [Runs -> RunType], NEW R \in SUBSET Runs
  PROVE  Spend(h, R) \in Nat
<1> DEFINE f == [r \in Runs |-> h[r].cost]
<1>1. \A r \in R : f[r] \in Nat
  BY DEF RunType
<1> HIDE DEF f
<1>2. SumFunctionOnSet(f, R) \in Nat
  BY <1>1, RunsAreFinite, SumType
<1> QED
  BY <1>2 DEF Spend, f

\* nothing where there are none,
LEMMA SpendOfNone == ASSUME NEW h PROVE Spend(h, {}) = 0
BY SumOfNone DEF Spend

\* one run's cost and that of the others,
LEMMA SpendTake ==
  ASSUME NEW h \in [Runs -> RunType], NEW R \in SUBSET Runs, NEW r \in R
  PROVE  Spend(h, R) = h[r].cost + Spend(h, R \ {r})
<1> DEFINE f == [s \in Runs |-> h[s].cost]
<1>1. (\A s \in R : f[s] \in Nat) /\ f[r] = h[r].cost
  BY DEF RunType
<1> HIDE DEF f
<1>2. SumFunctionOnSet(f, R) = f[r] + SumFunctionOnSet(f, R \ {r})
  BY <1>1, RunsAreFinite, SumTake
<1> QED
  BY <1>1, <1>2 DEF Spend, f

\* and the same wherever the costs are.
LEMMA SpendSame ==
  ASSUME NEW h, NEW g, NEW R \in SUBSET Runs, \A r \in R : g[r].cost = h[r].cost
  PROVE  Spend(g, R) = Spend(h, R)
<1> DEFINE f == [s \in Runs |-> h[s].cost]
           e == [s \in Runs |-> g[s].cost]
<1>1. \A s \in R : f[s] = e[s]
  OBVIOUS
<1> HIDE DEF f, e
<1>2. SumFunctionOnSet(f, R) = SumFunctionOnSet(e, R)
  BY <1>1, RunsAreFinite, SumSame
<1> QED
  BY <1>2 DEF Spend, f, e

-----------------------------------------------------------------------------
(* The calendar.                                                           *)

Month(d) == window_start("month", d)

\* A day is in the month that begins last before it.
LEMMA MonthBegins ==
  ASSUME NEW d \in Days
  PROVE  /\ Month(d) \in MonthStarts /\ Month(d) <= d /\ Month(d) \in Days
         /\ \A m \in MonthStarts : m <= d => m <= Month(d)
<1> DEFINE S == {m \in MonthStarts : m <= d}
<1>1. Month(d) = Max(S)
  BY DEF Month, window_start
<1>2. \A x \in S : x \in Nat
  BY CalendarAssumption DEF Days
<1>3. S # {} /\ S \subseteq Nat
  <2>1. 1 \in MonthStarts /\ 1 <= d
    BY CalendarAssumption DEF Days
  <2> QED
    BY <1>2, <2>1
<1>4. IsFiniteSet(S)
  <2>1. S \in SUBSET Days
    BY CalendarAssumption
  <2>2. IsFiniteSet(Days)
    BY CalendarAssumption, FS_Interval DEF Days
  <2> HIDE DEF S
  <2> QED
    BY <2>1, <2>2, FS_Subset
<1>5. Max(S) \in S /\ \A x \in S : x <= Max(S)
  <2> HIDE DEF S
  <2> QED
    BY <1>3, <1>4, MaxIsGreatest
<1> QED
  BY <1>1, <1>5, CalendarAssumption

\* Days between the first of the month and today are in today's month.
LEMMA MonthOfBetween ==
  ASSUME NEW d \in Days, NEW e \in Days, d <= e
  PROVE  /\ Month(d) <= Month(e)
         /\ Month(e) <= d <=> Month(d) = Month(e)
<1>1. Month(d) \in Int /\ Month(e) \in Int /\ d \in Int /\ e \in Int
  BY MonthBegins DEF Days
<1>2. Month(d) <= d /\ Month(d) \in MonthStarts /\ Month(e) \in MonthStarts /\ Month(e) <= e
  BY MonthBegins
<1>3. Month(d) <= e => Month(d) <= Month(e)
  BY <1>2, MonthBegins
<1>4. Month(e) <= d => Month(e) <= Month(d)
  BY <1>2, MonthBegins
<1> QED
  BY <1>1, <1>2, <1>3, <1>4

\* What a sample may be has a largest value.
LEMMA LargestSample ==
  /\ Max(Samples) \in Nat /\ \A a \in Samples : a \in Nat /\ a <= Max(Samples)
  /\ Overshoot \in Nat
<1>1. (\A a \in Samples : a \in Nat) /\ Samples # {} /\ Samples \subseteq Nat /\ IsFiniteSet(Samples)
  BY MoneyAssumption
<1>2. Max(Samples) \in Samples /\ \A a \in Samples : a <= Max(Samples)
  BY <1>1, MaxIsGreatest
<1>3. Max(Samples) \in Nat
  BY <1>1, <1>2
<1>4. \A k, l \in Nat : k * (1 + l) \in Nat
  OBVIOUS
<1> QED
  BY <1>1, <1>2, <1>3, <1>4, MoneyAssumption DEF Overshoot

-----------------------------------------------------------------------------
(* Types.                                                                  *)

\* The rows have the type by which the lemmas on sums name it.
LEMMA RunsOk == TypeOK => run \in [Runs -> RunType]
BY DEF TypeOK, RunType

\* The empty ledger is well typed.
LEMMA TypeOKInitially == Init => TypeOK
BY CalendarAssumption DEF Init, TypeOK, NoRun, NoQuote, Days

\* Every figure that is read is a natural, since a sum of costs is.
LEMMA TypeOKStep == TypeOK /\ [Next]_vars => TypeOK'
<1> SUFFICES ASSUME TypeOK, [Next]_vars PROVE TypeOK'
  OBVIOUS
<1>1. run \in [Runs -> RunType]
  BY RunsOk
<1>2. ASSUME NEW c \in Callers, ReadFigures(c) PROVE TypeOK'
  <2> DEFINE R == {r \in Since(window_start("month", today)) : Ended(r)}
  <2>1. R \in SUBSET Runs /\ recent_costs_for_cap \in SUBSET Runs
    BY DEF Since, recent_costs_for_cap
  <2>2. month_spent \in Nat /\ Cost(recent_costs_for_cap) \in Nat
    <3>1. month_spent = Spend(run, R)
      BY CostIsSpend DEF month_spent
    <3> QED
      BY <1>1, <2>1, <3>1, SpendType, CostIsSpend
  <2>3. Cardinality(recent_costs_for_cap) \in Nat
    BY <2>1, RunsAreFinite, FS_CardinalityType
  <2> QED
    BY <1>2, <2>2, <2>3 DEF ReadFigures, TypeOK
<1>3. ASSUME NEW c \in Callers, Refused(c) PROVE TypeOK'
  BY <1>3 DEF Refused, TypeOK, NoQuote
<1>4. ASSUME NEW c \in Callers, NEW r \in Runs, Wake(c, r) PROVE TypeOK'
  <2>1. Estimate(quote[c]).num \in Nat /\ Estimate(quote[c]).den \in Nat \ {0}
    <3>1. quote[c].sum \in Nat /\ quote[c].n \in Nat
      BY DEF TypeOK
    <3>2. \A a, b \in Nat : a * b \in Nat /\ (a # 0 /\ b # 0 => a * b # 0)
      OBVIOUS
    <3> QED
      BY <3>1, <3>2, MoneyAssumption DEF Estimate
  <2> QED
    BY <1>4, <2>1 DEF Wake, TypeOK, NoRun, NoQuote
<1>5. ASSUME NEW r \in Runs, End(r) PROVE TypeOK'
  BY <1>5 DEF End, TypeOK
<1>6. ASSUME NEW r \in Runs, NEW a \in Samples, Report(r, a) PROVE TypeOK'
  BY <1>6, LargestSample DEF Report, TypeOK
<1>7. ASSUME NEW r \in Runs, NEW a \in Samples, LateReport(r, a) PROVE TypeOK'
  BY <1>7, LargestSample DEF LateReport, TypeOK
<1>8. CASE NextDay
  BY <1>8, CalendarAssumption DEF NextDay, TypeOK, Days
<1>9. CASE UNCHANGED vars
  BY <1>9 DEF vars, TypeOK
<1> QED
  BY <1>2, <1>3, <1>4, <1>5, <1>6, <1>7, <1>8, <1>9 DEF Next

\* The ledger, the figures its callers hold and the calendar keep their types (TypeOK).
THEOREM TypeCorrect == Spec => []TypeOK
BY TypeOKInitially, TypeOKStep, PTL DEF Spec

-----------------------------------------------------------------------------
(* The cap.                                                                *)

\* A vault that is serial has one request or one run at a time,
Alone ==
  /\ \A c, d \in Callers : quote[c].held /\ quote[d].held => c = d
  /\ \A r, s \in Runs : run[r].outcome = "running" /\ run[s].outcome = "running" => r = s
  /\ \A c \in Callers, r \in Runs : ~ (quote[c].held /\ run[r].outcome = "running")

Dated == \A r \in Runs : Started(r) => run[r].day <= today

\* a run passes its reservation by the sample that crosses it and the late ones,
Limited == \A r \in Runs : run[r].outcome = "running" =>
  /\ run[r].late <= MaxLate
  /\ run[r].cost * run[r].den <= run[r].num + Max(Samples) * (1 + run[r].late) * run[r].den

\* which fits what the month has left when it starts and as long as it runs,
Fitting == \A m \in MonthStarts : \A r \in RunsOf(m) : run[r].outcome = "running" =>
  run[r].num + run[r].den * Cost(RunsOf(m) \ {r}) <= Cap * run[r].den

\* because the figures a caller holds are no less than what today's month has cost.
Quoted == \A c \in Callers : quote[c].held => Cost(RunsOf(Month(today))) <= quote[c].spent

Money == Alone /\ Dated /\ Limited /\ Fitting /\ Quoted /\ MonthlySpendBounded

\* The estimate fits the remaining budget, and so does it with what was spent.
LEMMA FitsWithSpent ==
  ASSUME NEW num \in Nat, NEW den \in Nat, NEW spent \in Nat, NEW cost \in Nat,
         cost <= spent, num <= (Cap - spent) * den
  PROVE  num + den * cost <= Cap * den
<1>1. Cap \in Nat
  BY MoneyAssumption
<1>2. (Cap - spent) * den + den * cost <= Cap * den
  <2>1. (Cap - spent) * den = Cap * den - spent * den
    BY <1>1
  <2>2. den * cost <= spent * den
    OBVIOUS
  <2>3. Cap * den \in Int /\ spent * den \in Int /\ den * cost \in Int
    BY <1>1
  <2> QED
    BY <2>1, <2>2, <2>3
<1>3. (Cap - spent) * den \in Int /\ den * cost \in Int /\ Cap * den \in Int
  BY <1>1
<1> QED
  BY <1>2, <1>3

\* A run within its limit and a reservation that fits keep a month within the bound.
LEMMA LiveMonthIsBounded ==
  ASSUME NEW h \in [Runs -> RunType], NEW R \in SUBSET Runs, NEW r \in R,
         h[r].late <= MaxLate,
         h[r].cost * h[r].den <= h[r].num + Max(Samples) * (1 + h[r].late) * h[r].den,
         h[r].num + h[r].den * Spend(h, R \ {r}) <= Cap * h[r].den
  PROVE  Spend(h, R) <= Cap + Overshoot
<1> DEFINE d == h[r].den
           c == h[r].cost
           n == h[r].num
           l == h[r].late
           k == Max(Samples)
           o == Spend(h, R \ {r})
           t == k * (1 + l)
<1>1. d \in Nat \ {0} /\ c \in Nat /\ n \in Nat /\ l \in Nat /\ k \in Nat /\ o \in Nat /\ Cap \in Nat /\ MaxLate \in Nat
  BY SpendType, LargestSample, MoneyAssumption DEF RunType
<1>2. Spend(h, R) = c + o
  BY SpendTake
<1>3. t \in Nat /\ t <= Overshoot /\ Overshoot \in Nat
  <2>1. \A x, y, z \in Nat : y <= z => x * (1 + y) \in Nat /\ x * (1 + y) <= x * (1 + z)
    OBVIOUS
  <2> QED
    BY <1>1, <2>1, LargestSample DEF Overshoot
<1>4. c * d <= n + t * d /\ n + d * o <= Cap * d
  OBVIOUS
<1> HIDE DEF d, c, n, l, k, o, t
<1>5. (c + o) * d <= (Cap + t) * d
  <2>1. (c + o) * d = c * d + d * o /\ (Cap + t) * d = Cap * d + t * d
    BY <1>1, <1>3
  <2>2. c * d \in Int /\ d * o \in Int /\ Cap * d \in Int /\ t * d \in Int
    BY <1>1, <1>3
  <2> QED
    BY <1>1, <1>4, <2>1, <2>2
<1>6. c + o <= Cap + t
  <2>1. \A x, y \in Nat, z \in Nat \ {0} : x * z <= y * z => x <= y
    OBVIOUS
  <2> QED
    BY <1>1, <1>3, <1>5, <2>1
<1> QED
  BY <1>1, <1>2, <1>3, <1>6

\* One more sample.
LEMMA SampleAdded ==
  ASSUME NEW c \in Nat, NEW d \in Nat, NEW n \in Nat, NEW k \in Nat, NEW l \in Nat, NEW a \in Nat, a <= k,
         c * d <= n + k * l * d
  PROVE  (c + a) * d <= n + k * (l + 1) * d
<1>1. (c + a) * d = c * d + a * d /\ k * (l + 1) * d = k * l * d + k * d /\ a * d <= k * d
  OBVIOUS
<1>2. c * d \in Int /\ a * d \in Int /\ k * l * d \in Int /\ k * d \in Int
  OBVIOUS
<1> QED
  BY <1>1, <1>2

\* Before the first run nothing is spent.
LEMMA MoneyInitially == Init => Money
<1> SUFFICES ASSUME Init PROVE Money
  OBVIOUS
<1>1. \A m : RunsOf(m) = {}
  BY DEF Init, RunsOf, Started, NoRun
<1>2. Cap + Overshoot \in Nat
  BY LargestSample, MoneyAssumption
<1>3. MonthlySpendBounded
  BY <1>1, <1>2, CostIsSpend, SpendOfNone DEF MonthlySpendBounded
<1> QED
  BY <1>1, <1>3 DEF Init, Money, Alone, Dated, Limited, Fitting, Quoted, Started, NoRun, NoQuote

\* The figures after a step.
LEMMA CostIsSpendNext ==
  \A m : /\ Cost(RunsOf(m))' = Spend(run', RunsOf(m)')
         /\ \A r : Cost(RunsOf(m) \ {r})' = Spend(run', RunsOf(m)' \ {r})
BY DEF Cost, Spend, RunsOf, window_start, Started

\* Where no cost changes and no run starts, no month's figures do.
LEMMA MonthsKept ==
  ASSUME TypeOK,
         \A r \in Runs : /\ run'[r].cost = run[r].cost /\ run'[r].day = run[r].day
                         /\ run'[r].outcome = "none" <=> run[r].outcome = "none"
  PROVE  \A m : RunsOf(m)' = RunsOf(m) /\ \A R \in SUBSET Runs : Spend(run', R) = Spend(run, R)
<1>1. \A m : RunsOf(m)' = RunsOf(m)
  BY DEF RunsOf, Started, window_start
<1>2. \A R \in SUBSET Runs : Spend(run', R) = Spend(run, R)
  BY SpendSame
<1> QED
  BY <1>1, <1>2

\* A month's runs are runs, before and after a step.
LEMMA RunsOfAreRuns == \A m : RunsOf(m) \in SUBSET Runs /\ RunsOf(m)' \in SUBSET Runs
BY DEF RunsOf

\* A step that only moves quotes or ends runs keeps all the figures.
LEMMA FiguresKept ==
  ASSUME TypeOK, Money,
         \A r \in Runs : /\ run'[r].cost = run[r].cost /\ run'[r].day = run[r].day
                         /\ run'[r].num = run[r].num /\ run'[r].den = run[r].den /\ run'[r].late = run[r].late
                         /\ run'[r].outcome = "none" <=> run[r].outcome = "none"
                         /\ run'[r].outcome = "running" => run[r].outcome = "running"
  PROVE  Limited' /\ Fitting' /\ MonthlySpendBounded'
<1>1. \A m : RunsOf(m)' = RunsOf(m) /\ Spend(run', RunsOf(m)) = Spend(run, RunsOf(m))
  BY MonthsKept, RunsOfAreRuns
<1>2. \A m, r : Spend(run', RunsOf(m) \ {r}) = Spend(run, RunsOf(m) \ {r})
  <2>1. \A m, r : RunsOf(m) \ {r} \in SUBSET Runs
    BY RunsOfAreRuns
  <2> QED
    BY <2>1, MonthsKept
<1>3. Limited'
  BY DEF Money, Limited
<1>4. Fitting'
  <2>1. \A m, r : Cost(RunsOf(m) \ {r})' = Cost(RunsOf(m) \ {r})
    <3>1. ASSUME NEW m, NEW r PROVE Cost(RunsOf(m) \ {r})' = Cost(RunsOf(m) \ {r})
      <4>1. Cost(RunsOf(m) \ {r})' = Spend(run', RunsOf(m)' \ {r})
        BY CostIsSpendNext
      <4>2. Cost(RunsOf(m) \ {r}) = Spend(run, RunsOf(m) \ {r})
        BY CostIsSpend
      <4> QED
        BY <1>1, <1>2, <4>1, <4>2
    <3> QED
      BY <3>1
  <2>2. ASSUME NEW m \in MonthStarts, NEW r \in RunsOf(m)', run'[r].outcome = "running"
        PROVE  run'[r].num + run'[r].den * Cost(RunsOf(m) \ {r})' <= Cap * run'[r].den
    <3>1. r \in RunsOf(m) /\ r \in Runs
      BY <1>1, RunsOfAreRuns
    <3>2. run[r].num + run[r].den * Cost(RunsOf(m) \ {r}) <= Cap * run[r].den
      BY <2>2, <3>1 DEF Money, Fitting
    <3>3. run'[r].num = run[r].num /\ run'[r].den = run[r].den /\ Cost(RunsOf(m) \ {r})' = Cost(RunsOf(m) \ {r})
      BY <2>1, <3>1
    <3> QED
      BY <3>2, <3>3, Zenon
  <2> QED
    BY <2>2 DEF Fitting
<1>5. MonthlySpendBounded'
  BY <1>1, CostIsSpend, CostIsSpendNext DEF Money, MonthlySpendBounded
<1> QED
  BY <1>3, <1>4, <1>5

\* The figures a serial caller reads are what today's month has cost: nothing is running.
LEMMA ReadStep ==
  ASSUME TypeOK, Money, Serial, NEW c \in Callers, ReadFigures(c)
  PROVE  Money'
<1>1. run' = run /\ today' = today /\ ~ AskedOrRunning
  BY DEF ReadFigures
<1>2. Limited' /\ Fitting' /\ MonthlySpendBounded'
  BY <1>1, FiguresKept
<1>3. Alone'
  BY <1>1 DEF ReadFigures, Alone, AskedOrRunning, TypeOK
<1>4. Dated'
  BY <1>1 DEF Money, Dated, Started
<1>5. month_spent = Spend(run, RunsOf(Month(today)))
  <2>1. \A r \in Runs : Started(r) => Ended(r)
    BY <1>1, RunsOk DEF AskedOrRunning, Started, Ended, RunType
  <2>2. today \in Days /\ \A r \in Runs : run[r].day \in Days
    BY RunsOk DEF TypeOK, RunType
  <2>3. \A r \in Runs : Started(r) => (run[r].day >= Month(today) <=> Month(run[r].day) = Month(today))
    <3>1. ASSUME NEW r \in Runs, Started(r) PROVE run[r].day >= Month(today) <=> Month(run[r].day) = Month(today)
      <4>1. run[r].day \in Days /\ run[r].day <= today
        BY <2>2, <3>1 DEF Money, Dated
      <4>2. Month(today) <= run[r].day <=> Month(run[r].day) = Month(today)
        BY <2>2, <4>1, MonthOfBetween
      <4>3. Month(today) \in Days
        BY <2>2, MonthBegins
      <4> QED
        BY <4>1, <4>2, <4>3 DEF Days
    <3> QED
      BY <3>1
  <2>4. {r \in Since(window_start("month", today)) : Ended(r)} = RunsOf(Month(today))
    BY <2>1, <2>3 DEF Since, RunsOf, Month
  <2> QED
    BY <2>4, CostIsSpend DEF month_spent
<1>6. Quoted'
  <2>1. \A d \in Callers : quote'[d].held => d = c
    BY <1>1 DEF ReadFigures, AskedOrRunning, TypeOK
  <2>2. quote'[c].spent = month_spent
    BY DEF ReadFigures, TypeOK
  <2>3. Cost(RunsOf(Month(today)))' = month_spent
    <3>1. RunsOf(Month(today))' = RunsOf(Month(today)) /\ Month(today)' = Month(today)
      BY <1>1 DEF RunsOf, Started, Month, window_start
    <3> QED
      BY <1>1, <1>5, <3>1, CostIsSpend DEF Cost, Spend
  <2>4. month_spent \in Nat
    BY <1>5, RunsOk, RunsOfAreRuns, SpendType
  <2> QED
    BY <2>1, <2>2, <2>3, <2>4 DEF Quoted
<1> QED
  BY <1>2, <1>3, <1>4, <1>6 DEF Money

\* What was read holds for the run that wakes by it, in whichever month it wakes.
LEMMA WakeStep ==
  ASSUME TypeOK, Money, NEW c \in Callers, NEW r \in Runs, Wake(c, r)
  PROVE  Money'
<1> DEFINE t == Month(today)
<1>1. /\ quote[c].held /\ ~ Started(r) /\ today' = today
      /\ run[r].outcome = "none" /\ run \in [Runs -> RunType] /\ today \in Days
  BY RunsOk DEF Wake, Started, TypeOK
<1>2. \A s \in Runs \ {r} : run'[s] = run[s] /\ run[s].outcome # "running"
  BY <1>1 DEF Wake, TypeOK, Money, Alone
<1>3. /\ run'[r].outcome = "running" /\ run'[r].day = today /\ run'[r].cost = 0 /\ run'[r].late = 0
      /\ run'[r].num = Estimate(quote[c]).num /\ run'[r].den = Estimate(quote[c]).den
  BY <1>1 DEF Wake, NoRun
<1>4. \A d \in Callers : ~ quote'[d].held
  BY <1>1 DEF Wake, NoQuote, TypeOK, Money, Alone
<1>5. run' \in [Runs -> RunType] /\ run'[r].num \in Nat /\ run'[r].den \in Nat \ {0}
  <2>1. TypeOK'
    BY TypeOKStep DEF Next
  <2> QED
    BY <2>1 DEF TypeOK, RunType
<1>6. Alone' /\ Quoted'
  BY <1>2, <1>4 DEF Alone, Quoted
<1>7. Dated'
  BY <1>1, <1>2, <1>3 DEF Money, Dated, Started, Days
<1>8. Limited'
  <2>1. \A n, k, d \in Nat : 0 * d <= n + k * (1 + 0) * d
    <3>1. \A n, k, d \in Nat : k * (1 + 0) * d \in Nat /\ 0 * d = 0
      OBVIOUS
    <3> QED
      BY <3>1
  <2>2. 0 <= MaxLate
    BY MoneyAssumption
  <2> QED
    BY <1>2, <1>3, <1>5, <2>1, <2>2, LargestSample DEF Limited
<1>9. \A m : RunsOf(m)' = IF m = t THEN RunsOf(m) \cup {r} ELSE RunsOf(m)
  BY <1>1, <1>2, <1>3 DEF RunsOf, Started, Month, window_start
<1>10. \A m : r \notin RunsOf(m)
  BY <1>1 DEF RunsOf
<1>11. \A m : Spend(run', RunsOf(m)) = Spend(run, RunsOf(m))
  <2>1. ASSUME NEW m PROVE Spend(run', RunsOf(m)) = Spend(run, RunsOf(m))
    <3>1. \A s \in RunsOf(m) : run'[s].cost = run[s].cost
      BY <1>2, <1>10, RunsOfAreRuns
    <3> QED
      BY <3>1, RunsOfAreRuns, SpendSame
  <2> QED
    BY <2>1
<1>12. Fitting'
  <2>1. Spend(run, RunsOf(t)) <= quote[c].spent /\ Spend(run, RunsOf(t)) \in Nat
    BY <1>1, CostIsSpend, RunsOfAreRuns, SpendType DEF Money, Quoted
  <2>2. run'[r].num <= (Cap - quote[c].spent) * run'[r].den /\ quote[c].spent \in Nat
    BY <1>3 DEF Wake, FitsRemaining, TypeOK
  <2>3. run'[r].num + run'[r].den * Spend(run, RunsOf(t)) <= Cap * run'[r].den
    BY <1>5, <2>1, <2>2, FitsWithSpent
  <2>4. ASSUME NEW m \in MonthStarts, NEW s \in RunsOf(m)', run'[s].outcome = "running"
        PROVE  run'[s].num + run'[s].den * Cost(RunsOf(m) \ {s})' <= Cap * run'[s].den
    <3>1. s = r /\ m = t
      BY <1>2, <1>9, <1>10, <2>4, RunsOfAreRuns
    <3>2. RunsOf(m)' \ {s} = RunsOf(t)
      BY <1>9, <1>10, <3>1
    <3>3. Cost(RunsOf(m) \ {s})' = Spend(run', RunsOf(m)' \ {s})
      BY CostIsSpendNext
    <3>4. Cost(RunsOf(m) \ {s})' = Spend(run, RunsOf(t))
      BY <1>11, <3>2, <3>3
    <3> QED
      BY <2>3, <3>1, <3>4, Zenon
  <2> QED
    BY <2>4 DEF Fitting
<1>13. MonthlySpendBounded'
  <2>1. ASSUME NEW m \in MonthStarts PROVE Spend(run', RunsOf(m)') = Spend(run, RunsOf(m))
    <3>1. CASE m # t
      BY <1>9, <1>11, <3>1
    <3>2. CASE m = t
      <4>1. RunsOf(m)' = RunsOf(m) \cup {r} /\ RunsOf(m)' \in SUBSET Runs /\ RunsOf(m)' \ {r} = RunsOf(m)
        BY <1>9, <1>10, <3>2, RunsOfAreRuns
      <4>2. Spend(run', RunsOf(m)') = 0 + Spend(run', RunsOf(m))
        BY <1>3, <1>5, <4>1, SpendTake
      <4>3. Spend(run, RunsOf(m)) \in Nat
        BY <1>1, RunsOfAreRuns, SpendType
      <4> QED
        BY <1>11, <4>2, <4>3
    <3> QED
      BY <3>1, <3>2
  <2> QED
    BY <2>1, CostIsSpend, CostIsSpendNext DEF Money, MonthlySpendBounded
<1> QED
  BY <1>6, <1>7, <1>8, <1>12, <1>13 DEF Money

\* A sample moves the figures of the one live run and its month; the bound follows.
LEMMA SampleStep ==
  ASSUME TypeOK, Money, NEW r \in Runs, NEW a \in Samples, Report(r, a) \/ LateReport(r, a)
  PROVE  Money'
<1>1. /\ run[r].outcome = "running" /\ today' = today /\ quote' = quote
      /\ run \in [Runs -> RunType] /\ run[r] \in RunType /\ a \in Nat /\ a <= Max(Samples)
  BY RunsOk, LargestSample DEF Report, LateReport
<1>2. \A s \in Runs \ {r} : run'[s] = run[s] /\ run[s].outcome # "running"
  BY <1>1 DEF Report, LateReport, Money, Alone
<1>3. /\ run'[r].outcome = "running" /\ run'[r].day = run[r].day /\ run'[r].cost = run[r].cost + a
      /\ run'[r].num = run[r].num /\ run'[r].den = run[r].den
  BY <1>1 DEF Report, LateReport, RunType
<1>4. run' \in [Runs -> RunType]
  <2>1. TypeOK'
    BY TypeOKStep DEF Next
  <2> QED
    BY <2>1 DEF TypeOK, RunType
<1>5. Alone' /\ Quoted' /\ \A c \in Callers : ~ quote[c].held
  BY <1>1, <1>2 DEF Money, Alone, Quoted
<1>6. Dated'
  BY <1>1, <1>2, <1>3 DEF Money, Dated, Started
<1>7. /\ run'[r].late <= MaxLate
      /\ run'[r].cost * run'[r].den <= run'[r].num + Max(Samples) * (1 + run'[r].late) * run'[r].den
  <2> DEFINE c == run[r].cost
             d == run[r].den
             n == run[r].num
             l == run[r].late
             k == Max(Samples)
  <2>1. c \in Nat /\ d \in Nat /\ n \in Nat /\ l \in Nat /\ k \in Nat
    BY <1>1, LargestSample DEF RunType
  <2>2. l <= MaxLate /\ c * d <= n + k * (1 + l) * d
    BY <1>1 DEF Money, Limited
  <2>3. CASE Report(r, a)
    <3>1. run'[r].late = l
      BY <1>1, <2>3 DEF Report, RunType
    <3>2. c * d <= n
      <4>1. ~ (c * d > n) /\ c * d \in Int
        BY <2>1, <2>3 DEF Report, BeyondReservation
      <4> QED
        BY <2>1, <4>1
    <3>3. (c + a) * d <= n + k * (1 + l) * d
      <4>1. c * d <= n + k * 0 * d
        BY <2>1, <3>2
      <4>2. (c + a) * d <= n + k * (0 + 1) * d
        BY <1>1, <2>1, <4>1, SampleAdded
      <4>3. k * (0 + 1) * d <= k * (1 + l) * d
        <5>1. k * (0 + 1) <= k * (1 + l) /\ k * (0 + 1) \in Nat /\ k * (1 + l) \in Nat
          BY <2>1
        <5>2. \A x, y, z \in Nat : x <= y => x * z <= y * z
          OBVIOUS
        <5> QED
          BY <2>1, <5>1, <5>2
      <4>4. (c + a) * d \in Int /\ k * (0 + 1) * d \in Int /\ k * (1 + l) * d \in Int
        BY <1>1, <2>1
      <4> QED
        BY <2>1, <4>2, <4>3, <4>4
    <3> QED
      BY <1>3, <2>2, <3>1, <3>3
  <2>4. CASE LateReport(r, a)
    <3>1. run'[r].late = l + 1 /\ l < MaxLate
      BY <1>1, <2>4 DEF LateReport, RunType
    <3>2. (c + a) * d <= n + k * ((1 + l) + 1) * d
      BY <1>1, <2>1, <2>2, SampleAdded
    <3>3. (1 + l) + 1 = 1 + (l + 1) /\ l + 1 <= MaxLate
      BY <2>1, <3>1, MoneyAssumption
    <3> QED
      BY <1>3, <3>1, <3>2, <3>3
  <2> QED
    BY <2>3, <2>4
<1>8. Limited'
  BY <1>2, <1>7 DEF Limited
<1>9. \A m : RunsOf(m)' = RunsOf(m)
  <2>1. \A s \in Runs : run'[s].day = run[s].day /\ (run'[s].outcome = "none" <=> run[s].outcome = "none")
    BY <1>1, <1>2, <1>3
  <2> QED
    BY <2>1 DEF RunsOf, Started, window_start
<1>10. \A R \in SUBSET Runs : r \notin R => Spend(run', R) = Spend(run, R)
  <2>1. ASSUME NEW R \in SUBSET Runs, r \notin R PROVE Spend(run', R) = Spend(run, R)
    <3>1. \A s \in R : run'[s].cost = run[s].cost
      BY <1>2, <2>1
    <3> QED
      BY <3>1, SpendSame
  <2> QED
    BY <2>1
<1>11. ASSUME NEW m \in MonthStarts, r \in RunsOf(m)
       PROVE  run'[r].num + run'[r].den * Spend(run', RunsOf(m) \ {r}) <= Cap * run'[r].den
  <2>1. run[r].num + run[r].den * Spend(run, RunsOf(m) \ {r}) <= Cap * run[r].den
    BY <1>1, <1>11, CostIsSpend DEF Money, Fitting
  <2>2. Spend(run', RunsOf(m) \ {r}) = Spend(run, RunsOf(m) \ {r})
    <3>1. RunsOf(m) \ {r} \in SUBSET Runs /\ r \notin RunsOf(m) \ {r}
      BY RunsOfAreRuns
    <3> QED
      BY <1>10, <3>1
  <2> QED
    BY <1>3, <2>1, <2>2, Zenon
<1>12. Fitting'
  <2>1. ASSUME NEW m \in MonthStarts, NEW s \in RunsOf(m)', run'[s].outcome = "running"
        PROVE  run'[s].num + run'[s].den * Cost(RunsOf(m) \ {s})' <= Cap * run'[s].den
    <3>1. s = r /\ r \in RunsOf(m)
      BY <1>2, <1>9, <2>1, RunsOfAreRuns
    <3>2. Cost(RunsOf(m) \ {s})' = Spend(run', RunsOf(m) \ {s})
      BY <1>9, CostIsSpendNext
    <3>3. run'[r].num + run'[r].den * Spend(run', RunsOf(m) \ {r}) <= Cap * run'[r].den
      BY <1>11, <3>1
    <3> QED
      BY <3>1, <3>2, <3>3, Zenon
  <2> QED
    BY <2>1 DEF Fitting
<1>13. MonthlySpendBounded'
  <2>1. ASSUME NEW m \in MonthStarts PROVE Spend(run', RunsOf(m)) <= Cap + Overshoot
    <3>1. CASE r \notin RunsOf(m)
      <4>1. Spend(run', RunsOf(m)) = Spend(run, RunsOf(m))
        BY <1>10, <3>1, RunsOfAreRuns
      <4> QED
        BY <4>1, CostIsSpend DEF Money, MonthlySpendBounded
    <3>2. CASE r \in RunsOf(m)
      BY <1>4, <1>7, <1>11, <3>2, RunsOfAreRuns, LiveMonthIsBounded
    <3> QED
      BY <3>1, <3>2
  <2> QED
    BY <1>9, <2>1, CostIsSpendNext DEF MonthlySpendBounded
<1> QED
  BY <1>5, <1>6, <1>8, <1>12, <1>13 DEF Money

\* Overnight the figures a caller holds stay good: a month that begins has cost nothing.
LEMMA NightStep == ASSUME TypeOK, Money, NextDay PROVE Money'
<1>1. run' = run /\ quote' = quote /\ today \in Days /\ today' \in Days /\ today <= today'
  BY CalendarAssumption DEF NextDay, TypeOK, Days
<1>2. Limited' /\ Fitting' /\ MonthlySpendBounded'
  BY <1>1, FiguresKept
<1>3. Alone' /\ Dated'
  BY <1>1, RunsOk DEF Money, Alone, Dated, Started, RunType, Days
<1>4. Quoted'
  <2>1. Spend(run, RunsOf(Month(today'))) = Spend(run, RunsOf(Month(today))) \/ RunsOf(Month(today')) = {}
    <3>1. ASSUME NEW r \in RunsOf(Month(today')) PROVE Month(today') = Month(today)
      <4>1. r \in Runs /\ Month(run[r].day) = Month(today') /\ run[r].day \in Days /\ run[r].day <= today
        BY RunsOk DEF RunsOf, Month, Money, Dated, RunType
      <4>2. Month(run[r].day) <= Month(today) /\ Month(today) <= Month(today')
        BY <1>1, <4>1, MonthOfBetween
      <4>3. Month(today) \in Days /\ Month(today') \in Days
        BY <1>1, MonthBegins
      <4> QED
        BY <4>1, <4>2, <4>3 DEF Days
    <3> QED
      BY <3>1
  <2>2. Spend(run, RunsOf(Month(today'))) = Spend(run, RunsOf(Month(today))) \/ Spend(run, RunsOf(Month(today'))) = 0
    BY <2>1, SpendOfNone
  <2>3. Cost(RunsOf(Month(today)))' = Spend(run, RunsOf(Month(today')))
    BY <1>1 DEF Cost, Spend, RunsOf, Started, Month, window_start
  <2>4. \A c \in Callers : quote[c].spent \in Nat
    BY DEF TypeOK
  <2> QED
    BY <1>1, <2>2, <2>3, <2>4, CostIsSpend DEF Money, Quoted
<1> QED
  BY <1>2, <1>3, <1>4 DEF Money

\* Each step of a serial vault keeps the invariant: one lemma above per kind of step.
LEMMA MoneyStep == ASSUME Serial PROVE TypeOK /\ Money /\ [Next]_vars => Money'
<1> SUFFICES ASSUME TypeOK, Money, [Next]_vars PROVE Money'
  OBVIOUS
<1>1. ASSUME NEW c \in Callers, Refused(c) PROVE Money'
  <2>1. run' = run /\ today' = today /\ \A d \in Callers : quote'[d].held => quote'[d] = quote[d]
    BY <1>1 DEF Refused, NoQuote, TypeOK
  <2>2. Limited' /\ Fitting' /\ MonthlySpendBounded'
    BY <2>1, FiguresKept
  <2>3. Alone' /\ Dated'
    BY <2>1 DEF Money, Alone, Dated, Started
  <2>4. Quoted'
    <3>1. Cost(RunsOf(Month(today)))' = Cost(RunsOf(Month(today)))
      BY <2>1 DEF Cost, RunsOf, Started, Month, window_start
    <3> QED
      BY <2>1, <3>1 DEF Money, Quoted
  <2> QED
    BY <2>2, <2>3, <2>4 DEF Money
<1>2. ASSUME NEW r \in Runs, End(r) PROVE Money'
  <2>1. /\ run[r].outcome = "running" /\ quote' = quote /\ today' = today
        /\ \A s \in Runs : /\ run'[s].cost = run[s].cost /\ run'[s].day = run[s].day
                           /\ run'[s].num = run[s].num /\ run'[s].den = run[s].den /\ run'[s].late = run[s].late
                           /\ run'[s].outcome = "none" <=> run[s].outcome = "none"
                           /\ run'[s].outcome = "running" => run[s].outcome = "running"
    BY <1>2, RunsOk DEF End, RunType
  <2>2. Limited' /\ Fitting' /\ MonthlySpendBounded'
    BY <2>1, FiguresKept
  <2>3. Alone' /\ Dated' /\ Quoted'
    BY <2>1 DEF Money, Alone, Dated, Started, Quoted
  <2> QED
    BY <2>2, <2>3 DEF Money
<1>3. CASE UNCHANGED vars
  BY <1>3 DEF vars, Money, Alone, Dated, Started, Limited, Fitting, Quoted, MonthlySpendBounded,
     Cost, RunsOf, Month, window_start
<1> QED
  BY <1>1, <1>2, <1>3, ReadStep, WakeStep, SampleStep, NightStep DEF Next

\* So it holds throughout.
LEMMA MoneyIsKept == ASSUME Serial PROVE Spec => [](TypeOK /\ Money)
BY TypeOKInitially, TypeOKStep, MoneyInitially, MoneyStep, PTL DEF Spec

\* A vault that asks for one run at a time passes no month's cap by more than one run's
\* overshoot (MonthlySpendBounded), whenever it asks and wherever months end.
THEOREM MonthsAreCapped == Serial => (Spec => []MonthlySpendBounded)
<1> SUFFICES ASSUME Serial PROVE Spec => []MonthlySpendBounded
  OBVIOUS
<1>1. Money => MonthlySpendBounded
  BY DEF Money
<1> QED
  BY <1>1, MoneyIsKept, PTL

\* While a run is live, what its month's other runs have spent and what it reserved fit the
\* cap together (ReservationsHeldBack).
THEOREM ReservationsFit == Serial => (Spec => []ReservationsHeldBack)
<1> SUFFICES ASSUME Serial PROVE Spec => []ReservationsHeldBack
  OBVIOUS
<1>1. TypeOK /\ Money => ReservationsHeldBack
  <2> SUFFICES ASSUME TypeOK, Money, NEW m \in MonthStarts, NEW r \in LiveOf(m)
               PROVE  run[r].num + run[r].den * Cost({s \in RunsOf(m) : Ended(s)})
                        + run[r].den * SumFunctionOnSet([s \in Runs |-> run[s].num \div run[s].den], LiveOf(m) \ {r})
                      <= Cap * run[r].den
    BY DEF ReservationsHeldBack
  <2>1. \A s \in LiveOf(m) : s \in Runs /\ s \in RunsOf(m) /\ run[s].outcome = "running"
    BY RunsOk DEF LiveOf, RunsOf, Started, Ended, RunType
  <2>2. LiveOf(m) \ {r} = {}
    BY <2>1 DEF Money, Alone
  <2>3. {s \in RunsOf(m) : Ended(s)} = RunsOf(m) \ {r}
    BY <2>1, <2>2 DEF LiveOf, Ended
  <2>4. run[r].num + run[r].den * Cost(RunsOf(m) \ {r}) <= Cap * run[r].den
    BY <2>1 DEF Money, Fitting
  <2>5. SumFunctionOnSet([s \in Runs |-> run[s].num \div run[s].den], LiveOf(m) \ {r}) = 0
    BY <2>2, SumOfNone
  <2>6. run[r].num \in Nat /\ run[r].den \in Nat /\ Cost(RunsOf(m) \ {r}) \in Nat
    <3>1. RunsOf(m) \ {r} \in SUBSET Runs
      BY RunsOfAreRuns
    <3> QED
      BY <2>1, <3>1, RunsOk, CostIsSpend, SpendType DEF RunType
  <2> DEFINE n == run[r].num
             d == run[r].den
             c == Cost(RunsOf(m) \ {r})
             z == SumFunctionOnSet([s \in Runs |-> run[s].num \div run[s].den], LiveOf(m) \ {r})
  <2>7. n \in Nat /\ d \in Nat /\ c \in Nat /\ z = 0 /\ n + d * c <= Cap * d
    BY <2>4, <2>5, <2>6
  <2>8. Cost({s \in RunsOf(m) : Ended(s)}) = c
    BY <2>3
  <2> HIDE DEF n, d, c, z
  <2>9. n + d * c + d * z <= Cap * d
    <3>1. d * z = 0 /\ d * c \in Nat
      BY <2>7
    <3> QED
      BY <2>7, <3>1
  <2> QED
    BY <2>8, <2>9, Zenon DEF n, d, c, z
<1> QED
  BY <1>1, MoneyIsKept, PTL

-----------------------------------------------------------------------------
(* Whoever asks.                                                           *)

\* What a caller may reserve fits the cap, and what a run costs fits its reservation but
\* for the sample that crosses it and the late ones, however many runs are asked for.
Reserved == \A r \in Runs :
  /\ run[r].late <= MaxLate
  /\ run[r].num <= Cap * run[r].den
  /\ run[r].cost * run[r].den <= run[r].num + Max(Samples) * (1 + run[r].late) * run[r].den

\* What fits the remaining budget fits the cap.
LEMMA FitsTheCap ==
  ASSUME NEW num \in Nat, NEW den \in Nat, NEW spent \in Nat, num <= (Cap - spent) * den
  PROVE  num <= Cap * den
<1>1. 0 \in Nat /\ 0 <= spent /\ den * 0 = 0
  OBVIOUS
<1>2. num + den * 0 <= Cap * den
  BY <1>1, FitsWithSpent
<1> QED
  BY <1>1, <1>2

\* Cost, estimate and late samples of a run: what Reserved says of each step's run.
LEMMA ReservedStep == TypeOK /\ Reserved /\ [Next]_vars => Reserved'
<1> SUFFICES ASSUME TypeOK, Reserved, [Next]_vars PROVE Reserved'
  OBVIOUS
<1>1. ASSUME \A r \in Runs : /\ run'[r].cost = run[r].cost /\ run'[r].late = run[r].late
                             /\ run'[r].num = run[r].num /\ run'[r].den = run[r].den
      PROVE  Reserved'
  BY <1>1 DEF Reserved
<1>2. ASSUME NEW c \in Callers, NEW r \in Runs, Wake(c, r) PROVE Reserved'
  <2> DEFINE n == Estimate(quote[c]).num
             d == Estimate(quote[c]).den
  <2>1. n \in Nat /\ d \in Nat /\ quote[c].spent \in Nat
    <3>1. quote[c].sum \in Nat /\ quote[c].n \in Nat /\ quote[c].spent \in Nat
      BY DEF TypeOK
    <3>2. \A a, b \in Nat : a * b \in Nat
      OBVIOUS
    <3> QED
      BY <3>1, <3>2, MoneyAssumption DEF Estimate
  <2>2. n <= (Cap - quote[c].spent) * d
    BY <1>2 DEF Wake, FitsRemaining
  <2>3. /\ run'[r].cost = 0 /\ run'[r].late = 0 /\ run'[r].num = n /\ run'[r].den = d
        /\ \A s \in Runs : s # r => run'[s] = run[s]
    BY <1>2, RunsOk DEF Wake, NoRun, RunType
  <2> HIDE DEF n, d
  <2>4. n <= Cap * d
    BY <2>1, <2>2, FitsTheCap
  <2>5. Max(Samples) * (1 + 0) * d \in Nat /\ 0 * d = 0
    <3>1. \A a, b \in Nat : a * (1 + 0) * b \in Nat /\ 0 * b = 0
      OBVIOUS
    <3> QED
      BY <2>1, <3>1, LargestSample
  <2>6. 0 <= MaxLate /\ 0 * d <= n + Max(Samples) * (1 + 0) * d
    BY <2>1, <2>5, MoneyAssumption
  <2> QED
    BY <2>3, <2>4, <2>6, Zenon DEF Reserved
<1>3. ASSUME NEW r \in Runs, NEW a \in Samples, Report(r, a) \/ LateReport(r, a) PROVE Reserved'
  <2> DEFINE c == run[r].cost
             d == run[r].den
             n == run[r].num
             l == run[r].late
             k == Max(Samples)
  <2>1. c \in Nat /\ d \in Nat /\ n \in Nat /\ l \in Nat /\ k \in Nat /\ a \in Nat /\ a <= k
    BY RunsOk, LargestSample DEF RunType
  <2>2. /\ run'[r].cost = c + a /\ run'[r].num = n /\ run'[r].den = d
        /\ \A s \in Runs : s # r => run'[s] = run[s]
        /\ \/ run'[r].late = l /\ c * d <= n
           \/ run'[r].late = l + 1 /\ l < MaxLate
    BY <1>3, <2>1, RunsOk DEF Report, LateReport, BeyondReservation, RunType
  <2>3. c * d <= n + k * (1 + l) * d /\ l <= MaxLate /\ n <= Cap * d
    BY DEF Reserved
  <2> SUFFICES /\ run'[r].late <= MaxLate
               /\ run'[r].num <= Cap * run'[r].den
               /\ run'[r].cost * run'[r].den <= run'[r].num + k * (1 + run'[r].late) * run'[r].den
    BY <2>2, Zenon DEF Reserved
  <2> HIDE DEF c, d, n, l, k
  <2>4. CASE run'[r].late = l /\ c * d <= n
    <3>1. (c + a) * d <= n + k * (1 + l) * d
      <4>1. c * d <= n + k * 0 * d
        BY <2>1, <2>4
      <4>2. (c + a) * d <= n + k * (0 + 1) * d
        BY <2>1, <4>1, SampleAdded
      <4>3. k * (0 + 1) * d <= k * (1 + l) * d
        <5>1. \A x, y, z \in Nat : x * (0 + 1) * y <= x * (1 + z) * y
          OBVIOUS
        <5> QED
          BY <2>1, <5>1
      <4>4. (c + a) * d \in Int /\ k * (0 + 1) * d \in Int /\ k * (1 + l) * d \in Int
        BY <2>1
      <4> QED
        BY <2>1, <4>2, <4>3, <4>4
    <3> QED
      BY <2>2, <2>3, <2>4, <3>1, Zenon
  <2>5. CASE run'[r].late = l + 1 /\ l < MaxLate
    <3>1. (c + a) * d <= n + k * ((1 + l) + 1) * d
      BY <2>1, <2>3, SampleAdded
    <3>2. l + 1 <= MaxLate /\ (1 + l) + 1 = 1 + (l + 1)
      BY <2>1, <2>5, MoneyAssumption
    <3> QED
      BY <2>2, <2>3, <2>5, <3>1, <3>2, Zenon
  <2> QED
    BY <2>2, <2>4, <2>5
<1>4. ASSUME NEW r \in Runs, End(r) PROVE Reserved'
  BY <1>1, <1>4, RunsOk DEF End, RunType
<1>5. ASSUME NEW c \in Callers, ReadFigures(c) \/ Refused(c) PROVE Reserved'
  BY <1>1, <1>5 DEF ReadFigures, Refused
<1>6. ASSUME NextDay \/ UNCHANGED vars PROVE Reserved'
  BY <1>1, <1>6 DEF NextDay, vars
<1> QED
  BY <1>2, <1>3, <1>4, <1>5, <1>6 DEF Next

\* No single run costs more than the cap and its overshoot, however many callers wake the
\* agent at once: what concurrent callers can break is only the sum (evaluate_cap).
THEOREM RunsAreCapped == Spec => [](\A r \in Runs : run[r].cost <= Cap + Overshoot)
<1>1. Init => Reserved
  <2> SUFFICES ASSUME Init PROVE Reserved
    OBVIOUS
  <2>1. \A r \in Runs : run[r].late = 0 /\ run[r].num = 0 /\ run[r].den = 1 /\ run[r].cost = 0
    BY DEF Init, NoRun
  <2>2. 0 <= MaxLate /\ 0 <= Cap * 1 /\ 0 * 1 <= 0 + Max(Samples) * (1 + 0) * 1
    BY MoneyAssumption, LargestSample
  <2> QED
    BY <2>1, <2>2, Zenon DEF Reserved
<1>2. TypeOK /\ Reserved => \A r \in Runs : run[r].cost <= Cap + Overshoot
  <2> SUFFICES ASSUME TypeOK, Reserved, NEW r \in Runs PROVE run[r].cost <= Cap + Overshoot
    OBVIOUS
  <2> DEFINE c == run[r].cost
             d == run[r].den
             n == run[r].num
             l == run[r].late
             k == Max(Samples)
             t == k * (1 + l)
  <2>1. c \in Nat /\ d \in Nat \ {0} /\ n \in Nat /\ l \in Nat /\ k \in Nat /\ Cap \in Nat
    BY RunsOk, LargestSample, MoneyAssumption DEF RunType
  <2>2. c * d <= n + t * d /\ l <= MaxLate /\ n <= Cap * d
    BY DEF Reserved
  <2>3. t \in Nat /\ t <= Overshoot /\ Overshoot \in Nat
    <3>1. \A x, y, z \in Nat : y <= z => x * (1 + y) \in Nat /\ x * (1 + y) <= x * (1 + z)
      OBVIOUS
    <3> QED
      BY <2>1, <2>2, <3>1, LargestSample, MoneyAssumption DEF Overshoot
  <2> HIDE DEF c, d, n, l, k, t
  <2>4. c * d <= (Cap + t) * d
    <3>1. (Cap + t) * d = Cap * d + t * d
      BY <2>1, <2>3
    <3>2. c * d \in Int /\ Cap * d \in Int /\ t * d \in Int
      BY <2>1, <2>3
    <3> QED
      BY <2>1, <2>2, <3>1, <3>2
  <2>5. c <= Cap + t
    <3>1. \A x, y \in Nat, z \in Nat \ {0} : x * z <= y * z => x <= y
      OBVIOUS
    <3> QED
      BY <2>1, <2>3, <2>4, <3>1
  <2>6. c <= Cap + Overshoot
    BY <2>1, <2>3, <2>5
  <2> QED
    BY <2>6 DEF c
<1> QED
  BY <1>1, <1>2, TypeOKInitially, TypeOKStep, ReservedStep, PTL DEF Spec
=============================================================================
