------------------------- MODULE ClusterQuotaProofs -------------------------
(***************************************************************************)
(* Proofs about ClusterQuota: the totals in the status of a quota never    *)
(* drift, and a status is stored only over the specification it was        *)
(* computed for, for any namespaces, selectors and bounds.                 *)
(***************************************************************************)
EXTENDS ClusterQuota, FiniteSetTheorems, TLAPS

\* A quota whose total is the sum over its namespaces.
Balanced(q) == q.total = Sum(q)

\* While the worker's version is the stored one, there is no other, and the
\* worker has changed nothing but the status of its copy.
FreshCopy ==
  fresh => /\ pc # "idle" /\ versions = <<orig>>
           /\ orig.live /\ quota.live
           /\ quota.sel = orig.sel /\ quota.hard = orig.hard

\* Between two syncs nothing is left of the last one.
IdleIsClean == pc = "idle" => left = {} /\ retry = {}

QuotaInv == TypeOK /\ TotalIsSum /\ FreshCopy /\ IdleIsClean

-----------------------------------------------------------------------------
(* Induction.                                                              *)

\* A set of naturals that is not empty has a least one.
LEMMA Least ==
  ASSUME NEW T \in SUBSET Nat, T # {}
  PROVE  \E x \in T : \A y \in T : x <= y
<1> DEFINE R == OpToRel(<, Nat)
<1>1. IsWellFoundedOn(R, Nat)
  BY NatLessThanWellFounded, Zenon
<1>2. \A x, y \in Nat : <<y, x>> \in R <=> y < x
  BY DEF OpToRel
<1> HIDE DEF R
<1>3. PICK x \in T : \A y \in T : ~ (<<y, x>> \in R)
  BY <1>1, WFMin, Zenon
<1>4. \A y \in T : y \in Nat /\ x \in Nat /\ ~ (y < x)
  BY <1>2, <1>3, Zenon
<1>5. \A y \in T : x <= y
  BY <1>4
<1> QED
  BY <1>3, <1>5

\* Induction, over a set of naturals in place of a predicate.
LEMMA SetInduction ==
  ASSUME NEW S, 0 \in S, \A n \in Nat : n \in S => n + 1 \in S
  PROVE  Nat \subseteq S
<1> SUFFICES ASSUME Nat \ S # {} PROVE FALSE
  OBVIOUS
<1>1. PICK x \in Nat \ S : \A y \in Nat \ S : x <= y
  BY Least, Zenon
<1>2. x # 0 /\ x - 1 \in Nat /\ x = (x - 1) + 1
  BY <1>1
<1>3. x - 1 \in S
  BY <1>1, <1>2
<1> QED
  BY <1>1, <1>2, <1>3

\* Induction over the subsets of a finite set: T has all of them if it has each one
\* of which it has what is left without an element.
LEMMA SubsetInduction ==
  ASSUME NEW S, IsFiniteSet(S), NEW T,
         \A s \in SUBSET S : (\A x \in s : s \ {x} \in T) => s \in T
  PROVE  (SUBSET S) \subseteq T
<1> SUFFICES ASSUME (SUBSET S) \ T # {} PROVE FALSE
  OBVIOUS
<1> DEFINE sizes == {Cardinality(s) : s \in (SUBSET S) \ T}
<1>1. \A s \in SUBSET S : IsFiniteSet(s) /\ Cardinality(s) \in Nat
  BY FS_Subset, FS_CardinalityType, Zenon
<1>2. sizes \in SUBSET Nat /\ sizes # {}
  BY <1>1
<1>3. PICK k \in sizes : \A l \in sizes : k <= l
  <2> HIDE DEF sizes
  <2> QED
    BY <1>2, Least, Zenon
<1>4. PICK s \in (SUBSET S) \ T : k = Cardinality(s)
  BY <1>3
<1>5. ASSUME NEW x \in s PROVE s \ {x} \in T
  <2>1. Cardinality(s \ {x}) = k - 1
    BY <1>1, <1>4, FS_RemoveElement
  <2>2. s \ {x} \in SUBSET S
    OBVIOUS
  <2>3. s \ {x} \in (SUBSET S) \ T => k <= k - 1
    BY <1>3, <2>1
  <2>4. k \in Nat
    BY <1>2, <1>3, Zenon
  <2> QED
    BY <2>2, <2>3, <2>4
<1> QED
  BY <1>4, <1>5

-----------------------------------------------------------------------------
(* The sum over the namespaces.                                            *)

\* What the fold of SumFunctionOnSet defines: the sums over the subsets of a set.
NextSums(g, f, S) ==
  [s \in SUBSET S |-> IF s = {} THEN 0
                      ELSE f[CHOOSE x \in s : TRUE] + g[s \ {CHOOSE x \in s : TRUE}]]
Sums(f, S) == CHOOSE g : g = NextSums(g, f, S)

\* SumFunctionOnSet is the last of them.
LEMMA SumIsFold == ASSUME NEW f, NEW S PROVE SumFunctionOnSet(f, S) = Sums(f, S)[S]
BY Zenon DEF SumFunctionOnSet, FoldFunctionOnSet, MapThenFoldSet, Sums, NextSums

\* One step of the fold, for sums that are numbers.
LEMMA NextSumsFacts ==
  ASSUME NEW S, NEW f \in [S -> Int], NEW g \in [SUBSET S -> Int]
  PROVE  NextSums(g, f, S) \in [SUBSET S -> Int]
<1> SUFFICES ASSUME NEW s \in SUBSET S, s # {}
             PROVE  f[CHOOSE x \in s : TRUE] + g[s \ {CHOOSE x \in s : TRUE}] \in Int
  BY DEF NextSums
<1> DEFINE x == CHOOSE x \in s : TRUE
<1>1. x \in s
  OBVIOUS
<1> HIDE DEF x
<1>2. f[x] \in Int /\ g[s \ {x}] \in Int
  BY <1>1
<1>3. f[x] + g[s \ {x}] \in Int
  BY <1>2
<1> QED
  BY <1>3 DEF x

\* Sums that a step of the fold leaves alone are numbers.
LEMMA SumsType ==
  ASSUME NEW S, IsFiniteSet(S), NEW f \in [S -> Int], NEW sums, sums = NextSums(sums, f, S)
  PROVE  sums \in [SUBSET S -> Int]
<1> DEFINE Typed == {s \in SUBSET S : sums[s] \in Int}
<1>1. ASSUME NEW s \in SUBSET S, \A x \in s : s \ {x} \in Typed PROVE s \in Typed
  <2>1. CASE s = {}
    <3>1. sums[s] = 0
      BY <2>1, Zenon DEF NextSums
    <3> QED
      BY <3>1
  <2>2. CASE s # {}
    <3> DEFINE x == CHOOSE x \in s : TRUE
    <3>1. x \in s
      BY <2>2
    <3>2. NextSums(sums, f, S)[s] = f[x] + sums[s \ {x}]
      BY <2>2, Zenon DEF NextSums
    <3> HIDE DEF x
    <3>3. f[x] \in Int /\ sums[s \ {x}] \in Int
      BY <1>1, <3>1
    <3>4. f[x] + sums[s \ {x}] \in Int
      BY <3>3
    <3>5. sums[s] \in Int
      BY <3>2, <3>4, Zenon
    <3> QED
      BY <3>5
  <2> QED
    BY <2>1, <2>2
<1>2. SUBSET S \subseteq Typed
  <2> HIDE DEF Typed
  <2> QED
    BY <1>1, SubsetInduction, Zenon
<1>3. sums \in [SUBSET S -> Int]
  <2>1. sums = [s \in SUBSET S |-> sums[s]]
    BY Zenon DEF NextSums
  <2> QED
    BY <1>2, <2>1
<1> QED
  BY <1>3

\* There are such sums over a finite set: as many steps as it has elements lead to
\* them, since after n steps they are right for the subsets of up to n.
LEMMA SumsExist ==
  ASSUME NEW S, IsFiniteSet(S), NEW f \in [S -> Int]
  PROVE  /\ Sums(f, S) \in [SUBSET S -> Int]
         /\ Sums(f, S) = NextSums(Sums(f, S), f, S)
<1> DEFINE Right(g, n) == \A s \in SUBSET S : Cardinality(s) <= n => g[s] = NextSums(g, f, S)[s]
           Reached == {n \in Nat : \E g \in [SUBSET S -> Int] : Right(g, n)}
<1>1. \A s \in SUBSET S : IsFiniteSet(s) /\ Cardinality(s) \in Nat /\ Cardinality(s) <= Cardinality(S)
  BY FS_Subset, FS_CardinalityType, Zenon
<1>2. 0 \in Reached
  <2> DEFINE g == [s \in SUBSET S |-> 0]
  <2>1. ASSUME NEW s \in SUBSET S, Cardinality(s) <= 0 PROVE g[s] = NextSums(g, f, S)[s]
    <3>1. s = {}
      BY <1>1, <2>1, FS_EmptySet
    <3> QED
      BY <3>1 DEF NextSums
  <2> QED
    <3>1. g \in [SUBSET S -> Int]
      OBVIOUS
    <3> HIDE DEF g
    <3>2. Right(g, 0)
      BY <2>1, Zenon
    <3> HIDE DEF Right
    <3> QED
      BY <3>1, <3>2
<1>3. ASSUME NEW n \in Nat, n \in Reached PROVE n + 1 \in Reached
  <2>1. PICK g \in [SUBSET S -> Int] : Right(g, n)
    BY <1>3
  <2> DEFINE h == NextSums(g, f, S)
  <2>2. h \in [SUBSET S -> Int]
    BY NextSumsFacts
  <2>3. ASSUME NEW s \in SUBSET S, Cardinality(s) <= n + 1 PROVE h[s] = NextSums(h, f, S)[s]
    <3>1. CASE s = {}
      BY <3>1 DEF NextSums
    <3>2. CASE s # {}
      <4> DEFINE x == CHOOSE x \in s : TRUE
      <4>1. x \in s
        BY <3>2
      <4>2. h[s] = f[x] + g[s \ {x}] /\ NextSums(h, f, S)[s] = f[x] + h[s \ {x}]
        BY <3>2, Zenon DEF NextSums
      <4> HIDE DEF x, h
      <4>3. s \ {x} \in SUBSET S /\ Cardinality(s \ {x}) = Cardinality(s) - 1
        BY <1>1, <4>1, FS_RemoveElement
      <4>4. Cardinality(s \ {x}) <= n
        BY <1>1, <2>3, <4>3
      <4>5. g[s \ {x}] = h[s \ {x}]
        BY <2>1, <4>3, <4>4, Zenon DEF h
      <4> QED
        BY <4>2, <4>5, Zenon
    <3> QED
      BY <3>1, <3>2
  <2>4. Right(h, n + 1)
    <3> HIDE DEF h
    <3> QED
      BY <2>3, Zenon
  <2> HIDE DEF Right, h
  <2> QED
    BY <2>2, <2>4 DEF Reached
<1>4. Cardinality(S) \in Reached
  <2> HIDE DEF Reached
  <2>1. Nat \subseteq Reached
    BY <1>2, <1>3, SetInduction, Zenon
  <2> QED
    BY <1>1, <2>1
<1>5. PICK g \in [SUBSET S -> Int] : Right(g, Cardinality(S))
  BY <1>4
<1>6. g = NextSums(g, f, S)
  <2> DEFINE h == NextSums(g, f, S)
  <2>1. h \in [SUBSET S -> Int]
    BY NextSumsFacts
  <2>2. \A s \in SUBSET S : g[s] = h[s]
    BY <1>1, <1>5
  <2> HIDE DEF h
  <2>3. g = h
    BY <2>1, <2>2
  <2> QED
    BY <2>3 DEF h
<1>7. Sums(f, S) = NextSums(Sums(f, S), f, S)
  BY <1>6, Zenon DEF Sums
<1> QED
  BY <1>7, SumsType, Zenon

\* A sum is that of any element and of the others, whichever the fold takes first.
LEMMA SumsAnyOrder ==
  ASSUME NEW S, IsFiniteSet(S), NEW f \in [S -> Int]
  PROVE  /\ Sums(f, S)[{}] = 0
         /\ \A s \in SUBSET S : \A x \in s : Sums(f, S)[s] = f[x] + Sums(f, S)[s \ {x}]
<1> DEFINE sums == Sums(f, S)
           Any == {s \in SUBSET S : \A x \in s : sums[s] = f[x] + sums[s \ {x}]}
<1> HIDE DEF sums
<1>1. sums \in [SUBSET S -> Int] /\ sums = NextSums(sums, f, S)
  BY SumsExist DEF sums
<1>2. sums[{}] = 0
  <2>1. {} \in SUBSET S
    OBVIOUS
  <2>2. NextSums(sums, f, S)[{}] = 0
    BY <2>1, Zenon DEF NextSums
  <2> QED
    BY <1>1, <2>2, Zenon
<1>3. ASSUME NEW s \in SUBSET S, \A x \in s : s \ {x} \in Any PROVE s \in Any
  <2> SUFFICES ASSUME NEW x \in s PROVE sums[s] = f[x] + sums[s \ {x}]
    OBVIOUS
  <2> DEFINE y == CHOOSE z \in s : TRUE
  <2>1. y \in s
    OBVIOUS
  <2>2. sums[s] = f[y] + sums[s \ {y}]
    <3>1. NextSums(sums, f, S)[s] = f[y] + sums[s \ {y}]
      BY Zenon DEF NextSums
    <3> QED
      BY <1>1, <3>1, Zenon
  <2> HIDE DEF y
  <2>3. CASE x = y
    BY <2>2, <2>3, Zenon
  <2>4. CASE x # y
    <3>1. x \in s \ {y} /\ y \in s \ {x} /\ (s \ {y}) \ {x} = (s \ {x}) \ {y}
      BY <2>1, <2>4
    <3>2. /\ sums[s \ {y}] = f[x] + sums[(s \ {x}) \ {y}]
          /\ sums[s \ {x}] = f[y] + sums[(s \ {x}) \ {y}]
      BY <1>3, <2>1, <3>1, Zenon
    <3>3. f[x] \in Int /\ f[y] \in Int /\ sums[(s \ {x}) \ {y}] \in Int
      BY <1>1, <2>1
    <3> QED
      BY <2>2, <3>2, <3>3
  <2> QED
    BY <2>3, <2>4
<1>4. SUBSET S \subseteq Any
  <2> HIDE DEF Any
  <2> QED
    BY <1>3, SubsetInduction, Zenon
<1> QED
  BY <1>2, <1>4 DEF sums

\* The sum of the usages follows the change of one of them; it is 0 for zeros.
LEMMA SumFacts ==
  ASSUME NEW S, IsFiniteSet(S), NEW f \in [S -> Int]
  PROVE  /\ SumFunction(f) \in Int
         /\ (\A x \in S : f[x] = 0) => SumFunction(f) = 0
         /\ \A h \in [S -> Int], x \in S :
              (\A y \in S : y # x => h[y] = f[y])
                => SumFunction(h) = (SumFunction(f) - f[x]) + h[x]
<1>1. ASSUME NEW h \in [S -> Int]
      PROVE  /\ Sums(h, S) \in [SUBSET S -> Int] /\ SumFunction(h) = Sums(h, S)[S]
             /\ SumFunction(h) \in Int
  <2>1. Sums(h, S) \in [SUBSET S -> Int]
    BY SumsExist
  <2>2. SumFunction(h) = Sums(h, S)[S]
    BY SumIsFold DEF SumFunction
  <2> QED
    BY <2>1, <2>2
<1>2. ASSUME \A x \in S : f[x] = 0 PROVE SumFunction(f) = 0
  <2> DEFINE sums == Sums(f, S)
             Zero == {s \in SUBSET S : sums[s] = 0}
  <2> HIDE DEF sums
  <2>1. sums[{}] = 0 /\ \A s \in SUBSET S : \A x \in s : sums[s] = f[x] + sums[s \ {x}]
    BY SumsAnyOrder DEF sums
  <2>2. ASSUME NEW s \in SUBSET S, \A x \in s : s \ {x} \in Zero PROVE s \in Zero
    <3>1. CASE s = {}
      BY <2>1, <3>1
    <3>2. CASE s # {}
      <4>1. PICK x \in s : TRUE
        BY <3>2
      <4>2. sums[s] = f[x] + sums[s \ {x}] /\ f[x] = 0 /\ sums[s \ {x}] = 0
        BY <1>2, <2>1, <2>2
      <4> QED
        BY <4>2
    <3> QED
      BY <3>1, <3>2
  <2>3. SUBSET S \subseteq Zero
    <3> HIDE DEF Zero
    <3> QED
      BY <2>2, SubsetInduction, Zenon
  <2>4. SumFunction(f) = sums[S]
    BY <1>1 DEF sums
  <2> QED
    BY <2>3, <2>4
<1>3. ASSUME NEW h \in [S -> Int], NEW x \in S, \A y \in S : y # x => h[y] = f[y]
      PROVE  SumFunction(h) = (SumFunction(f) - f[x]) + h[x]
  <2> DEFINE before == Sums(f, S)
             after == Sums(h, S)
             Same == {s \in SUBSET S : x \notin s => before[s] = after[s]}
  <2> HIDE DEF before, after
  <2>1. /\ before[{}] = 0
        /\ \A s \in SUBSET S : \A y \in s : before[s] = f[y] + before[s \ {y}]
    BY SumsAnyOrder DEF before
  <2>2. /\ after[{}] = 0
        /\ \A s \in SUBSET S : \A y \in s : after[s] = h[y] + after[s \ {y}]
    BY SumsAnyOrder DEF after
  <2>3. ASSUME NEW s \in SUBSET S, \A y \in s : s \ {y} \in Same PROVE s \in Same
    <3> SUFFICES ASSUME x \notin s PROVE before[s] = after[s]
      OBVIOUS
    <3>1. CASE s = {}
      BY <2>1, <2>2, <3>1
    <3>2. CASE s # {}
      <4>1. PICK y \in s : TRUE
        BY <3>2
      <4>2. before[s \ {y}] = after[s \ {y}] /\ h[y] = f[y]
        BY <1>3, <2>3
      <4> QED
        BY <2>1, <2>2, <4>2
    <3> QED
      BY <3>1, <3>2
  <2>4. SUBSET S \subseteq Same
    <3> HIDE DEF Same
    <3> QED
      BY <2>3, SubsetInduction, Zenon
  <2>5. before[S \ {x}] = after[S \ {x}]
    BY <2>4
  <2>6. before[S] = f[x] + before[S \ {x}] /\ after[S] = h[x] + after[S \ {x}]
    BY <2>1, <2>2
  <2>7. SumFunction(f) = before[S] /\ SumFunction(h) = after[S] /\ before[S \ {x}] \in Int
    <3>1. before \in [SUBSET S -> Int] /\ SumFunction(f) = before[S]
      BY <1>1 DEF before
    <3>2. SumFunction(h) = after[S]
      BY <1>1 DEF after
    <3> QED
      BY <3>1, <3>2
  <2>8. f[x] \in Int /\ h[x] \in Int
    OBVIOUS
  <2> QED
    BY <2>5, <2>6, <2>7, <2>8
<1> QED
  BY <1>1, <1>2, <1>3

-----------------------------------------------------------------------------
(* The operations on a quota.                                              *)

LEMMA UsedType ==
  ASSUME NEW q \in Quotas
  PROVE  /\ [n \in Namespaces |-> q.status[n].used] \in [Namespaces -> 0 .. MaxUsage]
         /\ Sum(q) \in Int
<1>1. [n \in Namespaces |-> q.status[n].used] \in [Namespaces -> 0 .. MaxUsage]
  BY DEF Quotas, Entry
<1> DEFINE f == [n \in Namespaces |-> q.status[n].used]
<1>2. f \in [Namespaces -> Int]
  BY <1>1, QuotaAssumption
<1> HIDE DEF f
<1>3. SumFunction(f) \in Int
  BY <1>2, QuotaAssumption, SumFacts, Zenon
<1> QED  BY <1>1, <1>3 DEF Sum, f

\* The sum over the namespaces follows the change of one of them.
LEMMA UsageChanged ==
  ASSUME NEW f \in [Namespaces -> Int], NEW n \in Namespaces, NEW v \in Int
  PROVE  SumFunction([f EXCEPT ![n] = v]) = (SumFunction(f) - f[n]) + v
<1> DEFINE h == [f EXCEPT ![n] = v]
<1>1. h \in [Namespaces -> Int] /\ h[n] = v /\ \A m \in Namespaces : m # n => h[m] = f[m]
  OBVIOUS
<1> HIDE DEF h
<1>2. SumFunction(h) = (SumFunction(f) - f[n]) + h[n]
  <2>1. IsFiniteSet(Namespaces)
    BY QuotaAssumption
  <2>2. \A g \in [Namespaces -> Int], x \in Namespaces :
          (\A y \in Namespaces : y # x => g[y] = f[y])
            => SumFunction(g) = (SumFunction(f) - f[x]) + g[x]
    BY <2>1, SumFacts, Zenon
  <2> QED
    BY <1>1, <2>2, Zenon
<1> QED
  BY <1>1, <1>2, Zenon DEF h

\* What a namespace without a status counts as is an entry.
LEMMA NotThereType == NotThere \in Entry
BY QuotaAssumption DEF NotThere, Entry

\* A quota as it is created is well typed, and its total is the sum of nothing.
LEMMA NewQuotaType ==
  ASSUME NEW s \in Selectors \cup {NoSelector}, NEW h \in Hards \cup {NoHard}
  PROVE  NewQuota(s, h) \in Quotas /\ Balanced(NewQuota(s, h))
<1>1. NewQuota(s, h) \in Quotas
  BY NotThereType DEF NewQuota, Quotas
<1>2. [n \in Namespaces |-> NewQuota(s, h).status[n].used] = [n \in Namespaces |-> 0]
  BY DEF NewQuota, NotThere
<1> DEFINE zeros == [n \in Namespaces |-> 0]
<1>3. zeros \in [Namespaces -> Int] /\ \A n \in Namespaces : zeros[n] = 0
  OBVIOUS
<1> HIDE DEF zeros
<1>4. SumFunction(zeros) = 0
  BY <1>3, QuotaAssumption, SumFacts, Zenon
<1>5. Sum(NewQuota(s, h)) = 0 /\ NewQuota(s, h).total = 0
  BY <1>2, <1>4, Zenon DEF Sum, NewQuota, zeros
<1> QED  BY <1>1, <1>5, Zenon DEF Balanced

\* So is the absent quota.
LEMMA NoQuotaType == NoQuota \in Quotas /\ Balanced(NoQuota)
<1> DEFINE q == NewQuota(NoSelector, NoHard)
<1>1. q \in Quotas /\ Balanced(q)
  BY NewQuotaType
<1>2. NoQuota \in Quotas /\ NoQuota.total = q.total /\ NoQuota.status = q.status
  BY <1>1, Zenon DEF NoQuota, Quotas
<1> QED  BY <1>1, <1>2 DEF Balanced, Sum

\* One entry changes, and the total by as much.
LEMMA EntryChanged ==
  ASSUME NEW q \in Quotas, Balanced(q), NEW n \in Namespaces, NEW e \in Entry,
         NEW new, new = [q EXCEPT !.total = (@ - q.status[n].used) + e.used, !.status[n] = e]
  PROVE  new \in Quotas /\ Balanced(new)
<1> DEFINE f == [m \in Namespaces |-> q.status[m].used]
<1>1. q.status[n].used \in Int /\ e.used \in 0 .. MaxUsage /\ e.used \in Int /\ q.total \in Int
  BY QuotaAssumption DEF Quotas, Entry
<1>2. new.total = (q.total - q.status[n].used) + e.used /\ new.status = [q.status EXCEPT ![n] = e]
  BY DEF Quotas
<1>3. new \in Quotas
  <2>1. q.status \in [Namespaces -> Entry]
    BY DEF Quotas
  <2>2. new.status \in [Namespaces -> Entry] /\ new.total \in Int
    BY <1>1, <1>2, <2>1
  <2> QED  BY <2>2, Zenon DEF Quotas
<1>4. [m \in Namespaces |-> new.status[m].used] = [f EXCEPT ![n] = e.used]
  BY <1>2, Zenon DEF Quotas
<1>5. SumFunction([f EXCEPT ![n] = e.used]) = (SumFunction(f) - f[n]) + e.used
  <2>1. f \in [Namespaces -> Int]
    BY UsedType, QuotaAssumption
  <2> HIDE DEF f
  <2> QED
    BY <1>1, <2>1, UsageChanged, Zenon
<1>6. q.total = SumFunction(f)
  BY Zenon DEF Balanced, Sum
<1> QED  BY <1>2, <1>3, <1>4, <1>5, <1>6, Zenon DEF Balanced, Sum

\* Taking a namespace out of the total and the status keeps the total the sum.
LEMMA RemovedType ==
  ASSUME NEW q \in Quotas, Balanced(q), NEW n \in Namespaces
  PROVE  /\ Removed(q, n) \in Quotas /\ Balanced(Removed(q, n))
         /\ Removed(q, n).live = q.live
         /\ Removed(q, n).sel = q.sel /\ Removed(q, n).hard = q.hard
<1>1. q.total - q.status[n].used = (q.total - q.status[n].used) + NotThere.used
  BY QuotaAssumption DEF Quotas, Entry, NotThere
<1>2. Removed(q, n) = [q EXCEPT !.total = (@ - q.status[n].used) + NotThere.used,
                                !.status[n] = NotThere]
  BY <1>1, Zenon DEF Removed, Quotas
<1>3. Removed(q, n) \in Quotas /\ Balanced(Removed(q, n))
  BY <1>2, EntryChanged, NotThereType, Zenon
<1> QED  BY <1>3 DEF Removed, Quotas

\* So does replacing a namespace's usage by the one calculated anew.
LEMMA RecalculatedType ==
  ASSUME NEW q \in Quotas, Balanced(q), NEW n \in Namespaces,
         usage \in [Namespaces -> 0 .. MaxUsage]
  PROVE  /\ Recalculated(q, n) \in Quotas /\ Balanced(Recalculated(q, n))
         /\ Recalculated(q, n).live = q.live
         /\ Recalculated(q, n).sel = q.sel /\ Recalculated(q, n).hard = q.hard
<1> DEFINE e == [used |-> usage[n], hard |-> q.hard]
<1>1. e \in Entry
  BY DEF Entry, Quotas
<1>2. Recalculated(q, n) = [q EXCEPT !.total = (@ - q.status[n].used) + e.used,
                                     !.status[n] = e]
  BY DEF Recalculated
<1> HIDE DEF e
<1>3. Recalculated(q, n) \in Quotas /\ Balanced(Recalculated(q, n))
  BY <1>1, <1>2, EntryChanged, Zenon
<1> QED  BY <1>3 DEF Recalculated, Quotas

\* The last loop of syncQuotaForNamespaces drops the namespaces that no longer match,
\* and the total stays the sum.
LEMMA FinishedType ==
  ASSUME NEW q \in Quotas, Balanced(q)
  PROVE  /\ Finished(q) \in Quotas /\ Balanced(Finished(q))
         /\ Finished(q).live = q.live /\ Finished(q).sel = q.sel
         /\ Finished(q).hard = q.hard /\ Finished(q).totalHard = q.hard
         /\ \A n \in Namespaces \ matching : ~ Loaded(Finished(q), n)
<1> DEFINE status == [n \in Namespaces |-> IF n \in matching THEN q.status[n] ELSE NotThere]
           bare   == [q EXCEPT !.status = status]
<1>1. status \in [Namespaces -> Entry]
  BY NotThereType DEF Quotas
<1>2. bare \in Quotas /\ bare.status = status
  BY <1>1, Zenon DEF Quotas
<1>3. Sum(q) \in Int /\ Sum(bare) \in Int
  BY <1>2, UsedType
<1> DEFINE gone == Sum(q) - Sum(bare)
           new  == [q EXCEPT !.status = status, !.totalHard = q.hard, !.total = @ - gone]
<1>4. Finished(q) = new
  BY DEF Finished
<1>5. /\ new \in Quotas /\ new.status = status /\ new.total = q.total - gone
      /\ new.live = q.live /\ new.sel = q.sel /\ new.hard = q.hard /\ new.totalHard = q.hard
  <2>1. gone \in Int
    BY <1>3
  <2> HIDE DEF gone, bare, status
  <2>2. /\ new.status = status /\ new.total = q.total - gone /\ new.sel = q.sel
        /\ new.hard = q.hard /\ new.totalHard = q.hard
    BY DEF Quotas
  <2>3. new.live = q.live
    BY Zenon DEF Quotas
  <2>4. new \in Quotas
    <3> DEFINE total == q.total - gone
    <3>1. total \in Int /\ q.hard \in Hards \cup {NoHard}
      BY <2>1 DEF Quotas
    <3> HIDE DEF total
    <3>2. [q EXCEPT !.status = status, !.totalHard = q.hard, !.total = total] \in Quotas
      BY <1>1, <3>1, Zenon DEF Quotas
    <3> QED  BY <3>2 DEF total
  <2> QED  BY <2>2, <2>3, <2>4
<1>6. Sum(new) = Sum(bare)
  <2> HIDE DEF bare, status, new
  <2> QED  BY <1>2, <1>5 DEF Sum
<1>7. Balanced(new)
  <2> HIDE DEF bare, status, new
  <2> QED  BY <1>3, <1>5, <1>6 DEF Balanced
<1>8. \A n \in Namespaces \ matching : ~ Loaded(new, n)
  <2> HIDE DEF new
  <2> QED  BY <1>5, Zenon DEF Loaded
<1> HIDE DEF bare, status, new
<1> QED  BY <1>4, <1>5, <1>7, <1>8

-----------------------------------------------------------------------------
(* The invariant.                                                          *)
LEMMA QuotaInvInit == Init => QuotaInv
<1> SUFFICES ASSUME Init PROVE QuotaInv
  OBVIOUS
<1>1. PICK v \in Quotas : versions = <<v>> /\ Balanced(v)
  <2>1. CASE \E s \in Selectors, h \in Hards : versions = <<NewQuota(s, h)>>
    BY <2>1, NewQuotaType
  <2>2. CASE versions = <<NoQuota>>
    BY <2>2, NoQuotaType
  <2> QED  BY <2>1, <2>2 DEF Init
<1>2. versions \in Seq(Quotas) /\ versions # <<>> /\ notify \in BOOLEAN
  BY <1>1 DEF Init, Lister, Quotas
<1>3. usage \in [Namespaces -> 0 .. MaxUsage] /\ budget \in 0 .. MaxDisturbances
  <2>1. usage \in [Namespaces -> 0 .. MaxUsage]
    BY QuotaAssumption, Zenon DEF Init
  <2>2. MaxDisturbances \in Nat
    BY QuotaAssumption
  <2> QED  BY <2>1, <2>2 DEF Init
<1>4. TypeOK
  BY <1>2, <1>3, NoQuotaType, Zenon DEF Init, TypeOK
<1>5. TotalIsSum
  BY <1>1, NoQuotaType DEF Init, TotalIsSum, Balanced
<1> QED  BY <1>4, <1>5 DEF Init, QuotaInv, FreshCopy, IdleIsClean

\* Steps that leave the quota and the worker alone.
LEMMA QuotaUntouched ==
  ASSUME QuotaInv, UNCHANGED <<versions, worker>>, TypeOK'
  PROVE  QuotaInv'
BY DEF QuotaInv, TotalIsSum, FreshCopy, IdleIsClean, worker, Sum

\* A new version of the quota.
LEMMA Appended ==
  ASSUME TypeOK, TotalIsSum, NEW q \in Quotas, Balanced(q), versions' = Append(versions, q)
  PROVE  /\ versions' \in Seq(Quotas) /\ versions' # <<>>
         /\ \A i \in DOMAIN versions' : Balanced(versions'[i])
<1>1. versions' \in Seq(Quotas) /\ versions' # <<>> /\ Len(versions') = Len(versions) + 1
  BY DEF TypeOK
<1>2. \A i \in 1 .. Len(versions) + 1 :
        versions'[i] = IF i = Len(versions) + 1 THEN q ELSE versions[i]
  BY DEF TypeOK
<1>3. \A i \in 1 .. Len(versions) : Balanced(versions[i])
  BY DEF TypeOK, TotalIsSum, Balanced
<1>4. \A i \in 1 .. Len(versions) + 1 : Balanced(versions'[i])
  <2> SUFFICES ASSUME NEW i \in 1 .. Len(versions) + 1 PROVE Balanced(versions'[i])
    OBVIOUS
  <2>1. CASE i = Len(versions) + 1
    BY <2>1, <1>2
  <2>2. CASE i # Len(versions) + 1
    <3>1. i \in 1 .. Len(versions)
      BY <2>2 DEF TypeOK
    <3> QED  BY <2>2, <3>1, <1>2, <1>3
  <2> QED  BY <2>1, <2>2
<1> QED  BY <1>1, <1>4

\* The sync is over: no fresh copy, and the empty quota in the worker.
LEMMA Returned ==
  ASSUME TypeOK, NEW again \in BOOLEAN, NEW items \in SUBSET Items, Return(again, items)
  PROVE  /\ pc' = "idle" /\ orig' \in Quotas /\ quota' \in Quotas /\ fresh' = FALSE
         /\ Balanced(quota')
         /\ matching' = {} /\ left' = {} /\ batch' = {} /\ retry' = {}
         /\ queued' \in BOOLEAN /\ work' \subseteq Items
BY NoQuotaType, Zenon DEF TypeOK, Return, Enqueue, bucket

\* Calculating the quota for some namespaces queues items only.
LEMMA Calculated ==
  ASSUME TypeOK, NEW names \in SUBSET Namespaces, NEW force \in BOOLEAN,
         Calculate(names, force)
  PROVE  queued' \in BOOLEAN /\ work' \subseteq Items
<1>1. {[ns |-> n, force |-> force] : n \in names} \subseteq Items
  BY DEF Items
<1> QED  BY <1>1, Zenon DEF TypeOK, Calculate, Enqueue, bucket

\* The number of disturbances left stays in its range.
LEMMA BudgetSpent == ASSUME TypeOK, Disturb PROVE budget' \in 0 .. MaxDisturbances
<1>1. MaxDisturbances \in Nat
  BY QuotaAssumption
<1> QED  BY <1>1 DEF TypeOK, Disturb

\* The triggers, the mapper, and users who leave the quota alone.
LEMMA TriggersKeepInv ==
  ASSUME QuotaInv,
         \/ EnqueueClusterQuota \/ CalculateAll \/ CompleteQuota
         \/ \E n \in Namespaces : SetMapping(n) \/ UseMore(n) \/ UseLess(n) \/ DeleteNamespace(n)
  PROVE  QuotaInv'
<1> USE DEF QuotaInv
<1>1. CASE EnqueueClusterQuota
  <2>1. queued' \in BOOLEAN /\ work' \subseteq Items
    BY <1>1, Calculated, Zenon DEF EnqueueClusterQuota, TypeOK
  <2>2. TypeOK'
    BY <1>1, <2>1, Zenon DEF EnqueueClusterQuota, TypeOK, cluster, worker
  <2> QED  BY <1>1, <2>2, QuotaUntouched DEF EnqueueClusterQuota, cluster
<1>2. CASE CalculateAll
  <2>1. queued' \in BOOLEAN /\ work' \subseteq Items
    BY <1>2, Calculated, Zenon DEF CalculateAll, TypeOK, Enqueue, bucket
  <2>2. TypeOK'
    BY <1>2, <2>1 DEF CalculateAll, TypeOK, cluster, mapper, worker
  <2> QED  BY <1>2, <2>2, QuotaUntouched DEF CalculateAll, cluster
<1>3. CASE CompleteQuota
  <2>1. Lister \in Quotas
    BY DEF TypeOK, Lister
  <2>2. mappedSel' \in Selectors \cup {NoSelector}
    BY <1>3, <2>1 DEF CompleteQuota, Quotas
  <2>3. TypeOK'
    BY <1>3, <2>2 DEF CompleteQuota, TypeOK, cluster, bucket, worker
  <2> QED  BY <1>3, <2>3, QuotaUntouched DEF CompleteQuota, cluster
<1>4. ASSUME NEW n \in Namespaces, SetMapping(n) PROVE QuotaInv'
  <2>1. queued' \in BOOLEAN /\ work' \subseteq Items
    BY <1>4, Calculated, Zenon DEF SetMapping, TypeOK
  <2>2. TypeOK'
    BY <1>4, <2>1 DEF SetMapping, TypeOK, cluster, worker
  <2> QED  BY <1>4, <2>2, QuotaUntouched DEF SetMapping, cluster
<1>5. ASSUME NEW n \in Namespaces, UseMore(n) PROVE QuotaInv'
  <2>1. MaxUsage \in Nat
    BY QuotaAssumption
  <2>2. usage' \in [Namespaces -> 0 .. MaxUsage]
    BY <1>5, <2>1 DEF UseMore, TypeOK
  <2>3. budget' \in 0 .. MaxDisturbances
    BY <1>5, BudgetSpent DEF UseMore, UserStep
  <2>4. TypeOK'
    BY <1>5, <2>2, <2>3 DEF UseMore, UserStep, TypeOK, mapper, bucket
  <2> QED  BY <1>5, <2>4, QuotaUntouched DEF UseMore, UserStep, worker
<1>6. ASSUME NEW n \in Namespaces, UseLess(n) PROVE QuotaInv'
  <2>1. MaxUsage \in Nat
    BY QuotaAssumption
  <2>2. usage' \in [Namespaces -> 0 .. MaxUsage]
    BY <1>6, <2>1 DEF UseLess, TypeOK
  <2>3. budget' \in 0 .. MaxDisturbances
    BY <1>6, BudgetSpent DEF UseLess, UserStep
  <2>4. queued' \in BOOLEAN /\ work' \subseteq Items
    BY <1>6, Calculated, Zenon DEF UseLess, ReplenishQuota
  <2>5. TypeOK'
    BY <1>6, <2>2, <2>3, <2>4 DEF UseLess, UserStep, TypeOK, mapper
  <2> QED  BY <1>6, <2>5, QuotaUntouched DEF UseLess, UserStep, worker
<1>7. ASSUME NEW n \in Namespaces, DeleteNamespace(n) PROVE QuotaInv'
  <2>1. MaxUsage \in Nat
    BY QuotaAssumption
  <2>2. usage' \in [Namespaces -> 0 .. MaxUsage]
    BY <1>7, <2>1 DEF DeleteNamespace, TypeOK
  <2>3. budget' \in 0 .. MaxDisturbances
    BY <1>7, BudgetSpent DEF DeleteNamespace, UserStep
  <2>4. TypeOK'
    BY <1>7, <2>2, <2>3 DEF DeleteNamespace, UserStep, TypeOK, mapper, bucket
  <2> QED  BY <1>7, <2>4, QuotaUntouched DEF DeleteNamespace, UserStep, worker
<1> QED  BY <1>1, <1>2, <1>3, <1>4, <1>5, <1>6, <1>7

\* Users write the quota: the worker's copy is no longer fresh.
LEMMA WritesKeepInv ==
  ASSUME QuotaInv, NEW q \in Quotas, Balanced(q), WriteQuota(q)
  PROVE  QuotaInv'
<1> USE DEF QuotaInv
<1>1. /\ versions' \in Seq(Quotas) /\ versions' # <<>>
      /\ \A i \in DOMAIN versions' : Balanced(versions'[i])
  BY Appended DEF WriteQuota
<1>2. budget' \in 0 .. MaxDisturbances
  BY BudgetSpent DEF WriteQuota, UserStep
<1>3. TypeOK'
  BY <1>1, <1>2, Zenon DEF TypeOK, WriteQuota, UserStep, mapper, bucket
<1>4. TotalIsSum'
  BY <1>1, Zenon DEF TotalIsSum, Balanced, Sum, WriteQuota, UserStep
<1>5. FreshCopy'
  BY DEF FreshCopy, WriteQuota
<1>6. IdleIsClean'
  BY DEF IdleIsClean, WriteQuota, UserStep
<1> QED  BY <1>3, <1>4, <1>5, <1>6

\* What users do to the quota keeps the invariant.
LEMMA UsersKeepInv ==
  ASSUME QuotaInv, EditQuota \/ DeleteQuota \/ CreateQuota
  PROVE  QuotaInv'
<1>1. CASE EditQuota
  <2>1. PICK s \in Selectors, h \in Hards : WriteQuota([Stored EXCEPT !.sel = s, !.hard = h])
    BY <1>1, Zenon DEF EditQuota
  <2>2. Stored \in Quotas /\ Balanced(Stored)
    BY DEF QuotaInv, TypeOK, TotalIsSum, Stored, Balanced
  <2>3. \A q \in Quotas : /\ [q EXCEPT !.sel = s, !.hard = h] \in Quotas
                          /\ [q EXCEPT !.sel = s, !.hard = h].total = q.total
                          /\ [q EXCEPT !.sel = s, !.hard = h].status = q.status
    BY Zenon DEF Quotas
  <2>4. Balanced([Stored EXCEPT !.sel = s, !.hard = h])
    BY <2>2, <2>3, Zenon DEF Balanced, Sum
  <2> QED  BY <2>1, <2>2, <2>3, <2>4, WritesKeepInv, Zenon
<1>2. CASE DeleteQuota
  BY <1>2, NoQuotaType, WritesKeepInv DEF DeleteQuota
<1>3. CASE CreateQuota
  BY <1>3, NewQuotaType, WritesKeepInv DEF CreateQuota
<1> QED  BY <1>1, <1>2, <1>3

\* A fresh copy means that the informer has nothing to deliver.
LEMMA WatchKeepsInv == ASSUME QuotaInv, WatchQuota PROVE QuotaInv'
<1> USE DEF QuotaInv
<1>1. /\ versions' \in Seq(Quotas) /\ versions' # <<>>
      /\ \A i \in DOMAIN versions' : i + 1 \in DOMAIN versions /\ versions'[i] = versions[i + 1]
  <2>1. versions \in Seq(Quotas) /\ Len(versions) > 1 /\ versions' = Tail(versions)
    BY DEF TypeOK, WatchQuota
  <2>2. Tail(versions) \in Seq(Quotas) /\ Len(Tail(versions)) = Len(versions) - 1
    BY <2>1
  <2>3. \A i \in 1 .. Len(versions) - 1 : Tail(versions)[i] = versions[i + 1]
    BY <2>1
  <2>4. /\ DOMAIN versions' = 1 .. Len(versions) - 1 /\ DOMAIN versions = 1 .. Len(versions)
        /\ Len(versions) \in Nat
    BY <2>1, <2>2
  <2>5. versions' # <<>>
    <3>1. 1 \in DOMAIN versions'
      BY <2>1, <2>4
    <3> QED  BY <3>1
  <2>6. \A i \in 1 .. Len(versions) - 1 : i + 1 \in 1 .. Len(versions)
    BY <2>4
  <2> QED  BY <2>1, <2>2, <2>3, <2>4, <2>5, <2>6
<1>2. queued' \in BOOLEAN /\ work' \subseteq Items
  BY Calculated, Zenon DEF WatchQuota, TypeOK, bucket
<1>3. TypeOK'
  BY <1>1, <1>2, Zenon DEF TypeOK, WatchQuota, worker
<1>4. TotalIsSum'
  BY <1>1 DEF TotalIsSum, Sum, WatchQuota, worker
<1>5. ~ fresh
  BY DEF FreshCopy, WatchQuota
<1> QED  BY <1>3, <1>4, <1>5 DEF FreshCopy, IdleIsClean, WatchQuota, worker

\* One round of the loop over the work items keeps the invariant.
LEMMA SyncItemKeepsInv ==
  ASSUME QuotaInv, NEW i \in Items, SyncItem(i)
  PROVE  QuotaInv'
<1> USE DEF QuotaInv
<1>1. i.ns \in Namespaces
  BY DEF Items
<1>2. quota \in Quotas /\ Balanced(quota)
  BY DEF TypeOK, TotalIsSum, Balanced
<1>3. /\ quota' \in Quotas /\ Balanced(quota')
      /\ quota'.live = quota.live /\ quota'.sel = quota.sel /\ quota'.hard = quota.hard
  <2>1. CASE quota' = Removed(quota, i.ns)
    BY <2>1, <1>1, <1>2, RemovedType
  <2>2. CASE quota' = Recalculated(quota, i.ns)
    BY <2>2, <1>1, <1>2, RecalculatedType DEF TypeOK
  <2>3. CASE quota' = quota
    BY <2>3, <1>2
  <2> QED  BY <2>1, <2>2, <2>3 DEF SyncItem
<1>4. budget' \in 0 .. MaxDisturbances
  BY BudgetSpent DEF SyncItem, TypeOK
<1>5. retry' \subseteq batch /\ left' \subseteq batch
  BY DEF SyncItem, TypeOK
<1>6. TypeOK'
  BY <1>3, <1>4, <1>5 DEF TypeOK, SyncItem, cluster, mapper, bucket
<1>7. TotalIsSum'
  BY <1>3 DEF TotalIsSum, Balanced, Sum, SyncItem, cluster
<1>8. FreshCopy'
  BY <1>3 DEF FreshCopy, SyncItem, cluster
<1> QED  BY <1>6, <1>7, <1>8 DEF IdleIsClean, SyncItem

\* The other steps of the worker keep the invariant.
LEMMA WorkerKeepsInv ==
  ASSUME QuotaInv, Take \/ GetNamespacesFor \/ UpdateStatus \/ UpdateFails
  PROVE  QuotaInv'
<1> USE DEF QuotaInv
<1>1. CASE Take
  <2>1. Lister \in Quotas /\ Balanced(Lister) /\ (Len(versions) = 1 => versions = <<Lister>>)
    BY DEF TypeOK, TotalIsSum, Lister, Balanced
  <2>2. TypeOK'
    <3>1. fresh' \in BOOLEAN
      BY <1>1, Zenon DEF TypeOK, Take, worker
    <3>2. CASE Lister.live
      BY <1>1, <2>1, <3>1, <3>2, Zenon DEF TypeOK, IdleIsClean, Take, cluster, mapper
    <3>3. CASE ~ Lister.live
      BY <1>1, <3>3, Zenon DEF TypeOK, Take, cluster, mapper, worker
    <3> QED  BY <3>2, <3>3
  <2>3. TotalIsSum'
    BY <1>1, <2>1, Zenon DEF TotalIsSum, Balanced, Sum, Take, cluster, worker
  <2>4. FreshCopy'
    BY <1>1, <2>1, Zenon DEF FreshCopy, Take, cluster, worker
  <2> QED  BY <1>1, <2>2, <2>3, <2>4 DEF IdleIsClean, Take, worker
<1>2. CASE GetNamespacesFor
  <2>1. CASE mappedSel = quota.sel
    BY <1>2, <2>1 DEF GetNamespacesFor, TypeOK, TotalIsSum, FreshCopy, IdleIsClean, Sum,
       cluster, mapper, bucket
  <2>2. CASE mappedSel # quota.sel
    <3>1. Return(TRUE, batch) /\ batch \in SUBSET Items
      BY <1>2, <2>2, Zenon DEF GetNamespacesFor, TypeOK
    <3>2. TypeOK'
      BY <1>2, <3>1, Returned, Zenon DEF GetNamespacesFor, TypeOK, cluster, mapper
    <3>3. TotalIsSum' /\ FreshCopy' /\ IdleIsClean'
      BY <1>2, <3>1, Returned, Zenon DEF GetNamespacesFor, TotalIsSum, FreshCopy, IdleIsClean,
         Balanced, Sum, cluster
    <3> QED  BY <3>2, <3>3
  <2> QED  BY <2>1, <2>2
<1>3. CASE UpdateStatus
  <2>1. PICK again \in BOOLEAN, items \in SUBSET Items : Return(again, items)
    BY <1>3, Zenon DEF UpdateStatus, TypeOK
  <2>2. Finished(quota) \in Quotas /\ Balanced(Finished(quota))
    BY FinishedType DEF TypeOK, TotalIsSum, Balanced
  <2>3. /\ versions' \in Seq(Quotas) /\ versions' # <<>>
        /\ \A i \in DOMAIN versions' : Balanced(versions'[i])
    <3>1. CASE versions' = Append(versions, Finished(quota))
      BY <3>1, <2>2, Appended
    <3>2. CASE UNCHANGED versions
      BY <3>2 DEF TypeOK, TotalIsSum, Balanced
    <3> QED  BY <1>3, <3>1, <3>2, Zenon DEF UpdateStatus
  <2>4. budget' \in 0 .. MaxDisturbances
    BY <1>3, BudgetSpent, Zenon DEF UpdateStatus, TypeOK
  <2>5. TypeOK'
    BY <1>3, <2>1, <2>3, <2>4, Returned, Zenon DEF UpdateStatus, TypeOK, mapper
  <2>6. TotalIsSum' /\ FreshCopy' /\ IdleIsClean'
    BY <2>1, <2>3, Returned, Zenon DEF TotalIsSum, FreshCopy, IdleIsClean, Balanced, Sum
  <2> QED  BY <2>5, <2>6
<1>4. CASE UpdateFails
  <2>1. Return(TRUE, batch) /\ batch \in SUBSET Items
    BY <1>4, Zenon DEF UpdateFails, TypeOK
  <2>2. budget' \in 0 .. MaxDisturbances
    BY <1>4, BudgetSpent DEF UpdateFails
  <2>3. TypeOK'
    BY <1>4, <2>1, <2>2, Returned, Zenon DEF UpdateFails, TypeOK, cluster, mapper
  <2>4. TotalIsSum' /\ FreshCopy' /\ IdleIsClean'
    BY <1>4, <2>1, Returned, Zenon DEF UpdateFails, TotalIsSum, FreshCopy, IdleIsClean,
       Balanced, Sum, cluster
  <2> QED  BY <2>3, <2>4
<1> QED  BY <1>1, <1>2, <1>3, <1>4

\* Every step keeps the invariant.
LEMMA QuotaInvNext == QuotaInv /\ [Next]_vars => QuotaInv'
<1> SUFFICES ASSUME QuotaInv, [Next]_vars PROVE QuotaInv'
  OBVIOUS
<1>1. CASE Worker
  BY <1>1, WorkerKeepsInv, SyncItemKeepsInv DEF Worker
<1>2. CASE Next /\ ~ Worker
  BY <1>2, TriggersKeepInv, WatchKeepsInv, UsersKeepInv DEF Next
<1>3. CASE UNCHANGED vars
  BY <1>3 DEF QuotaInv, TypeOK, TotalIsSum, FreshCopy, IdleIsClean, Sum, vars, cluster,
     mapper, bucket, worker
<1> QED  BY <1>1, <1>2, <1>3

-----------------------------------------------------------------------------
\* The variables keep their types: what syncQuotaForNamespaces writes is always
\* a status of the quota.
THEOREM QuotaTypes == Spec => []TypeOK
<1>1. QuotaInv => TypeOK
  BY DEF QuotaInv
<1> QED  BY <1>1, QuotaInvInit, QuotaInvNext, PTL DEF Spec

\* The total that syncQuotaForNamespaces keeps by increments is the sum over the
\* namespaces, in the copy it works on and in every version of the quota.
THEOREM TotalsNeverDrift == Spec => []TotalIsSum
<1>1. QuotaInv => TotalIsSum
  BY DEF QuotaInv
<1> QED  BY <1>1, QuotaInvInit, QuotaInvNext, PTL DEF Spec

\* UpdateStatus stores a status only over the specification that it was
\* computed for, and without namespaces that the mapper did not name.
THEOREM StatusMatchesSpec == Spec => StoresForStoredSpec
<1>1. ASSUME QuotaInv, [Next]_vars, pc # pc', Len(versions') > Len(versions)
      PROVE  /\ Stored.live /\ Stored'.live
             /\ Stored'.sel = Stored.sel /\ Stored'.totalHard = Stored.hard
             /\ \A n \in Namespaces \ matching : ~ Loaded(Stored', n)
  <2>1. versions \in Seq(Quotas) /\ versions # <<>> /\ quota \in Quotas /\ Balanced(quota)
    BY <1>1 DEF QuotaInv, TypeOK, TotalIsSum, Balanced
  <2>2. UpdateStatus /\ fresh /\ versions' = Append(versions, Finished(quota))
    <3>1. versions' # versions /\ pc' # pc
      BY <1>1, <2>1
    <3>2. ~ Take /\ ~ GetNamespacesFor /\ ~ UpdateFails /\ ~ \E i \in Items : SyncItem(i)
      BY <3>1, Zenon DEF Take, GetNamespacesFor, UpdateFails, SyncItem, cluster
    <3>3. ~ EnqueueClusterQuota /\ ~ CalculateAll /\ ~ WatchQuota /\ ~ CompleteQuota
      BY <3>1, Zenon DEF EnqueueClusterQuota, CalculateAll, WatchQuota, CompleteQuota, worker
    <3>4. ~ \E n \in Namespaces : SetMapping(n) \/ UseMore(n) \/ UseLess(n) \/ DeleteNamespace(n)
      BY <3>1, Zenon DEF SetMapping, UseMore, UseLess, DeleteNamespace, UserStep, worker
    <3>5. ~ EditQuota /\ ~ DeleteQuota /\ ~ CreateQuota
      BY <3>1, Zenon DEF EditQuota, DeleteQuota, CreateQuota, WriteQuota, UserStep
    <3>6. UpdateStatus
      BY <1>1, <3>1, <3>2, <3>3, <3>4, <3>5 DEF Next, Worker, vars, worker
    <3> QED  BY <3>1, <3>6, Zenon DEF UpdateStatus
  <2>3. Stored' = Finished(quota) /\ Stored = orig
    <3>1. Finished(quota) \in Quotas
      BY <2>1, FinishedType
    <3>2. versions'[Len(versions')] = Finished(quota)
      BY <2>1, <2>2, <3>1
    <3>3. versions = <<orig>>
      BY <1>1, <2>2 DEF QuotaInv, FreshCopy
    <3> QED  BY <3>2, <3>3 DEF Stored
  <2> QED  BY <1>1, <2>1, <2>2, <2>3, FinishedType, Zenon DEF QuotaInv, FreshCopy, Loaded
<1> QED  BY <1>1, QuotaInvInit, QuotaInvNext, PTL DEF Spec, StoresForStoredSpec
=============================================================================
