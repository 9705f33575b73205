-------------------------- MODULE DeadlockToolsProofs --------------------------
(***************************************************************************)
(* For any numbers of processes and resources and any demands: the tables  *)
(* of bankers.c stay consistent and safe, its safety test and that of      *)
(* deadlock.c answer what the definition of a safe state says and agree,   *)
(* and the searches for deadlocks report a deadlock exactly when there is  *)
(* one.  That the searches end is left to TLC.                             *)
(***************************************************************************)
EXTENDS DeadlockTools, TLAPS, FiniteSetTheorems, WellFoundedInduction,
        SequenceTheorems, Functions

-------------------------------------------------------------------------------
(***************************************************************************)
(* Least numbers and smallest sets.  What holds for all of them is shown   *)
(* by looking at the smallest one for which it fails.                      *)
(***************************************************************************)
LEMMA LeastNumber ==
  ASSUME NEW W \in SUBSET Nat, W # {}
  PROVE  \E k \in W : \A j \in W : k <= j
<1>1. PICK k \in W : \A j \in W : <<j, k>> \notin OpToRel(<, Nat)
  BY NatLessThanWellFounded, WFMin
<1>2. \A j \in W : ~(j < k)
  BY <1>1 DEF OpToRel
<1> QED
  BY <1>2

LEMMA SmallestSet ==
  ASSUME NEW S, IsFiniteSet(S), NEW W \in SUBSET (SUBSET S), W # {}
  PROVE  \E T \in W : \A U \in SUBSET T : U # T => U \notin W
<1>1. IsWellFoundedOn(StrictSubsetOrdering(S), SUBSET S)
  BY FS_StrictSubsetOrderingWellFounded, FS_FiniteSubsetsOfFinite
<1>2. PICK T \in W : \A U \in W : <<U, T>> \notin StrictSubsetOrdering(S)
  BY <1>1, WFMin
<1> QED
  BY <1>2 DEF StrictSubsetOrdering

-------------------------------------------------------------------------------
(***************************************************************************)
(* Sums over a set                                                         *)
(***************************************************************************)
Sum(f, S) == FoldFunctionOnSet(+, 0, f, S)

\* The member of a set that its sum takes first.
First(s) == CHOOSE x \in s : TRUE

\* it is the table of the sums over the subsets of S.
Sums(f, S, it) ==
  it = [s \in SUBSET S |-> IF s = {} THEN 0 ELSE f[First(s)] + it[s \ {First(s)}]]

LEMMA SumUnfold ==
  ASSUME NEW f, NEW S
  PROVE  Sum(f, S) = (CHOOSE it : Sums(f, S, it))[S]
BY DEF Sum, Sums, First, FoldFunctionOnSet, MapThenFoldSet

LEMMA FirstIsMember ==
  ASSUME NEW s, s # {}
  PROVE  First(s) \in s
BY DEF First

\* Two such tables agree where both are defined.
LEMMA SumsAgree ==
  ASSUME NEW f, NEW S, NEW T, IsFiniteSet(S), T \subseteq S,
         NEW g, Sums(f, S, g), NEW h, Sums(f, T, h)
  PROVE  \A s \in SUBSET T : g[s] = h[s]
<1> DEFINE W == {s \in SUBSET T : g[s] # h[s]}
<1> SUFFICES ASSUME W # {} PROVE FALSE
  OBVIOUS
<1>1. PICK s \in W : \A u \in SUBSET s : u # s => u \notin W
  <2>1. W \in SUBSET (SUBSET S) /\ W # {}
    OBVIOUS
  <2> HIDE DEF W
  <2> QED
    BY <2>1, SmallestSet
<1>2. /\ s \in SUBSET S /\ s \in SUBSET T
  OBVIOUS
<1>3. /\ g[s] = IF s = {} THEN 0 ELSE f[First(s)] + g[s \ {First(s)}]
      /\ h[s] = IF s = {} THEN 0 ELSE f[First(s)] + h[s \ {First(s)}]
  <2>1. g[s] = [u \in SUBSET S |-> IF u = {} THEN 0 ELSE f[First(u)] + g[u \ {First(u)}]][s]
    BY DEF Sums
  <2>2. h[s] = [u \in SUBSET T |-> IF u = {} THEN 0 ELSE f[First(u)] + h[u \ {First(u)}]][s]
    BY DEF Sums
  <2> QED
    BY <1>2, <2>1, <2>2
<1>4. CASE s = {}
  BY <1>3, <1>4
<1>5. CASE s # {}
  <2>1. First(s) \in s
    BY <1>5, FirstIsMember
  <2>2. s \ {First(s)} \notin W /\ s \ {First(s)} \in SUBSET T
    BY <1>1, <1>2, <2>1
  <2> QED
    BY <1>3, <1>5, <2>2
<1> QED
  BY <1>4, <1>5

LEMMA SumsExist ==
  ASSUME NEW f, NEW S, IsFiniteSet(S)
  PROVE  \E it : Sums(f, S, it)
<1> DEFINE W == {s \in SUBSET S : ~ \E it : Sums(f, s, it)}
           It(s) == CHOOSE it : Sums(f, s, it)
<1> SUFFICES ASSUME W # {} PROVE FALSE
  OBVIOUS
<1>1. PICK T \in W : \A u \in SUBSET T : u # T => u \notin W
  <2>1. W \in SUBSET (SUBSET S) /\ W # {}
    OBVIOUS
  <2> HIDE DEF W
  <2> QED
    BY <2>1, SmallestSet
<1> DEFINE Val(s) == IF s = {} THEN 0
                     ELSE f[First(s)] + It(s \ {First(s)})[s \ {First(s)}]
           h == [s \in SUBSET T |-> Val(s)]
<1>2. ASSUME NEW s \in SUBSET T, s # T
      PROVE  Sums(f, s, It(s)) /\ IsFiniteSet(s)
  <2>1. s \in SUBSET S /\ s \notin W
    BY <1>1, <1>2
  <2> QED
    BY <2>1, FS_Subset
<1>3. ASSUME NEW s \in SUBSET T, s # T
      PROVE  It(s)[s] = Val(s)
  <2>1. Sums(f, s, It(s)) /\ IsFiniteSet(s)
    BY <1>2, <1>3
  <2>2. It(s)[s] = IF s = {} THEN 0 ELSE f[First(s)] + It(s)[s \ {First(s)}]
    <3> HIDE DEF It
    <3>1. It(s)[s] = [u \in SUBSET s |-> IF u = {} THEN 0
                            ELSE f[First(u)] + It(s)[u \ {First(u)}]][s]
      BY <2>1 DEF Sums
    <3> QED
      BY <3>1
  <2>3. CASE s = {}
    BY <2>2, <2>3
  <2>4. CASE s # {}
    <3> DEFINE u == s \ {First(s)}
    <3>1. u \in SUBSET T /\ u # T /\ u \subseteq s
      BY <1>3, <2>4, FirstIsMember
    <3>2. Sums(f, u, It(u))
      BY <1>2, <3>1
    <3> HIDE DEF It, u
    <3>3. It(s)[u] = It(u)[u]
      BY <2>1, <3>1, <3>2, SumsAgree
    <3> QED
      BY <2>2, <2>4, <3>3 DEF u
  <2> QED
    BY <2>3, <2>4
<1>4. Sums(f, T, h)
  <2>1. ASSUME NEW s \in SUBSET T
        PROVE  h[s] = IF s = {} THEN 0 ELSE f[First(s)] + h[s \ {First(s)}]
    <3>1. CASE s = {}
      BY <3>1
    <3>2. CASE s # {}
      <4> DEFINE u == s \ {First(s)}
      <4>1. u \in SUBSET T /\ u # T
        BY <3>2, FirstIsMember
      <4>2. It(u)[u] = Val(u)
        BY <1>3, <4>1
      <4>3. h[u] = Val(u)
        BY <4>1
      <4>4. h[s] = f[First(s)] + It(u)[u]
        BY <3>2
      <4> HIDE DEF h, Val, It
      <4> QED
        BY <3>2, <4>2, <4>3, <4>4
    <3> QED
      BY <3>1, <3>2
  <2>2. \A s \in SUBSET T :
          Val(s) = IF s = {} THEN 0 ELSE f[First(s)] + h[s \ {First(s)}]
    <3>1. \A s \in SUBSET T : h[s] = Val(s)
      OBVIOUS
    <3> HIDE DEF h, Val
    <3> QED
      BY <2>1, <3>1
  <2>3. PICK g : g = h
    OBVIOUS
  <2>4. g = [s \in SUBSET T |-> Val(s)]
    BY <2>3
  <2>5. g = [s \in SUBSET T |-> IF s = {} THEN 0 ELSE f[First(s)] + g[s \ {First(s)}]]
    <3> HIDE DEF h, Val
    <3> QED
      BY <2>2, <2>3, <2>4
  <2>6. Sums(f, T, g)
    BY <2>5 DEF Sums
  <2> HIDE DEF h
  <2> QED
    BY <2>3, <2>6
<1> QED
  BY <1>4

LEMMA SumsTable ==
  ASSUME NEW f, NEW S, IsFiniteSet(S)
  PROVE  /\ Sum(f, {}) = 0
         /\ \A s \in SUBSET S : s # {} =>
              Sum(f, s) = f[First(s)] + Sum(f, s \ {First(s)})
<1> DEFINE It(s) == CHOOSE it : Sums(f, s, it)
<1>1. ASSUME NEW s \in SUBSET S
      PROVE  Sums(f, s, It(s)) /\ IsFiniteSet(s)
  <2>1. IsFiniteSet(s)
    BY FS_Subset
  <2> QED
    BY <2>1, SumsExist
<1>2. \A s : Sum(f, s) = It(s)[s]
  BY SumUnfold
<1> HIDE DEF It
<1>3. ASSUME NEW s \in SUBSET S
      PROVE  It(s)[s] = IF s = {} THEN 0 ELSE f[First(s)] + It(s)[s \ {First(s)}]
  <2>1. It(s)[s] = [u \in SUBSET s |-> IF u = {} THEN 0
                        ELSE f[First(u)] + It(s)[u \ {First(u)}]][s]
    BY <1>1 DEF Sums
  <2> QED
    BY <2>1
<1>4. ASSUME NEW s \in SUBSET S, s # {}
      PROVE  Sum(f, s) = f[First(s)] + Sum(f, s \ {First(s)})
  <2> DEFINE u == s \ {First(s)}
  <2>1. u \in SUBSET S /\ u \subseteq s
    OBVIOUS
  <2> HIDE DEF u
  <2>2. /\ Sums(f, s, It(s)) /\ Sums(f, u, It(u)) /\ u \in SUBSET u
        /\ IsFiniteSet(s)
    BY <1>1, <1>4, <2>1
  <2>3. It(s)[u] = It(u)[u]
    BY <2>1, <2>2, SumsAgree
  <2> QED
    BY <1>2, <1>3, <1>4, <2>3 DEF u
<1> QED
  BY <1>2, <1>3, <1>4

Whole(f, S) == IsFiniteSet(S) /\ \A x \in S : f[x] \in Int
Counts(f, S) == IsFiniteSet(S) /\ \A x \in S : f[x] \in Nat

LEMMA SumOfEmpty == ASSUME NEW f PROVE Sum(f, {}) = 0
BY SumsTable, FS_EmptySet

LEMMA SumIsWhole ==
  ASSUME NEW f, NEW S, Whole(f, S)
  PROVE  \A s \in SUBSET S : Sum(f, s) \in Int
<1> DEFINE W == {s \in SUBSET S : Sum(f, s) \notin Int}
<1> SUFFICES ASSUME W # {} PROVE FALSE
  OBVIOUS
<1>1. PICK s \in W : \A u \in SUBSET s : u # s => u \notin W
  <2>1. W \in SUBSET (SUBSET S) /\ W # {} /\ IsFiniteSet(S)
    BY DEF Whole
  <2> HIDE DEF W
  <2> QED
    BY <2>1, SmallestSet
<1>2. s # {}
  BY SumOfEmpty
<1>3. First(s) \in s /\ f[First(s)] \in Int
  BY <1>2, FirstIsMember DEF Whole
<1>4. Sum(f, s \ {First(s)}) \in Int
  BY <1>1, <1>3
<1>5. Sum(f, s) = f[First(s)] + Sum(f, s \ {First(s)})
  BY <1>2, SumsTable DEF Whole
<1> QED
  BY <1>3, <1>4, <1>5

\* The order of a sum does not matter: any member can be taken first.
LEMMA SumRemove ==
  ASSUME NEW f, NEW S, Whole(f, S)
  PROVE  \A s \in SUBSET S : \A a \in s : Sum(f, s) = f[a] + Sum(f, s \ {a})
<1> DEFINE W == {s \in SUBSET S : \E a \in s : Sum(f, s) # f[a] + Sum(f, s \ {a})}
<1> SUFFICES ASSUME W # {} PROVE FALSE
  OBVIOUS
<1>1. PICK s \in W : \A u \in SUBSET s : u # s => u \notin W
  <2>1. W \in SUBSET (SUBSET S) /\ W # {} /\ IsFiniteSet(S)
    BY DEF Whole
  <2> HIDE DEF W
  <2> QED
    BY <2>1, SmallestSet
<1>2. PICK a \in s : Sum(f, s) # f[a] + Sum(f, s \ {a})
  OBVIOUS
<1>3. PICK c \in s : Sum(f, s) = f[c] + Sum(f, s \ {c})
  BY SumsTable, FirstIsMember DEF Whole
<1>4. a # c
  BY <1>2, <1>3
<1>5. s \ {c} \notin W /\ s \ {a} \notin W
  BY <1>1
<1>6. /\ Sum(f, s \ {c}) = f[a] + Sum(f, (s \ {c}) \ {a})
      /\ Sum(f, s \ {a}) = f[c] + Sum(f, (s \ {a}) \ {c})
  BY <1>4, <1>5
<1>7. (s \ {c}) \ {a} = (s \ {a}) \ {c} /\ (s \ {a}) \ {c} \in SUBSET S
  OBVIOUS
<1>8. f[a] \in Int /\ f[c] \in Int /\ Sum(f, (s \ {a}) \ {c}) \in Int
  BY <1>7, SumIsWhole DEF Whole
<1>9. f[a] + (f[c] + Sum(f, (s \ {a}) \ {c}))
        = f[c] + (f[a] + Sum(f, (s \ {a}) \ {c}))
  BY ONLY <1>8
<1> QED
  BY ONLY <1>2, <1>3, <1>6, <1>7, <1>9

LEMMA SumTake ==
  ASSUME NEW f, NEW S, Whole(f, S), NEW a \in S
  PROVE  Sum(f, S) = f[a] + Sum(f, S \ {a})
BY SumRemove

LEMMA SumIsCount ==
  ASSUME NEW f, NEW S, Counts(f, S)
  PROVE  Sum(f, S) \in Nat
<1> DEFINE W == {s \in SUBSET S : Sum(f, s) \notin Nat}
<1>0. Whole(f, S)
  BY DEF Whole, Counts
<1> SUFFICES ASSUME W # {} PROVE FALSE
  OBVIOUS
<1>1. PICK s \in W : \A u \in SUBSET s : u # s => u \notin W
  <2>1. W \in SUBSET (SUBSET S) /\ W # {} /\ IsFiniteSet(S)
    BY DEF Counts
  <2> HIDE DEF W
  <2> QED
    BY <2>1, SmallestSet
<1>2. PICK a \in s : TRUE
  BY SumOfEmpty
<1>3. Sum(f, s \ {a}) \in Nat /\ f[a] \in Nat
  BY <1>1 DEF Counts
<1> QED
  BY <1>0, <1>3, SumRemove

\* What is in two disjoint sets is in their union, and a part is not more than
\* the whole.
LEMMA SumOfParts ==
  ASSUME NEW f, NEW S, Whole(f, S), NEW T \in SUBSET S
  PROVE  Sum(f, S) = Sum(f, T) + Sum(f, S \ T)
<1> DEFINE W == {s \in SUBSET S : Sum(f, s) # Sum(f, s \cap T) + Sum(f, s \ T)}
<1>0. \A s \in SUBSET S : Sum(f, s) \in Int
  BY SumIsWhole
<1>1. ASSUME W # {} PROVE FALSE
  <2>1. PICK s \in W : \A u \in SUBSET s : u # s => u \notin W
    <3>1. W \in SUBSET (SUBSET S) /\ W # {} /\ IsFiniteSet(S)
      BY <1>1 DEF Whole
    <3> HIDE DEF W
    <3> QED
      BY <3>1, SmallestSet
  <2>2. PICK a \in s : TRUE
    <3>1. CASE s = {}
      <4>1. s \cap T = {} /\ s \ T = {}
        BY <3>1
      <4>2. Sum(f, s) # Sum(f, s \cap T) + Sum(f, s \ T)
        OBVIOUS
      <4> QED
        BY <3>1, <4>1, <4>2, SumOfEmpty
    <3> QED
      BY <3>1
  <2> DEFINE u == s \ {a}
  <2>3. Sum(f, u) = Sum(f, u \cap T) + Sum(f, u \ T)
    BY <2>1, <2>2
  <2>4. Sum(f, s) = f[a] + Sum(f, u) /\ f[a] \in Int
    BY <2>2, SumRemove DEF Whole
  <2>5. s \in SUBSET S /\ s \cap T \in SUBSET S /\ s \ T \in SUBSET S
        /\ u \in SUBSET S /\ u \cap T \in SUBSET S /\ u \ T \in SUBSET S
    OBVIOUS
  <2>8. Sum(f, s) # Sum(f, s \cap T) + Sum(f, s \ T)
    OBVIOUS
  <2>6. CASE a \in T
    <3>1. u \cap T = (s \cap T) \ {a} /\ u \ T = s \ T /\ a \in s \cap T
      BY <2>2, <2>6
    <3>2. Sum(f, s \cap T) = f[a] + Sum(f, u \cap T)
      BY <2>5, <3>1, SumRemove
    <3>3. Sum(f, u \cap T) \in Int /\ Sum(f, u \ T) \in Int
      BY <1>0, <2>5
    <3>4. f[a] + (Sum(f, u \cap T) + Sum(f, u \ T))
          = (f[a] + Sum(f, u \cap T)) + Sum(f, u \ T)
      BY ONLY <2>4, <3>3
    <3> QED
      BY ONLY <2>3, <2>4, <2>8, <3>1, <3>2, <3>4
  <2>7. CASE a \notin T
    <3>1. u \cap T = s \cap T /\ u \ T = (s \ T) \ {a} /\ a \in s \ T
      BY <2>2, <2>7
    <3>2. Sum(f, s \ T) = f[a] + Sum(f, u \ T)
      BY <2>5, <3>1, SumRemove
    <3>3. Sum(f, u \cap T) \in Int /\ Sum(f, u \ T) \in Int
      BY <1>0, <2>5
    <3>4. f[a] + (Sum(f, u \cap T) + Sum(f, u \ T))
          = Sum(f, u \cap T) + (f[a] + Sum(f, u \ T))
      BY ONLY <2>4, <3>3
    <3> QED
      BY ONLY <2>3, <2>4, <2>8, <3>1, <3>2, <3>4
  <2> QED
    BY <2>6, <2>7
<1>2. S \notin W
  BY <1>1
<1>3. S \cap T = T
  OBVIOUS
<1> QED
  BY <1>2, <1>3

LEMMA SumGrows ==
  ASSUME NEW f, NEW S, Counts(f, S), NEW T \in SUBSET S
  PROVE  Sum(f, T) <= Sum(f, S)
<1>1. Whole(f, S) /\ Counts(f, T) /\ Counts(f, S \ T)
  BY FS_Subset DEF Whole, Counts
<1>2. Sum(f, T) \in Nat /\ Sum(f, S \ T) \in Nat
  BY <1>1, SumIsCount
<1> QED
  BY <1>1, <1>2, SumOfParts

\* Only the entries that are added count.
LEMMA SumOfEqual ==
  ASSUME NEW f, NEW g, NEW S, Whole(f, S), \A x \in S : f[x] = g[x]
  PROVE  Sum(f, S) = Sum(g, S)
<1> DEFINE W == {s \in SUBSET S : Sum(f, s) # Sum(g, s)}
<1>0. Whole(g, S)
  BY DEF Whole
<1> SUFFICES ASSUME W # {} PROVE FALSE
  OBVIOUS
<1>1. PICK s \in W : \A u \in SUBSET s : u # s => u \notin W
  <2>1. W \in SUBSET (SUBSET S) /\ W # {} /\ IsFiniteSet(S)
    BY DEF Whole
  <2> HIDE DEF W
  <2> QED
    BY <2>1, SmallestSet
<1>2. PICK a \in s : TRUE
  BY SumOfEmpty
<1>3. Sum(f, s \ {a}) = Sum(g, s \ {a})
  BY <1>1
<1>4. Sum(f, s) = f[a] + Sum(f, s \ {a}) /\ Sum(g, s) = g[a] + Sum(g, s \ {a})
  BY <1>0, SumRemove
<1> QED
  BY <1>3, <1>4

\* A sum changes by what one entry changes.
LEMMA SumOfChanged ==
  ASSUME NEW f, NEW g, NEW S, Whole(f, S), Whole(g, S), NEW a \in S,
         \A x \in S : x # a => f[x] = g[x]
  PROVE  Sum(g, S) = Sum(f, S) - f[a] + g[a]
<1>1. Whole(f, S \ {a}) /\ f[a] \in Int /\ g[a] \in Int
  BY FS_Subset DEF Whole
<1>2. Sum(f, S \ {a}) = Sum(g, S \ {a})
  BY <1>1, SumOfEqual
<1>3. Sum(f, S) = f[a] + Sum(f, S \ {a}) /\ Sum(g, S) = g[a] + Sum(g, S \ {a})
  BY SumRemove
<1>4. Sum(f, S \ {a}) \in Int
  BY <1>1, SumIsWhole
<1> QED
  BY <1>1, <1>2, <1>3, <1>4

LEMMA SumOfZeros ==
  ASSUME NEW f, NEW S, IsFiniteSet(S), \A x \in S : f[x] = 0
  PROVE  Sum(f, S) = 0
<1> DEFINE W == {s \in SUBSET S : Sum(f, s) # 0}
<1>0. Whole(f, S)
  BY DEF Whole
<1> SUFFICES ASSUME W # {} PROVE FALSE
  OBVIOUS
<1>1. PICK s \in W : \A u \in SUBSET s : u # s => u \notin W
  <2>1. W \in SUBSET (SUBSET S) /\ W # {} /\ IsFiniteSet(S)
    OBVIOUS
  <2> HIDE DEF W
  <2> QED
    BY <2>1, SmallestSet
<1>2. PICK a \in s : TRUE
  BY SumOfEmpty
<1>3. Sum(f, s \ {a}) = 0 /\ f[a] = 0
  BY <1>1
<1> QED
  BY <1>0, <1>3, SumRemove

-------------------------------------------------------------------------------
(***************************************************************************)
(* Deadlock detection: detect                                              *)
(***************************************************************************)
Table == [Detect!Proc -> [Detect!Res -> Nat]]

\* What each process holds of resource r.
Holding(r) == [p \in Detect!Proc |-> allocation[p][r]]

\* The work vector is what there was and what the finished processes held; none
\* of them is in a deadlock, and a pass that finished nobody so far has found
\* nobody it could.
DetectInv ==
  /\ allocation \in Table /\ request \in Table /\ available \in [Detect!Res -> Nat]
  /\ finished \subseteq Detect!Proc /\ Detect!Proc \ finished \subseteq Detect!Holders
  /\ at \in 0 .. n /\ progress \in BOOLEAN /\ verdict \in BOOLEAN
  /\ work = [r \in Detect!Res |-> available[r] + Sum(Holding(r), finished)]
  /\ \A D \in SUBSET Detect!Holders : Detect!IsDeadlocked(D) => D \cap finished = {}
  /\ \A p \in Detect!Proc \ finished :
       (verdict \/ (~progress /\ p < at)) => ~Detect!Fits(p)

LEMMA HoldingCounts ==
  ASSUME n \in Nat, allocation \in Table, NEW r \in Detect!Res, NEW S \in SUBSET Detect!Proc
  PROVE  /\ Counts(Holding(r), S) /\ Whole(Holding(r), S)
         /\ Sum(Holding(r), S) \in Nat
         /\ \A T \in SUBSET S : Sum(Holding(r), T) <= Sum(Holding(r), S)
<1>1. IsFiniteSet(S)
  <2>1. IsFiniteSet(0 .. n - 1)
    BY FS_Interval
  <2> QED
    BY <2>1, FS_Subset DEF Detect!Proc
<1>2. Counts(Holding(r), S) /\ Whole(Holding(r), S)
  BY <1>1 DEF Counts, Whole, Holding, Table
<1> QED
  BY <1>2, SumIsCount, SumGrows

LEMMA HeldIsSum ==
  ASSUME NEW S, NEW r \in Detect!Res
  PROVE  Detect!HeldBy(S)[r] = Sum(Holding(r), S)
BY DEF Detect!HeldBy, Sum, Holding, FoldFunctionOnSet, MapThenFoldSet,
       Detect!FoldFunctionOnSet, Detect!MapThenFoldSet

\* Whether a set is deadlocked depends on the arguments alone.
LEMMA DeadlockedStays ==
  ASSUME allocation' = allocation, request' = request, available' = available
  PROVE  \A D : Detect!IsDeadlocked(D)' <=> Detect!IsDeadlocked(D)
BY DEF Detect!IsDeadlocked, Detect!HeldBy, Detect!FoldFunctionOnSet, Detect!MapThenFoldSet

LEMMA DetectInit ==
  ASSUME ToolsAssumption, Detect!Init
  PROVE  DetectInv
<1>1. n \in Nat /\ MaxUnits \in Nat
  BY DEF ToolsAssumption
<1>2. /\ allocation \in Table /\ request \in Table /\ available \in [Detect!Res -> Nat]
  <2>1. \A f \in Detect!Vector : f \in [Detect!Res -> Nat]
    BY <1>1 DEF Detect!Vector
  <2> HIDE DEF Detect!Vector
  <2> QED
    BY <2>1 DEF Detect!Init, Table
<1>3. finished \subseteq Detect!Proc /\ Detect!Proc \ finished \subseteq Detect!Holders
  BY DEF Detect!Init, Detect!Holders
<1>4. at \in 0 .. n /\ progress = FALSE /\ verdict = FALSE /\ at = 0
  BY <1>1 DEF Detect!Init
<1>5. work = [r \in Detect!Res |-> available[r] + Sum(Holding(r), finished)]
  <2>1. \A r \in Detect!Res : Sum(Holding(r), finished) = 0
    <3> TAKE r \in Detect!Res
    <3>1. IsFiniteSet(finished) /\ \A p \in finished : Holding(r)[p] = 0
      <4>1. IsFiniteSet(Detect!Proc)
        BY <1>1, FS_Interval DEF Detect!Proc
      <4> QED
        BY <1>3, <4>1, FS_Subset DEF Detect!Init, Holding
    <3> QED
      BY <3>1, SumOfZeros
  <2>2. \A r \in Detect!Res : available[r] + Sum(Holding(r), finished) = available[r]
    BY <1>2, <2>1
  <2>3. work = available
    BY DEF Detect!Init
  <2> QED
    BY <1>2, <2>2, <2>3
<1>6. \A D \in SUBSET Detect!Holders : D \cap finished = {}
  BY <1>2 DEF Detect!Init, Detect!Holders, Table
<1>7. \A p \in Detect!Proc : ~(p < at)
  BY <1>1, <1>4 DEF Detect!Proc
<1> QED
  BY <1>2, <1>3, <1>4, <1>5, <1>6, <1>7 DEF DetectInv

LEMMA DetectFinish ==
  ASSUME ToolsAssumption, DetectInv, Detect!Finish
  PROVE  DetectInv'
<1>0. n \in Nat /\ at \in Detect!Proc /\ at \in Detect!Proc \ finished /\ at \in Int
  BY DEF ToolsAssumption, DetectInv, Detect!Finish, Detect!Proc
<1>1. /\ allocation' = allocation /\ request' = request /\ available' = available
      /\ finished' = finished \cup {at} /\ progress' = TRUE /\ at' = at + 1
      /\ verdict' = verdict /\ ~verdict /\ at < n
      /\ work' = [r \in Detect!Res |-> work[r] + allocation[at][r]]
  BY DEF Detect!Finish, Detect!input, Detect!Plus
<1>2. /\ allocation \in Table /\ request \in Table /\ available \in [Detect!Res -> Nat]
      /\ finished \in SUBSET Detect!Proc /\ at \in 0 .. n
  BY DEF DetectInv
<1>3. \A r : Holding(r)' = Holding(r)
  BY <1>1 DEF Holding
<1>4. work' = [r \in Detect!Res |-> available[r] + Sum(Holding(r), finished')]
  <2>1. ASSUME NEW r \in Detect!Res
        PROVE  work[r] + allocation[at][r] = available[r] + Sum(Holding(r), finished')
    <3>1. work[r] = available[r] + Sum(Holding(r), finished)
      BY DEF DetectInv
    <3>2. Sum(Holding(r), finished') = allocation[at][r] + Sum(Holding(r), finished)
      <4>1. finished' \in SUBSET Detect!Proc /\ at \in finished'
            /\ finished' \ {at} = finished
        BY <1>0, <1>1, <1>2
      <4>2. Whole(Holding(r), finished')
        BY <1>0, <1>2, <4>1, HoldingCounts
      <4>3. Sum(Holding(r), finished') = Holding(r)[at] + Sum(Holding(r), finished' \ {at})
        <5>1. at \in finished'
          BY <4>1
        <5> QED
          BY ONLY <4>2, <5>1, SumTake
      <4> QED
        BY <1>0, <4>1, <4>3 DEF Holding
    <3>3. /\ available[r] \in Nat /\ allocation[at][r] \in Nat
          /\ Sum(Holding(r), finished) \in Nat
      BY <1>0, <1>2, HoldingCounts DEF Table
    <3> QED
      BY ONLY <3>1, <3>2, <3>3
  <2> QED
    BY <1>1, <2>1
<1>5. ASSUME NEW D \in SUBSET Detect!Holders, Detect!IsDeadlocked(D)
      PROVE  D \cap finished' = {}
  <2>1. D \cap finished = {}
    BY <1>5 DEF DetectInv
  <2>2. ASSUME at \in D
        PROVE  FALSE
    <3>1. PICK r \in Detect!Res :
                 request[at][r] > available[r] + Detect!HeldBy(Detect!Proc \ D)[r]
      BY <1>5, <2>2 DEF Detect!IsDeadlocked
    <3>2. request[at][r] <= work[r] /\ work[r] = available[r] + Sum(Holding(r), finished)
      BY DEF Detect!Finish, Detect!Fits, DetectInv
    <3>3. finished \in SUBSET (Detect!Proc \ D)
      BY <1>2, <2>1
    <3>4. /\ Sum(Holding(r), finished) <= Sum(Holding(r), Detect!Proc \ D)
          /\ Sum(Holding(r), finished) \in Nat /\ Sum(Holding(r), Detect!Proc \ D) \in Nat
      BY <1>0, <1>2, <3>3, HoldingCounts
    <3>5. available[r] \in Nat /\ request[at][r] \in Nat
      BY <1>0, <1>2 DEF Table
    <3> QED
      BY <3>1, <3>2, <3>4, <3>5, HeldIsSum
  <2> QED
    BY <1>1, <2>1, <2>2
<1>6. \A D : Detect!IsDeadlocked(D)' <=> Detect!IsDeadlocked(D)
  BY <1>1, DeadlockedStays
<1>7. Detect!Holders' = Detect!Holders
  BY <1>1 DEF Detect!Holders
<1>8. finished' \subseteq Detect!Proc /\ Detect!Proc \ finished' \subseteq Detect!Holders
  BY <1>0, <1>1 DEF DetectInv
<1>9. at' \in 0 .. n
  BY <1>0, <1>1, <1>2
<1> QED
  BY <1>1, <1>2, <1>3, <1>4, <1>5, <1>6, <1>7, <1>8, <1>9 DEF DetectInv

LEMMA DetectLoops ==
  ASSUME ToolsAssumption, DetectInv, Detect!PassOver \/ Detect!EndPass
  PROVE  DetectInv'
<1>0. n \in Nat
  BY DEF ToolsAssumption
<1>1. /\ allocation' = allocation /\ request' = request /\ available' = available
      /\ finished' = finished /\ work' = work
  BY DEF Detect!PassOver, Detect!EndPass, Detect!input
<1>2. /\ \A r : Holding(r)' = Holding(r)
      /\ Detect!Holders' = Detect!Holders
      /\ \A p : Detect!Fits(p)' <=> Detect!Fits(p)
      /\ \A D : Detect!IsDeadlocked(D)' <=> Detect!IsDeadlocked(D)
  BY <1>1, DeadlockedStays DEF Holding, Detect!Holders, Detect!Fits
<1>3. at' \in 0 .. n /\ progress' \in BOOLEAN /\ verdict' \in BOOLEAN
  <2>1. at \in 0 .. n /\ progress \in BOOLEAN /\ verdict \in BOOLEAN
    BY DEF DetectInv
  <2>2. CASE Detect!PassOver
    BY <1>0, <2>1, <2>2 DEF Detect!PassOver
  <2>3. CASE Detect!EndPass
    <3>1. at' \in {0, at} /\ progress' = FALSE /\ verdict' \in BOOLEAN
      BY <2>1, <2>3 DEF Detect!EndPass
    <3>2. at' \in 0 .. n
      BY <1>0, <2>1, <3>1
    <3> QED
      BY <3>1, <3>2
  <2> QED
    BY <2>2, <2>3
<1>4. ASSUME NEW p \in Detect!Proc \ finished, verdict' \/ (~progress' /\ p < at')
      PROVE  ~Detect!Fits(p)
  <2>0. p \in 0 .. n - 1 /\ at \in 0 .. n
    BY DEF Detect!Proc, DetectInv
  <2>1. (verdict \/ (~progress /\ p < at)) => ~Detect!Fits(p)
    BY DEF DetectInv
  <2>2. CASE Detect!PassOver
    <3>1. CASE p = at
      BY <2>2, <3>1 DEF Detect!PassOver
    <3>2. CASE p # at
      BY <1>4, <2>0, <2>1, <2>2, <3>2 DEF Detect!PassOver
    <3> QED
      BY <3>1, <3>2
  <2>3. CASE Detect!EndPass
    BY <1>0, <1>4, <2>0, <2>1, <2>3 DEF Detect!EndPass, DetectInv
  <2> QED
    BY <2>2, <2>3
<1> QED
  BY <1>1, <1>2, <1>3, <1>4 DEF DetectInv

LEMMA DetectVerdict ==
  ASSUME ToolsAssumption, DetectInv
  PROVE  Detect!ReportsExactlyDeadlocked
<1> SUFFICES ASSUME verdict
             PROVE  /\ Detect!Proc \ finished = Detect!Deadlocked
                    /\ work = Detect!Plus(available, Detect!HeldBy(Detect!Proc \ Detect!Deadlocked))
  BY DEF Detect!ReportsExactlyDeadlocked
<1> DEFINE rest == Detect!Proc \ finished
<1>0. finished \subseteq Detect!Proc /\ rest \in SUBSET Detect!Holders
      /\ Detect!Proc \ rest = finished /\ n \in Nat
  BY DEF DetectInv, ToolsAssumption
<1>1. Detect!IsDeadlocked(rest)
  <2> SUFFICES ASSUME NEW p \in rest
               PROVE  \E r \in Detect!Res : request[p][r] > available[r]
                                                + Detect!HeldBy(Detect!Proc \ rest)[r]
    BY DEF Detect!IsDeadlocked
  <2>1. PICK r \in Detect!Res : ~(request[p][r] <= work[r])
    BY DEF DetectInv, Detect!Fits
  <2>2. work[r] = available[r] + Sum(Holding(r), finished)
    BY DEF DetectInv
  <2>3. /\ available[r] \in Nat /\ request[p][r] \in Nat
        /\ Sum(Holding(r), finished) \in Nat
    BY <1>0, HoldingCounts DEF DetectInv, Table
  <2>4. Detect!HeldBy(Detect!Proc \ rest)[r] = Sum(Holding(r), finished)
    BY <1>0, HeldIsSum
  <2> QED
    BY <2>1, <2>2, <2>3, <2>4
<1>2. rest \subseteq Detect!Deadlocked
  BY <1>0, <1>1 DEF Detect!Deadlocked
<1>3. Detect!Deadlocked \subseteq rest
  <2>1. \A D \in SUBSET Detect!Holders : Detect!IsDeadlocked(D) => D \cap finished = {}
    BY DEF DetectInv
  <2>2. Detect!Holders \subseteq Detect!Proc
    BY DEF Detect!Holders
  <2> QED
    BY <2>1, <2>2 DEF Detect!Deadlocked
<1>4. Detect!Proc \ Detect!Deadlocked = finished
  BY <1>0, <1>2, <1>3
<1>5. work = Detect!Plus(available, Detect!HeldBy(finished))
  BY HeldIsSum DEF DetectInv, Detect!Plus
<1> QED
  BY <1>2, <1>3, <1>4, <1>5

-------------------------------------------------------------------------------
(***************************************************************************)
(* The search in the wait-for graph: graph                                 *)
(***************************************************************************)
Adj == Graph!adj_matrix
Top == Len(trace)

GraphTyped ==
  /\ owner \in [Graph!Rsrc -> Graph!Task \cup {NUM_TASKS}]
  /\ pending \in [Graph!Task -> SUBSET Graph!Rsrc]
  /\ visited \in [Graph!Task -> 0 .. 2]
  /\ trace \in Seq(Graph!Task) /\ cursor \in Seq(Nat) /\ Len(cursor) = Top
  /\ root \in 0 .. NUM_TASKS

\* The grey tasks are those on the trace, which is a path in the graph and has
\* each of them once.
TraceIsPath ==
  /\ \A k \in 1 .. Top : visited[trace[k]] = 1
  /\ \A t \in Graph!Task : visited[t] = 1 => \E k \in 1 .. Top : trace[k] = t
  /\ \A j, k \in 1 .. Top : trace[j] = trace[k] => j = k
  /\ \A k \in 1 .. Top - 1 : trace[k + 1] \in Adj[trace[k]]

\* What an activation has behind it is black, but for the task it has called
\* itself for.
BehindIsBlack ==
  \A k \in 1 .. Top : \A v \in Adj[trace[k]] :
    v < cursor[k] => visited[v] = 2 \/ (k < Top /\ v = trace[k + 1])

\* From a black task only black ones can be reached, and there is no cycle among
\* them; the components before root have been looked at.
BlackIsDone ==
  /\ \A t \in Graph!Task : visited[t] = 2 => \A v \in Adj[t] : visited[v] = 2
  /\ \A D \in SUBSET {t \in Graph!Task : visited[t] = 2} :
       D # {} => \E t \in D : Adj[t] \cap D = {}
  /\ \A t \in Graph!Task : t < root => visited[t] # 0

GraphInv ==
  /\ GraphTyped /\ TraceIsPath /\ BehindIsBlack /\ BlackIsDone
  /\ Graph!Found => Graph!LoopIsCycle /\ Graph!CircularWait

LEMMA AdjIsWaiting ==
  ASSUME NUM_TASKS \in Nat, GraphTyped, NEW t \in Graph!Task
  PROVE  /\ Adj[t] \subseteq Graph!Task /\ Adj[t] \subseteq Nat
         /\ \A v : v \in Adj[t] <=> v # NUM_TASKS /\ \E r \in pending[t] : owner[r] = v
<1>1. Adj[t] = {owner[r] : r \in pending[t]} \ {NUM_TASKS}
  BY DEF Adj, Graph!adj_matrix, Graph!NoTask
<1>2. pending[t] \subseteq Graph!Rsrc
  BY DEF GraphTyped
<1>3. \A r \in Graph!Rsrc : owner[r] \in Graph!Task \cup {NUM_TASKS}
  BY DEF GraphTyped
<1>4. Graph!Task \subseteq Nat
  BY DEF Graph!Task
<1> QED
  BY <1>1, <1>2, <1>3, <1>4

LEMMA AdjStays ==
  ASSUME owner' = owner, pending' = pending
  PROVE  Adj' = Adj
BY DEF Adj, Graph!adj_matrix, Graph!NoTask

\* The edge that the innermost activation looks at next.
LEMMA NextEdge ==
  ASSUME NUM_TASKS \in Nat, GraphTyped, trace # <<>>, Graph!Remaining # {}
  PROVE  /\ Top \in Nat \ {0} /\ trace[Top] \in Graph!Task /\ cursor[Top] \in Nat
         /\ Graph!Min(Graph!Remaining) \in Adj[trace[Top]]
         /\ Graph!Min(Graph!Remaining) \in Graph!Task
         /\ Graph!Min(Graph!Remaining) \in Nat
         /\ \A v \in Adj[trace[Top]] :
              v < Graph!Min(Graph!Remaining) => v < cursor[Top]
<1>1. Top \in Nat \ {0} /\ trace[Top] \in Graph!Task /\ cursor[Top] \in Nat
  <2>1. Top \in Nat /\ Top # 0
    BY EmptySeq, LenProperties DEF GraphTyped, Top
  <2>2. Top \in 1 .. Len(trace) /\ Top \in 1 .. Len(cursor)
    BY <2>1 DEF GraphTyped, Top
  <2> QED
    BY <2>1, <2>2, ElementOfSeq DEF GraphTyped
<1>2. Graph!Remaining = {v \in Adj[trace[Top]] : v >= cursor[Top]}
  BY <1>1 DEF Graph!Remaining, Graph!Last, Adj, GraphTyped, Top
<1>3. Adj[trace[Top]] \subseteq Graph!Task /\ Adj[trace[Top]] \subseteq Nat
  BY <1>1, AdjIsWaiting
<1>4. Graph!Remaining \in SUBSET Nat
  BY <1>2, <1>3
<1>5. /\ Graph!Min(Graph!Remaining) \in Graph!Remaining
      /\ \A v \in Graph!Remaining : Graph!Min(Graph!Remaining) <= v
  <2>1. PICK S : S = Graph!Remaining
    OBVIOUS
  <2>2. \E k \in S : \A j \in S : k <= j
    BY <1>4, <2>1, LeastNumber
  <2>3. Graph!Min(S) \in S /\ \A v \in S : Graph!Min(S) <= v
    BY <2>2 DEF Graph!Min
  <2> QED
    BY <2>1, <2>3
<1>6. \A v \in Adj[trace[Top]] : v < Graph!Min(Graph!Remaining) => v < cursor[Top]
  <2> TAKE v \in Adj[trace[Top]]
  <2> HAVE v < Graph!Min(Graph!Remaining)
  <2>1. v \in Nat /\ Graph!Min(Graph!Remaining) \in Nat
    BY <1>3, <1>4, <1>5
  <2>2. v \notin Graph!Remaining
    BY <1>5, <2>1
  <2> QED
    BY <1>1, <1>2, <2>1, <2>2
<1> QED
  BY <1>1, <1>2, <1>3, <1>5, <1>6

LEMMA GraphInit ==
  ASSUME NUM_TASKS \in Nat, Graph!Init
  PROVE  GraphInv
<1>1. GraphTyped
  <2>1. owner \in [Graph!Rsrc -> Graph!Task \cup {NUM_TASKS}]
    BY DEF Graph!Init, Graph!NoTask
  <2>2. pending \in [Graph!Task -> SUBSET Graph!Rsrc]
    BY DEF Graph!Init
  <2>3. trace \in Seq(Graph!Task) /\ cursor \in Seq(Nat) /\ Len(cursor) = Top
    BY DEF Graph!Init, Top
  <2>4. visited \in [Graph!Task -> 0 .. 2] /\ root \in 0 .. NUM_TASKS
    BY DEF Graph!Init
  <2> QED
    BY <2>1, <2>2, <2>3, <2>4 DEF GraphTyped
<1>2. trace = <<>> /\ Top = 0 /\ root = 0 /\ ~Graph!Found
  BY DEF Graph!Init, Top, Graph!Found
<1>3. \A t \in Graph!Task : visited[t] = 0 /\ ~(t < 0)
  BY DEF Graph!Init, Graph!Task
<1>4. TraceIsPath
  BY <1>2, <1>3 DEF TraceIsPath
<1>5. BehindIsBlack
  BY <1>2 DEF BehindIsBlack
<1>6. BlackIsDone
  BY <1>2, <1>3 DEF BlackIsDone
<1> QED
  BY <1>1, <1>2, <1>4, <1>5, <1>6 DEF GraphInv

\* The call for a white task: it becomes grey at the end of the trace.
LEMMA GraphEnter ==
  ASSUME NUM_TASKS \in Nat, GraphInv, NEW t \in Graph!Task, visited[t] = 0,
         Graph!Enter(t), owner' = owner, pending' = pending,
         deadlock_loop' = deadlock_loop, ~Graph!Found,
         Top > 0 => /\ t \in Adj[trace[Top]]
                    /\ \A v \in Adj[trace[Top]] : v < t => v < cursor[Top],
         cursor' \in Seq(Nat), Len(cursor') = Top + 1, cursor'[Top + 1] = 0,
         \A k \in 1 .. Top : cursor'[k] = IF k = Top THEN t + 1 ELSE cursor[k],
         root' \in 0 .. NUM_TASKS,
         root' = root \/ (root' = root + 1 /\ t = root)
  PROVE  GraphInv'
<1>1. /\ trace \in Seq(Graph!Task) /\ Top \in Nat /\ visited \in [Graph!Task -> 0 .. 2]
      /\ \A s \in Graph!Task : s \in Nat
  BY LenProperties DEF GraphInv, GraphTyped, Top, Graph!Task
<1>2. /\ visited' = [visited EXCEPT ![t] = 1] /\ visited' \in [Graph!Task -> 0 .. 2]
      /\ visited'[t] = 1 /\ \A s \in Graph!Task : s # t => visited'[s] = visited[s]
  BY <1>1 DEF Graph!Enter
<1>3. /\ trace' \in Seq(Graph!Task) /\ Top' = Top + 1 /\ trace'[Top + 1] = t
      /\ \A k \in 1 .. Top : trace'[k] = trace[k] /\ trace[k] \in Graph!Task
  BY <1>1, AppendProperties DEF Graph!Enter, Top
<1>4. Adj' = Adj
  BY AdjStays
<1>5. ~Graph!Found'
  BY DEF Graph!Found
<1>6. \A s \in Graph!Task : visited'[s] = 2 <=> visited[s] = 2
  BY <1>2
<1>7. \A k \in 1 .. Top : trace[k] # t
  BY DEF GraphInv, TraceIsPath
<1>8. \A k \in 1 .. Top + 1 : k \in 1 .. Top \/ k = Top + 1
  BY <1>1
<1>9. GraphTyped'
  BY <1>2, <1>3 DEF GraphInv, GraphTyped
<1>10. TraceIsPath'
  <2>1. ASSUME NEW k \in 1 .. Top'
        PROVE  visited'[trace'[k]] = 1
    <3>1. k \in 1 .. Top \/ k = Top + 1
      BY <1>3, <1>8
    <3>2. CASE k \in 1 .. Top
      <4>1. trace'[k] = trace[k] /\ trace[k] \in Graph!Task /\ trace[k] # t
        BY <1>3, <1>7, <3>2
      <4>2. visited[trace[k]] = 1
        BY <3>2 DEF GraphInv, TraceIsPath
      <4> QED
        BY <1>2, <4>1, <4>2
    <3> QED
      BY <1>2, <1>3, <3>1, <3>2
  <2>2. ASSUME NEW s \in Graph!Task, visited'[s] = 1
        PROVE  \E k \in 1 .. Top' : trace'[k] = s
    <3>1. CASE s = t
      <4>1. Top + 1 \in 1 .. Top' /\ trace'[Top + 1] = s
        BY <1>1, <1>3, <3>1
      <4> QED
        BY <4>1
    <3>2. CASE s # t
      <4>1. PICK k \in 1 .. Top : trace[k] = s
        BY <1>2, <2>2, <3>2 DEF GraphInv, TraceIsPath
      <4>2. k \in 1 .. Top'
        BY <1>1, <1>3
      <4> QED
        BY <1>3, <4>1, <4>2
    <3> QED
      BY <3>1, <3>2
  <2>3. \A j, k \in 1 .. Top' : trace'[j] = trace'[k] => j = k
    BY <1>3, <1>7, <1>8 DEF GraphInv, TraceIsPath
  <2>4. ASSUME NEW k \in 1 .. Top' - 1
        PROVE  trace'[k + 1] \in Adj'[trace'[k]]
    <3>1. k \in 1 .. Top /\ (k # Top => k \in 1 .. Top - 1 /\ k + 1 \in 1 .. Top)
      <4>1. k \in 1 .. Top /\ Top \in Nat
        BY <1>1, <1>3
      <4> QED
        BY ONLY <4>1
    <3>2. CASE k = Top
      BY <1>1, <1>3, <1>4, <3>1, <3>2
    <3>3. CASE k # Top
      <4>1. trace[k + 1] \in Adj[trace[k]]
        BY <3>1, <3>3 DEF GraphInv, TraceIsPath
      <4> QED
        BY <1>3, <1>4, <3>1, <3>3, <4>1
    <3> QED
      BY <3>2, <3>3
  <2> QED
    BY <2>1, <2>2, <2>3, <2>4 DEF TraceIsPath
<1>11. BehindIsBlack'
  <2>1. ASSUME NEW k \in 1 .. Top', NEW v \in Adj'[trace'[k]], v < cursor'[k]
        PROVE  visited'[v] = 2 \/ (k < Top' /\ v = trace'[k + 1])
    <3>1. CASE k = Top + 1
      <4>1. v \in Graph!Task
        BY <1>1, <1>3, <1>4, <3>1, AdjIsWaiting DEF GraphInv
      <4> QED
        BY <1>1, <2>1, <3>1, <4>1
    <3>2. CASE k \in 1 .. Top
      <4>1. v \in Adj[trace[k]] /\ v \in Graph!Task /\ v \in Nat
        BY <1>1, <1>3, <1>4, <3>2, AdjIsWaiting DEF GraphInv
      <4>2. v < cursor[k] => visited[v] = 2 \/ (k < Top /\ v = trace[k + 1])
        BY <3>2, <4>1 DEF GraphInv, BehindIsBlack
      <4>3. CASE k = Top
        <5>1. v < t + 1 /\ t \in Nat
          BY <1>1, <2>1, <3>2, <4>3
        <5>2. CASE v = t
          BY <1>1, <1>3, <4>3, <5>2
        <5>3. CASE v # t
          <6>1. v < cursor[k]
            BY <3>2, <4>1, <4>3, <5>1, <5>3
          <6> QED
            BY <1>6, <3>2, <4>1, <4>2, <4>3, <6>1
        <5> QED
          BY <5>2, <5>3
      <4>4. CASE k # Top
        <5>1. v < cursor[k] /\ k \in Int /\ k < Top
          BY <1>1, <2>1, <3>2, <4>4
        <5>2. visited[v] = 2 \/ v = trace[k + 1]
          BY <4>2, <5>1
        <5>3. k < Top' /\ trace'[k + 1] = trace[k + 1]
          BY <1>1, <1>3, <3>2, <5>1
        <5> QED
          BY <1>6, <4>1, <5>2, <5>3
      <4> QED
        BY <4>3, <4>4
    <3> QED
      BY <1>3, <1>8, <3>1, <3>2
  <2> QED
    BY <2>1 DEF BehindIsBlack
<1>12. BlackIsDone'
  <2>1. \A s \in Graph!Task : visited'[s] = 2 => \A v \in Adj'[s] : visited'[v] = 2
    <3>1. \A s \in Graph!Task : Adj[s] \subseteq Graph!Task
      BY AdjIsWaiting DEF GraphInv
    <3> QED
      BY <1>4, <1>6, <3>1 DEF GraphInv, BlackIsDone
  <2>2. {s \in Graph!Task : visited'[s] = 2} = {s \in Graph!Task : visited[s] = 2}
    BY <1>6
  <2>3. \A D \in SUBSET {s \in Graph!Task : visited'[s] = 2} :
          D # {} => \E s \in D : Adj'[s] \cap D = {}
    BY <1>4, <2>2 DEF GraphInv, BlackIsDone
  <2>4. ASSUME NEW s \in Graph!Task, s < root'
        PROVE  visited'[s] # 0
    <3>1. s < root \/ s = t
      BY <1>1, <2>4 DEF GraphInv, GraphTyped
    <3> QED
      BY <1>2, <3>1 DEF GraphInv, BlackIsDone
  <2> QED
    BY <2>1, <2>3, <2>4 DEF BlackIsDone
<1> QED
  BY <1>5, <1>9, <1>10, <1>11, <1>12 DEF GraphInv

LEMMA GraphNextRoot ==
  ASSUME NUM_TASKS \in Nat, GraphInv, Graph!NextRoot
  PROVE  GraphInv'
<1>1. /\ ~Graph!Found /\ trace = <<>> /\ Top = 0 /\ root < NUM_TASKS /\ root' = root + 1
      /\ owner' = owner /\ pending' = pending /\ deadlock_loop' = deadlock_loop
  BY DEF Graph!NextRoot, Graph!tables, Top
<1>2. root \in Graph!Task /\ root' \in 0 .. NUM_TASKS /\ root \in Nat
  BY <1>1 DEF GraphInv, GraphTyped, Graph!Task
<1>3. CASE visited[root] = 0
  <2>1. Graph!Enter(root) /\ cursor' = <<0>>
    BY <1>3 DEF Graph!NextRoot
  <2>2. cursor' \in Seq(Nat) /\ Len(cursor') = Top + 1 /\ cursor'[Top + 1] = 0
    BY <1>1, <2>1
  <2>3. \A k \in 1 .. Top : FALSE
    BY <1>1
  <2> QED
    BY <1>1, <1>2, <1>3, <2>1, <2>2, <2>3, GraphEnter
<1>4. CASE visited[root] # 0
  <2>1. visited' = visited /\ trace' = trace /\ cursor' = cursor /\ Top' = Top
    BY <1>4 DEF Graph!NextRoot, Top
  <2>2. Adj' = Adj /\ ~Graph!Found'
    BY <1>1, AdjStays DEF Graph!Found
  <2>3. GraphTyped' /\ TraceIsPath' /\ BehindIsBlack'
    BY <1>1, <1>2, <2>1, <2>2 DEF GraphInv, GraphTyped, TraceIsPath, BehindIsBlack
  <2>4. \A s \in Graph!Task : s < root' => visited'[s] # 0
    <3>1. \A s \in Graph!Task : s \in Nat
      BY DEF Graph!Task
    <3> QED
      BY <1>1, <1>2, <1>4, <2>1, <3>1 DEF GraphInv, BlackIsDone
  <2>5. BlackIsDone'
    BY <2>1, <2>2, <2>4 DEF GraphInv, BlackIsDone
  <2> QED
    BY <2>2, <2>3, <2>5 DEF GraphInv
<1> QED
  BY <1>3, <1>4

LEMMA AdvanceCursor ==
  ASSUME GraphTyped, Top \in Nat \ {0}, NEW v \in Nat
  PROVE  /\ Graph!Advance(v) \in Seq(Nat) /\ Len(Graph!Advance(v)) = Top
         /\ \A k \in 1 .. Top : Graph!Advance(v)[k] = IF k = Top THEN v + 1 ELSE cursor[k]
<1>1. Graph!Advance(v) = [cursor EXCEPT ![Top] = v + 1] /\ Top \in 1 .. Len(cursor)
      /\ cursor \in Seq(Nat) /\ v + 1 \in Nat
  BY DEF Graph!Advance, GraphTyped
<1>2. /\ Graph!Advance(v) \in Seq(Nat) /\ Len(Graph!Advance(v)) = Len(cursor)
      /\ \A k \in 1 .. Len(cursor) :
           Graph!Advance(v)[k] = IF k = Top THEN v + 1 ELSE cursor[k]
  BY <1>1, ExceptSeq
<1> QED
  BY <1>2 DEF GraphTyped

LEMMA GraphRecurse ==
  ASSUME NUM_TASKS \in Nat, GraphInv, Graph!Recurse
  PROVE  GraphInv'
<1> DEFINE v == Graph!Min(Graph!Remaining)
<1>1. /\ ~Graph!Found /\ trace # <<>> /\ Graph!Remaining # {} /\ visited[v] = 0
      /\ Graph!Enter(v) /\ cursor' = Append(Graph!Advance(v), 0) /\ root' = root
      /\ owner' = owner /\ pending' = pending /\ deadlock_loop' = deadlock_loop
  BY DEF Graph!Recurse, Graph!tables
<1>2. /\ Top \in Nat \ {0} /\ v \in Adj[trace[Top]] /\ v \in Graph!Task /\ v \in Nat
      /\ \A w \in Adj[trace[Top]] : w < v => w < cursor[Top]
  BY <1>1, NextEdge DEF GraphInv
<1> HIDE DEF v
<1>3. /\ cursor' \in Seq(Nat) /\ Len(cursor') = Top + 1 /\ cursor'[Top + 1] = 0
      /\ \A k \in 1 .. Top : cursor'[k] = IF k = Top THEN v + 1 ELSE cursor[k]
  <2>1. /\ Graph!Advance(v) \in Seq(Nat) /\ Len(Graph!Advance(v)) = Top
        /\ \A k \in 1 .. Top : Graph!Advance(v)[k] = IF k = Top THEN v + 1 ELSE cursor[k]
    BY <1>2, AdvanceCursor DEF GraphInv
  <2>2. PICK s : s = Graph!Advance(v)
    OBVIOUS
  <2>3. /\ s \in Seq(Nat) /\ Len(s) = Top /\ cursor' = Append(s, 0)
        /\ \A k \in 1 .. Top : s[k] = IF k = Top THEN v + 1 ELSE cursor[k]
    BY <1>1, <2>1, <2>2
  <2>4. /\ cursor' \in Seq(Nat) /\ Len(cursor') = Top + 1 /\ cursor'[Top + 1] = 0
        /\ \A k \in 1 .. Top : cursor'[k] = s[k]
    BY <1>2, <2>3, AppendProperties
  <2> QED
    BY <2>3, <2>4
<1>4. root' \in 0 .. NUM_TASKS
  BY <1>1 DEF GraphInv, GraphTyped
<1> QED
  BY <1>1, <1>2, <1>3, <1>4, GraphEnter

LEMMA GraphSkip ==
  ASSUME NUM_TASKS \in Nat, GraphInv, Graph!Skip
  PROVE  GraphInv'
<1> DEFINE v == Graph!Min(Graph!Remaining)
<1>1. /\ ~Graph!Found /\ trace # <<>> /\ Graph!Remaining # {} /\ visited[v] = 2
      /\ cursor' = Graph!Advance(v) /\ root' = root /\ visited' = visited
      /\ trace' = trace /\ Top' = Top
      /\ owner' = owner /\ pending' = pending /\ deadlock_loop' = deadlock_loop
  BY DEF Graph!Skip, Graph!tables, Top
<1>2. /\ Top \in Nat \ {0} /\ v \in Adj[trace[Top]] /\ v \in Nat
      /\ trace[Top] \in Graph!Task
      /\ \A w \in Adj[trace[Top]] : w < v => w < cursor[Top]
  BY <1>1, NextEdge DEF GraphInv
<1> HIDE DEF v
<1>3. /\ cursor' \in Seq(Nat) /\ Len(cursor') = Top
      /\ \A k \in 1 .. Top : cursor'[k] = IF k = Top THEN v + 1 ELSE cursor[k]
  BY <1>1, <1>2, AdvanceCursor DEF GraphInv
<1>4. Adj' = Adj /\ ~Graph!Found'
  BY <1>1, AdjStays DEF Graph!Found
<1>5. GraphTyped' /\ TraceIsPath' /\ BlackIsDone'
  BY <1>1, <1>3, <1>4 DEF GraphInv, GraphTyped, TraceIsPath, BlackIsDone
<1>6. ASSUME NEW k \in 1 .. Top, NEW w \in Adj[trace[k]], w < cursor'[k]
      PROVE  visited[w] = 2 \/ (k < Top /\ w = trace[k + 1])
  <2>1. w < cursor[k] => visited[w] = 2 \/ (k < Top /\ w = trace[k + 1])
    BY DEF GraphInv, BehindIsBlack
  <2>2. CASE k = Top
    <3>1. w \in Nat
      BY <1>2, <2>2, AdjIsWaiting DEF GraphInv
    <3>2. w = v \/ w < v
      BY <1>2, <1>3, <1>6, <2>2, <3>1
    <3> QED
      BY <1>1, <1>2, <2>1, <2>2, <3>2
  <2>3. CASE k # Top
    BY <1>3, <1>6, <2>1, <2>3
  <2> QED
    BY <2>2, <2>3
<1>7. BehindIsBlack'
  BY <1>1, <1>4, <1>6 DEF BehindIsBlack
<1> QED
  BY <1>4, <1>5, <1>7 DEF GraphInv

\* What a return leaves of the trace.
LEMMA WithoutLast ==
  ASSUME NEW S, NEW s \in Seq(S), s # <<>>
  PROVE  /\ SubSeq(s, 1, Len(s) - 1) \in Seq(S)
         /\ Len(SubSeq(s, 1, Len(s) - 1)) = Len(s) - 1
         /\ \A k \in 1 .. Len(s) - 1 : SubSeq(s, 1, Len(s) - 1)[k] = s[k]
<1>1. Len(s) \in Nat \ {0}
  BY EmptySeq, LenProperties
<1>2. \A k \in 1 .. Len(s) - 1 : s[k] \in S
  <2>1. \A k \in 1 .. Len(s) - 1 : k \in 1 .. Len(s)
    BY <1>1
  <2> QED
    BY <2>1, ElementOfSeq
<1>3. PICK n1 \in Nat : n1 = Len(s) - 1
  BY <1>1
<1>4. /\ SubSeq(s, 1, n1) \in Seq(S)
      /\ Len(SubSeq(s, 1, n1)) = IF 1 <= n1 THEN n1 - 1 + 1 ELSE 0
      /\ \A k \in 1 .. n1 - 1 + 1 : SubSeq(s, 1, n1)[k] = s[1 + k - 1]
  BY <1>2, <1>3, SubSeqProperties
<1>5. /\ n1 - 1 + 1 = n1 /\ \A k \in 1 .. n1 : 1 + k - 1 = k
      /\ (IF 1 <= n1 THEN n1 - 1 + 1 ELSE 0) = n1
  OBVIOUS
<1> QED
  BY <1>3, <1>4, <1>5

LEMMA GraphReturn ==
  ASSUME NUM_TASKS \in Nat, GraphInv, Graph!Return
  PROVE  GraphInv'
<1> DEFINE t == trace[Top]
<1>1. /\ ~Graph!Found /\ trace # <<>> /\ Graph!Remaining = {}
      /\ visited' = [visited EXCEPT ![t] = 2]
      /\ trace' = SubSeq(trace, 1, Top - 1) /\ cursor' = SubSeq(cursor, 1, Top - 1)
      /\ root' = root
      /\ owner' = owner /\ pending' = pending /\ deadlock_loop' = deadlock_loop
  BY DEF Graph!Return, Graph!tables, Graph!Last, Graph!Front, Top, GraphInv, GraphTyped
<1>2. /\ trace \in Seq(Graph!Task) /\ cursor \in Seq(Nat) /\ Len(cursor) = Top
      /\ Top \in Nat \ {0} /\ visited \in [Graph!Task -> 0 .. 2] /\ t \in Graph!Task
      /\ cursor[Top] \in Nat
  <2>1. trace \in Seq(Graph!Task) /\ cursor \in Seq(Nat) /\ Len(cursor) = Top
        /\ visited \in [Graph!Task -> 0 .. 2]
    BY DEF GraphInv, GraphTyped
  <2>2. Top \in Nat /\ Top # 0
    BY <1>1, <2>1, EmptySeq, LenProperties DEF Top
  <2>3. Top \in 1 .. Len(trace) /\ Top \in 1 .. Len(cursor)
    BY <2>1, <2>2 DEF Top
  <2> QED
    BY <2>1, <2>2, <2>3, ElementOfSeq
<1>3. /\ trace' \in Seq(Graph!Task) /\ cursor' \in Seq(Nat)
      /\ Top' = Top - 1 /\ Len(cursor') = Top - 1
      /\ \A k \in 1 .. Top - 1 : trace'[k] = trace[k] /\ cursor'[k] = cursor[k]
  <2>1. trace # <<>> /\ cursor # <<>>
    BY <1>2 DEF Top
  <2> QED
    BY <1>1, <1>2, <2>1, WithoutLast DEF Top
<1> HIDE DEF t
<1>4. /\ visited' \in [Graph!Task -> 0 .. 2] /\ visited'[t] = 2
      /\ \A s \in Graph!Task : s # t => visited'[s] = visited[s]
  BY <1>1, <1>2
<1>5. Adj' = Adj /\ ~Graph!Found'
  BY <1>1, AdjStays DEF Graph!Found
<1>6. \A k \in 1 .. Top - 1 : k \in 1 .. Top /\ trace[k] # t /\ trace[k] \in Graph!Task
  <2> TAKE k \in 1 .. Top - 1
  <2>1. k \in 1 .. Top /\ Top \in 1 .. Top /\ k # Top
    BY <1>2
  <2> QED
    BY <1>2, <2>1, ElementOfSeq DEF GraphInv, TraceIsPath, t, Top
<1>7. visited[t] = 1
  BY <1>2 DEF GraphInv, TraceIsPath, t
<1>8. \A v \in Adj[t] : visited[v] = 2 /\ v # t /\ v \in Graph!Task
  <2> TAKE v \in Adj[t]
  <2>1. v \in Nat /\ v \in Graph!Task
    BY <1>2, AdjIsWaiting DEF GraphInv
  <2>2. Graph!Remaining = {w \in Adj[t] : w >= cursor[Top]}
    BY <1>2 DEF Graph!Remaining, Graph!Last, Adj, Top, t
  <2>3. v < cursor[Top]
    BY <1>1, <1>2, <2>1, <2>2
  <2>4. visited[v] = 2
    BY <1>2, <2>3 DEF GraphInv, BehindIsBlack, t
  <2> QED
    BY <1>7, <2>1, <2>4
<1>9. GraphTyped'
  BY <1>1, <1>3, <1>4 DEF GraphInv, GraphTyped
<1>10. TraceIsPath'
  <2>1. \A k \in 1 .. Top' : visited'[trace'[k]] = 1
    <3>1. \A k \in 1 .. Top - 1 : visited[trace[k]] = 1
      BY <1>6 DEF GraphInv, TraceIsPath
    <3> QED
      BY <1>3, <1>4, <1>6, <3>1
  <2>2. ASSUME NEW s \in Graph!Task, visited'[s] = 1
        PROVE  \E k \in 1 .. Top' : trace'[k] = s
    <3>1. s # t /\ visited[s] = 1
      BY <1>4, <2>2
    <3>2. PICK k \in 1 .. Top : trace[k] = s
      BY <3>1 DEF GraphInv, TraceIsPath
    <3>3. k \in 1 .. Top - 1
      BY <1>2, <3>1, <3>2 DEF t
    <3> QED
      BY <1>3, <3>2, <3>3
  <2>3. \A j, k \in 1 .. Top' : trace'[j] = trace'[k] => j = k
    BY <1>3, <1>6 DEF GraphInv, TraceIsPath
  <2>4. ASSUME NEW k \in 1 .. Top' - 1
        PROVE  trace'[k + 1] \in Adj'[trace'[k]]
    <3>1. k \in 1 .. Top - 1 /\ k + 1 \in 1 .. Top - 1
      BY <1>2, <1>3
    <3>2. trace[k + 1] \in Adj[trace[k]]
      BY <3>1 DEF GraphInv, TraceIsPath
    <3> QED
      BY <1>3, <1>5, <3>1, <3>2
  <2> QED
    BY <2>1, <2>2, <2>3, <2>4 DEF TraceIsPath
<1>11. BehindIsBlack'
  <2>1. ASSUME NEW k \in 1 .. Top - 1, NEW v \in Adj[trace[k]], v < cursor[k]
        PROVE  visited'[v] = 2 \/ (k < Top - 1 /\ v = trace[k + 1])
    <3>1. v \in Graph!Task
      BY <1>6, AdjIsWaiting DEF GraphInv
    <3>2. visited[v] = 2 \/ v = trace[k + 1]
      BY <1>6, <2>1 DEF GraphInv, BehindIsBlack
    <3>3. CASE visited[v] = 2
      BY <1>4, <3>1, <3>3
    <3>4. CASE v = trace[k + 1] /\ k = Top - 1
      <4>1. v = t
        BY <1>2, <3>4 DEF t
      <4> QED
        BY <1>4, <4>1
    <3>5. CASE v = trace[k + 1] /\ k # Top - 1
      BY <1>2, <3>5
    <3> QED
      BY <3>2, <3>3, <3>4, <3>5
  <2>2. \A k \in 1 .. Top - 1 : (k < Top - 1) => trace'[k + 1] = trace[k + 1]
    <3> TAKE k \in 1 .. Top - 1
    <3> HAVE k < Top - 1
    <3>1. k + 1 \in 1 .. Top - 1
      BY <1>2
    <3> QED
      BY <1>3, <3>1
  <2> QED
    BY <1>3, <1>5, <2>1, <2>2 DEF BehindIsBlack
<1>12. BlackIsDone'
  <2>0. \A s \in Graph!Task : Adj[s] \subseteq Graph!Task
    BY AdjIsWaiting DEF GraphInv
  <2>1. ASSUME NEW s \in Graph!Task, visited'[s] = 2, NEW v \in Adj[s]
        PROVE  visited'[v] = 2
    <3>1. v \in Graph!Task
      BY <2>0
    <3>2. visited[v] = 2
      BY <1>4, <1>8, <2>1 DEF GraphInv, BlackIsDone
    <3> QED
      BY <1>4, <3>1, <3>2
  <2>2. ASSUME NEW D \in SUBSET {s \in Graph!Task : visited'[s] = 2}, D # {}
        PROVE  \E s \in D : Adj[s] \cap D = {}
    <3> DEFINE E == D \ {t}
    <3>1. \A s \in E : s \in Graph!Task /\ visited[s] = 2
      BY <1>4
    <3>2. CASE E = {}
      <4>1. D = {t}
        BY <2>2, <3>2
      <4> QED
        BY <1>8, <4>1
    <3>3. CASE E # {}
      <4>1. E \in SUBSET {s \in Graph!Task : visited[s] = 2}
        BY <3>1
      <4>2. PICK s \in E : Adj[s] \cap E = {}
        BY <3>3, <4>1 DEF GraphInv, BlackIsDone
      <4>3. t \notin Adj[s]
        BY <1>7, <3>1 DEF GraphInv, BlackIsDone
      <4> QED
        BY <4>2, <4>3
    <3> QED
      BY <3>2, <3>3
  <2>3. \A s \in Graph!Task : s < root' => visited'[s] # 0
    BY <1>1, <1>4 DEF GraphInv, BlackIsDone
  <2> QED
    BY <1>5, <2>1, <2>2, <2>3 DEF BlackIsDone
<1> QED
  BY <1>5, <1>9, <1>10, <1>11, <1>12 DEF GraphInv

\* A trace has no task twice, so it is not longer than there are tasks.
LEMMA TraceFits ==
  ASSUME NUM_TASKS \in Nat, GraphInv
  PROVE  Top <= NUM_TASKS
<1>1. trace \in Seq(Graph!Task) /\ Top \in Nat /\ trace \in [1 .. Top -> Graph!Task]
  BY LenProperties DEF GraphInv, GraphTyped, Top
<1>2. trace \in Injection(1 .. Top, Graph!Task)
  BY <1>1 DEF GraphInv, TraceIsPath, Injection, IsInjective
<1>3. IsFiniteSet(Graph!Task) /\ Cardinality(Graph!Task) = NUM_TASKS
  BY FS_Interval DEF Graph!Task
<1>4. Cardinality(1 .. Top) = Top
  BY <1>1, FS_Interval
<1>5. Cardinality(1 .. Top) <= Cardinality(Graph!Task)
  <2>1. PICK f : f = trace
    OBVIOUS
  <2>2. PICK k : k = Top
    OBVIOUS
  <2>3. f \in Injection(1 .. k, Graph!Task)
    BY <1>2, <2>1, <2>2
  <2>4. Cardinality(1 .. k) <= Cardinality(Graph!Task)
    BY <1>3, <2>3, FS_Injection
  <2> QED
    BY <2>2, <2>4
<1> QED
  BY <1>3, <1>4, <1>5

LEMMA GraphReport ==
  ASSUME NUM_TASKS \in Nat, GraphInv, Graph!Report
  PROVE  GraphInv'
<1> DEFINE v == Graph!Min(Graph!Remaining)
           At == {k \in DOMAIN trace : trace[k] = v}
           start == Graph!Min(At)
<1>1. /\ ~Graph!Found /\ trace # <<>> /\ Graph!Remaining # {} /\ visited[v] = 1
      /\ deadlock_loop' = Append(SubSeq(trace, start, Len(trace)), v)
      /\ owner' = owner /\ pending' = pending /\ visited' = visited
      /\ trace' = trace /\ Top' = Top /\ cursor' = cursor /\ root' = root
  BY DEF Graph!Report, Graph!tables, Top
<1>2. /\ Top \in Nat \ {0} /\ v \in Adj[trace[Top]] /\ v \in Graph!Task
      /\ trace[Top] \in Graph!Task
  BY <1>1, NextEdge DEF GraphInv
<1>3. trace \in Seq(Graph!Task) /\ Len(trace) = Top /\ DOMAIN trace = 1 .. Top
  BY LenProperties DEF GraphInv, GraphTyped, Top
<1> HIDE DEF v
<1>4. start \in 1 .. Top /\ trace[start] = v
  <2>1. At # {} /\ At \in SUBSET Nat
    <3>1. \E k \in 1 .. Top : trace[k] = v
      BY <1>1, <1>2 DEF GraphInv, TraceIsPath
    <3> QED
      BY <1>3, <3>1
  <2>2. PICK S : S = At
    OBVIOUS
  <2>3. \E k \in S : \A j \in S : k <= j
    BY <2>1, <2>2, LeastNumber
  <2>4. Graph!Min(S) \in S
    BY <2>3 DEF Graph!Min
  <2>5. start \in At
    BY <2>2, <2>4
  <2> QED
    BY <1>3, <2>5
<1> HIDE DEF start
<1> DEFINE loop == deadlock_loop'
           size == Top - start + 1
<1>5. /\ loop \in Seq(Graph!Task) /\ size \in 1 .. Top /\ Len(loop) = size + 1
      /\ loop[size + 1] = v
      /\ \A k \in 1 .. size : loop[k] = trace[start + k - 1]
  <2>1. size \in 1 .. Top
    BY <1>2, <1>4
  <2>2. PICK s : s = SubSeq(trace, start, Top)
    OBVIOUS
  <2>3. start \in 1 .. Top + 1 /\ Top \in start - 1 .. Top
    BY <1>2, <1>4
  <2>4. /\ s \in Seq(Graph!Task) /\ Len(s) = size
        /\ \A k \in 1 .. size : s[k] = trace[start + k - 1]
    BY <1>2, <1>3, <1>4, <2>1, <2>2, <2>3, SubSeqProperties
  <2>5. loop = Append(s, v)
    BY <1>1, <1>3, <2>2
  <2> HIDE DEF loop
  <2> QED
    BY <1>2, <2>1, <2>4, <2>5, AppendProperties
<1>6. \A k \in 1 .. size : /\ start + k - 1 \in 1 .. Top
                           /\ k < size => /\ start + k - 1 \in 1 .. Top - 1
                                          /\ (start + k - 1) + 1 = start + (k + 1) - 1
                           /\ k = size => start + k - 1 = Top
  BY <1>2, <1>4, <1>5
<1>7. \A k \in 1 .. size : loop[k] \in Graph!Task /\ loop[k + 1] \in Adj[loop[k]]
  <2> TAKE k \in 1 .. size
  <2>1. loop[k] = trace[start + k - 1] /\ loop[k] \in Graph!Task
    <3>1. loop[k] = trace[start + k - 1]
      BY <1>5
    <3> QED
      BY <1>3, <1>6, <3>1, ElementOfSeq
  <2>2. CASE k = size
    BY <1>2, <1>5, <1>6, <2>1, <2>2
  <2>3. CASE k # size
    <3>1. k < size /\ k + 1 \in 1 .. size
      BY <1>5, <2>3
    <3>2. loop[k + 1] = trace[(start + k - 1) + 1]
      BY <1>5, <1>6, <3>1
    <3>3. trace[(start + k - 1) + 1] \in Adj[trace[start + k - 1]]
      BY <1>6, <3>1 DEF GraphInv, TraceIsPath
    <3> QED
      BY <2>1, <3>2, <3>3
  <2> QED
    BY <2>2, <2>3
<1>8. \A k \in 1 .. size : \E r \in pending[loop[k]] : owner[r] = loop[k + 1]
  <2> TAKE k \in 1 .. size
  <2>1. loop[k] \in Graph!Task /\ loop[k + 1] \in Adj[loop[k]]
    BY <1>7
  <2>2. PICK s : s = loop[k]
    OBVIOUS
  <2>3. s \in Graph!Task /\ loop[k + 1] \in Adj[s]
    BY <2>1, <2>2
  <2> QED
    BY <2>2, <2>3, AdjIsWaiting DEF GraphInv
<1>9. loop[1] = v /\ loop[size + 1] = v
  <2>1. 1 \in 1 .. size /\ start + 1 - 1 = start
    BY <1>4, <1>5
  <2>2. loop[1] = trace[start + 1 - 1]
    BY <1>5, <2>1
  <2> QED
    BY <1>4, <1>5, <2>1, <2>2
<1>10. Graph!LoopIsCycle'
  <2>1. Graph!Last(loop) = v
    BY <1>5, <1>9 DEF Graph!Last
  <2>2. Top <= NUM_TASKS
    BY TraceFits
  <2>3. size + 1 \in 2 .. NUM_TASKS + 1 /\ (size + 1) - 1 = size
    BY <1>2, <1>5, <2>2
  <2>4. owner' = owner /\ pending' = pending
    BY <1>1
  <2> HIDE DEF size
  <2> QED
    BY <1>5, <1>8, <1>9, <2>1, <2>3, <2>4 DEF Graph!LoopIsCycle
<1>11. Graph!CircularWait'
  <2> DEFINE D == {loop[k] : k \in 1 .. size}
  <2>1. D \in SUBSET Graph!Task /\ D # {}
    BY <1>5, <1>7
  <2>2. ASSUME NEW t \in D
        PROVE  \E r \in pending[t] : owner[r] \in D
    <3>1. PICK k \in 1 .. size : t = loop[k]
      OBVIOUS
    <3>2. loop[k + 1] \in D
      <4>1. CASE k = size
        <5>1. 1 \in 1 .. size
          BY <1>5
        <5> QED
          BY <1>9, <4>1, <5>1
      <4>2. CASE k # size
        <5>1. k + 1 \in 1 .. size
          BY <1>5, <4>2
        <5> QED
          BY <5>1
      <4> QED
        BY <4>1, <4>2
    <3>3. \E r \in pending[loop[k]] : owner[r] = loop[k + 1]
      BY <1>8
    <3> HIDE DEF D
    <3> QED
      BY <3>1, <3>2, <3>3
  <2>3. owner' = owner /\ pending' = pending
    BY <1>1
  <2> HIDE DEF D
  <2> QED
    BY <2>1, <2>2, <2>3 DEF Graph!CircularWait
<1>12. Adj' = Adj
  BY <1>1, AdjStays
<1>13. GraphTyped' /\ TraceIsPath' /\ BehindIsBlack' /\ BlackIsDone'
  <2>1. GraphTyped /\ TraceIsPath /\ BehindIsBlack /\ BlackIsDone
    BY DEF GraphInv
  <2>2. /\ owner' = owner /\ pending' = pending /\ visited' = visited
        /\ trace' = trace /\ Top' = Top /\ cursor' = cursor /\ root' = root
    BY <1>1
  <2>3. GraphTyped'
    BY <2>1, <2>2 DEF GraphTyped
  <2>4. TraceIsPath'
    BY <1>12, <2>1, <2>2 DEF TraceIsPath
  <2>5. BehindIsBlack'
    BY <1>12, <2>1, <2>2 DEF BehindIsBlack
  <2>6. BlackIsDone'
    BY <1>12, <2>1, <2>2 DEF BlackIsDone
  <2> QED
    BY <2>3, <2>4, <2>5, <2>6
<1> QED
  BY <1>10, <1>11, <1>13 DEF GraphInv

LEMMA GraphVerdict ==
  ASSUME NUM_TASKS \in Nat, GraphInv
  PROVE  Graph!VerdictCorrect
<1>1. ASSUME Graph!Done, ~Graph!Found, Graph!CircularWait
      PROVE  FALSE
  <2>1. trace = <<>> /\ root = NUM_TASKS /\ Top = 0
    BY <1>1 DEF Graph!Done, Top
  <2>2. \A t \in Graph!Task : visited[t] = 2
    <3> TAKE t \in Graph!Task
    <3>1. visited[t] \in 0 .. 2
      BY DEF GraphInv, GraphTyped
    <3>2. visited[t] # 0
      BY <2>1 DEF GraphInv, BlackIsDone, Graph!Task
    <3>3. visited[t] # 1
      BY <2>1 DEF GraphInv, TraceIsPath
    <3> QED
      BY <3>1, <3>2, <3>3
  <2>3. PICK D \in (SUBSET Graph!Task) \ {{}} :
               \A t \in D : \E r \in pending[t] : owner[r] \in D
    BY <1>1 DEF Graph!CircularWait
  <2>4. PICK t \in D : Adj[t] \cap D = {}
    BY <2>2, <2>3 DEF GraphInv, BlackIsDone
  <2>5. PICK r \in pending[t] : owner[r] \in D
    BY <2>3
  <2>6. t \in Graph!Task /\ owner[r] \in Graph!Task /\ owner[r] # NUM_TASKS
    <3>1. \A s \in Graph!Task : s # NUM_TASKS
      BY DEF Graph!Task
    <3> QED
      BY <2>3, <2>5, <3>1
  <2>7. owner[r] \in Adj[t]
    BY <2>5, <2>6, AdjIsWaiting DEF GraphInv
  <2> QED
    BY <2>4, <2>5, <2>7
<1> QED
  BY <1>1 DEF Graph!VerdictCorrect, GraphInv

-------------------------------------------------------------------------------
(***************************************************************************)
(* The safety algorithm of the banker                                      *)
(***************************************************************************)
N == NUM_PROCS
Tables == [Bank!Proc -> [Bank!Res -> Nat]]
Column(alloc, r) == [p \in Bank!Proc |-> alloc[p][r]]

LEMMA HeldByIsSum ==
  ASSUME NEW alloc, NEW S, NEW r \in Bank!Res
  PROVE  Bank!Held(alloc, S)[r] = Sum(Column(alloc, r), S)
BY DEF Bank!Held, Sum, Column, FoldFunctionOnSet, MapThenFoldSet,
       Bank!FoldFunctionOnSet, Bank!MapThenFoldSet

\* One step of a pass, and the passes as the folds compute them: it is the table
\* of the results for the sets of positions up to k.
Visit(alloc, t, p) ==
  IF p \notin Bank!ToSet(t.order) /\ Bank!CanExecute(alloc, p, t.work)
    THEN [work |-> Bank!Plus(t.work, alloc[p]), order |-> Append(t.order, p)]
    ELSE t

InOrder == [i \in 1 .. N |-> i - 1]

Folded(alloc, s, P, it) ==
  it = [u \in SUBSET P |->
          IF u = {} THEN s
          ELSE Visit(alloc, it[u \ {Bank!Max(u)}], InOrder[Bank!Max(u)])]

LEMMA PassUnfold ==
  ASSUME NEW alloc, NEW s
  PROVE  Bank!Pass(alloc, s) = (CHOOSE it : Folded(alloc, s, DOMAIN InOrder, it))[DOMAIN InOrder]
BY DEF Bank!Pass, Bank!FoldLeft, Bank!MapThenFoldSet, Folded, Visit, InOrder, N

\* Between passes.
Loops(alloc, avail, it) ==
  it = [k \in 0 .. N |-> IF k = 0 THEN [work |-> avail, order |-> <<>>]
                                  ELSE Bank!Pass(alloc, it[k - 1])]

LEMMA SafeOrderUnfold ==
  ASSUME NEW alloc, NEW avail
  PROVE  Bank!SafeOrder(alloc, avail) = (CHOOSE it : Loops(alloc, avail, it))[N].order
BY DEF Bank!SafeOrder, Loops, N

LEMMA MaxOfPositions ==
  ASSUME NEW k \in Nat \ {0}, NEW u \in SUBSET (1 .. k), k \in u
  PROVE  Bank!Max(u) = k
<1>1. \A j \in u : j <= k
  OBVIOUS
<1>2. \E x \in u : \A y \in u : x >= y
  BY <1>1
<1>3. Bank!Max(u) \in u /\ \A y \in u : Bank!Max(u) >= y
  BY <1>2 DEF Bank!Max
<1>4. Bank!Max(u) \in 1 .. k /\ Bank!Max(u) >= k
  BY <1>3
<1> QED
  BY ONLY <1>4

LEMMA FoldedExists ==
  ASSUME N \in Nat, NEW alloc, NEW s, NEW n1 \in Nat
  PROVE  \E it : Folded(alloc, s, 1 .. n1, it)
<1> DEFINE W == {k \in Nat : ~ \E it : Folded(alloc, s, 1 .. k, it)}
<1>1. SUFFICES ASSUME W # {} PROVE FALSE
  OBVIOUS
<1>2. PICK k \in W : \A j \in W : k <= j
  <2>1. W \in SUBSET Nat
    OBVIOUS
  <2> HIDE DEF W
  <2> QED
    BY <1>1, <2>1, LeastNumber
<1>3. CASE k = 0
  <2> DEFINE it == [u \in SUBSET (1 .. 0) |-> s]
  <2>1. \A u \in SUBSET (1 .. 0) : u = {}
    OBVIOUS
  <2>2. Folded(alloc, s, 1 .. 0, it)
    BY <2>1 DEF Folded
  <2> QED
    BY <1>3, <2>2
<1>4. CASE k # 0
  <2>1. k - 1 \in Nat /\ k - 1 \notin W
    BY <1>2, <1>4
  <2>2. PICK g : Folded(alloc, s, 1 .. k - 1, g)
    BY <2>1
  <2> DEFINE Val(u) == IF u \in SUBSET (1 .. k - 1) THEN g[u]
                       ELSE Visit(alloc, g[u \ {k}], InOrder[k])
             h == [u \in SUBSET (1 .. k) |-> Val(u)]
  <2>3. ASSUME NEW u \in SUBSET (1 .. k)
        PROVE  Val(u) = IF u = {} THEN s
                        ELSE Visit(alloc, h[u \ {Bank!Max(u)}], InOrder[Bank!Max(u)])
    <3>1. CASE u \in SUBSET (1 .. k - 1)
      <4>1. g[u] = IF u = {} THEN s
                   ELSE Visit(alloc, g[u \ {Bank!Max(u)}], InOrder[Bank!Max(u)])
        <5>1. g[u] = [v \in SUBSET (1 .. k - 1) |-> IF v = {} THEN s
                   ELSE Visit(alloc, g[v \ {Bank!Max(v)}], InOrder[Bank!Max(v)])][u]
          BY <2>2 DEF Folded
        <5> QED
          BY <3>1, <5>1
      <4>2. h[u \ {Bank!Max(u)}] = g[u \ {Bank!Max(u)}]
        <5>1. u \ {Bank!Max(u)} \in SUBSET (1 .. k - 1) /\ u \ {Bank!Max(u)} \in SUBSET (1 .. k)
          BY <3>1
        <5> QED
          BY <5>1
      <4> HIDE DEF h
      <4> QED
        BY <3>1, <4>1, <4>2
    <3>2. CASE u \notin SUBSET (1 .. k - 1)
      <4>1. k \in u /\ u # {} /\ k \in Nat \ {0}
        BY <1>4, <3>2
      <4>2. Bank!Max(u) = k
        BY <4>1, MaxOfPositions
      <4>3. u \ {k} \in SUBSET (1 .. k - 1) /\ u \ {k} \in SUBSET (1 .. k)
        BY <4>1
      <4>4. h[u \ {k}] = g[u \ {k}]
        BY <4>3
      <4> HIDE DEF h
      <4> QED
        BY <3>2, <4>1, <4>2, <4>4
    <3> QED
      BY <3>1, <3>2
  <2>4. PICK it : it = h
    OBVIOUS
  <2>5. it = [u \in SUBSET (1 .. k) |-> Val(u)]
    BY <2>4
  <2>6. it = [u \in SUBSET (1 .. k) |-> IF u = {} THEN s
               ELSE Visit(alloc, it[u \ {Bank!Max(u)}], InOrder[Bank!Max(u)])]
    <3> HIDE DEF h, Val
    <3> QED
      BY <2>3, <2>4, <2>5
  <2>7. Folded(alloc, s, 1 .. k, it)
    BY <2>6 DEF Folded
  <2> QED
    BY <2>7
<1> QED
  BY <1>3, <1>4

\* A pass visits the processes in order.
LEMMA PassSteps ==
  ASSUME N \in Nat, NEW alloc, NEW s
  PROVE  \E st : /\ st[0] = s
                 /\ \A i \in 1 .. N : st[i] = Visit(alloc, st[i - 1], i - 1)
                 /\ Bank!Pass(alloc, s) = st[N]
<1> DEFINE it == CHOOSE f : Folded(alloc, s, 1 .. N, f)
           st == [i \in 0 .. N |-> it[1 .. i]]
<1>1. DOMAIN InOrder = 1 .. N
  BY DEF InOrder
<1>2. Folded(alloc, s, 1 .. N, it)
  BY FoldedExists
<1>3. Bank!Pass(alloc, s) = it[1 .. N]
  BY <1>1, PassUnfold
<1> HIDE DEF it
<1>4. \A u \in SUBSET (1 .. N) :
        it[u] = IF u = {} THEN s
                ELSE Visit(alloc, it[u \ {Bank!Max(u)}], InOrder[Bank!Max(u)])
  <2> TAKE u \in SUBSET (1 .. N)
  <2>1. it[u] = [v \in SUBSET (1 .. N) |-> IF v = {} THEN s
               ELSE Visit(alloc, it[v \ {Bank!Max(v)}], InOrder[Bank!Max(v)])][u]
    BY <1>2 DEF Folded
  <2> QED
    BY <2>1
<1>5. st[0] = s
  <2>1. 1 .. 0 = {} /\ {} \in SUBSET (1 .. N) /\ 0 \in 0 .. N
    OBVIOUS
  <2> QED
    BY <1>4, <2>1
<1>6. ASSUME NEW i \in 1 .. N
      PROVE  st[i] = Visit(alloc, st[i - 1], i - 1)
  <2>1. /\ 1 .. i \in SUBSET (1 .. N) /\ i \in 1 .. i /\ i \in Nat \ {0}
        /\ (1 .. i) \ {i} = 1 .. i - 1 /\ i \in 0 .. N /\ i - 1 \in 0 .. N
        /\ 1 .. i \in SUBSET (1 .. i) /\ 1 .. i # {}
    OBVIOUS
  <2>2. Bank!Max(1 .. i) = i
    BY <2>1, MaxOfPositions
  <2>3. it[1 .. i] = Visit(alloc, it[1 .. i - 1], InOrder[i])
    BY <1>4, <2>1, <2>2
  <2>4. InOrder[i] = i - 1
    BY DEF InOrder
  <2> QED
    BY <2>1, <2>3, <2>4
<1>7. N \in 0 .. N
  OBVIOUS
<1>8. st[N] = it[1 .. N]
  BY <1>7
<1> HIDE DEF st
<1> QED
  BY <1>3, <1>5, <1>6, <1>8

\* The safety algorithm makes one pass for each process.
LEMMA SafeOrderSteps ==
  ASSUME N \in Nat, NEW alloc, NEW avail
  PROVE  \E af : /\ af[0] = [work |-> avail, order |-> <<>>]
                 /\ \A k \in 1 .. N : af[k] = Bank!Pass(alloc, af[k - 1])
                 /\ Bank!SafeOrder(alloc, avail) = af[N].order
<1> DEFINE start == [work |-> avail, order |-> <<>>]
           Upto(k, f) == f = [j \in 0 .. k |-> IF j = 0 THEN start ELSE Bank!Pass(alloc, f[j - 1])]
           W == {k \in Nat : ~ \E f : Upto(k, f)}
<1>1. ASSUME W # {} PROVE FALSE
  <2>1. PICK k \in W : \A j \in W : k <= j
    <3>1. W \in SUBSET Nat
      OBVIOUS
    <3> HIDE DEF W
    <3> QED
      BY <1>1, <3>1, LeastNumber
  <2>2. CASE k = 0
    <3>1. \A j \in 0 .. 0 : j = 0
      OBVIOUS
    <3>2. Upto(0, [j \in 0 .. 0 |-> start])
      BY <3>1
    <3>3. \E f : Upto(0, f)
      BY <3>2
    <3>4. ~ \E f : Upto(k, f)
      BY <2>1
    <3> HIDE DEF Upto
    <3> QED
      BY <2>2, <3>3, <3>4
  <2>3. CASE k # 0
    <3>1. k - 1 \in Nat /\ k - 1 \notin W /\ k \in Nat
      <4>1. k \in Nat /\ \A j \in W : j \in Nat /\ k <= j
        BY <2>1
      <4> HIDE DEF W
      <4> QED
        BY <2>3, <4>1
    <3>2. PICK g : Upto(k - 1, g)
      BY <3>1
    <3> DEFINE Val(j) == IF j = k THEN Bank!Pass(alloc, g[k - 1]) ELSE g[j]
               h == [j \in 0 .. k |-> Val(j)]
    <3>3. ASSUME NEW j \in 0 .. k
          PROVE  Val(j) = IF j = 0 THEN start ELSE Bank!Pass(alloc, h[j - 1])
      <4>1. CASE j = k
        <5>1. k - 1 \in 0 .. k /\ k - 1 # k
          BY <3>1
        <5>2. h[k - 1] = g[k - 1]
          BY <5>1
        <5> HIDE DEF h
        <5> QED
          BY <2>3, <4>1, <5>2
      <4>2. CASE j # k
        <5>1. j \in 0 .. k - 1 /\ (j # 0 => j - 1 \in 0 .. k /\ j - 1 # k)
          BY <3>1, <4>2
        <5>2. g[j] = [i \in 0 .. k - 1 |-> IF i = 0 THEN start ELSE Bank!Pass(alloc, g[i - 1])][j]
          BY <3>2
        <5>3. g[j] = IF j = 0 THEN start ELSE Bank!Pass(alloc, g[j - 1])
          BY <5>1, <5>2
        <5>4. j # 0 => h[j - 1] = g[j - 1]
          BY <5>1
        <5> HIDE DEF h, start
        <5> QED
          BY <4>2, <5>3, <5>4
      <4> QED
        BY <4>1, <4>2
    <3>4. PICK f : f = h
      OBVIOUS
    <3>5. f = [j \in 0 .. k |-> Val(j)]
      BY <3>4
    <3>6. f = [j \in 0 .. k |-> IF j = 0 THEN start ELSE Bank!Pass(alloc, f[j - 1])]
      <4> HIDE DEF h, Val, start
      <4> QED
        BY <3>3, <3>4, <3>5
    <3> QED
      BY <3>6
  <2> QED
    BY <2>2, <2>3
<1>2. PICK f : Upto(N, f)
  BY <1>1
<1>3. \A f1 : Upto(N, f1) <=> Loops(alloc, avail, f1)
  BY DEF Loops
<1>4. Loops(alloc, avail, CHOOSE it : Loops(alloc, avail, it))
  BY <1>2, <1>3
<1>5. PICK af : af = CHOOSE it : Loops(alloc, avail, it)
  OBVIOUS
<1>6. Loops(alloc, avail, af) /\ Bank!SafeOrder(alloc, avail) = af[N].order
  BY <1>4, <1>5, SafeOrderUnfold
<1>7. \A k \in 0 .. N : af[k] = IF k = 0 THEN start ELSE Bank!Pass(alloc, af[k - 1])
  <2> TAKE k \in 0 .. N
  <2>1. af[k] = [i \in 0 .. N |-> IF i = 0 THEN start ELSE Bank!Pass(alloc, af[i - 1])][k]
    BY <1>6 DEF Loops
  <2> QED
    BY <2>1
<1>8. 0 \in 0 .. N /\ \A k \in 1 .. N : k \in 0 .. N /\ k # 0
  OBVIOUS
<1> HIDE DEF Upto, W
<1> QED
  BY <1>6, <1>7, <1>8

Pool == [Bank!Res -> Nat]
Before(order, k) == {order[j] : j \in 1 .. k - 1}

\* The order so far has nobody twice, the work vector is the pool and all that
\* those in the order hold, and each of them fits when its turn comes.
OrderInv(alloc, avail, t) ==
  /\ t.order \in Seq(Bank!Proc)
  /\ \A j, k \in 1 .. Len(t.order) : t.order[j] = t.order[k] => j = k
  /\ t.work = [r \in Bank!Res |-> avail[r] + Sum(Column(alloc, r), Bank!ToSet(t.order))]
  /\ \A k \in 1 .. Len(t.order) : \A r \in Bank!Res :
       Demand[t.order[k]][r] - alloc[t.order[k]][r]
         <= avail[r] + Sum(Column(alloc, r), Before(t.order, k))

Blocked(alloc, t, p) ==
  p \notin Bank!ToSet(t.order) => ~Bank!CanExecute(alloc, p, t.work)

UnsafeTables(alloc, avail) ==
  \E D \in (SUBSET Bank!Proc) \ {{}} : \A p \in D : \E r \in Bank!Res :
    ~(Demand[p][r] - alloc[p][r] <= avail[r] + Sum(Column(alloc, r), Bank!Proc \ D))

LEMMA ColumnCounts ==
  ASSUME N \in Nat, NEW alloc \in Tables, NEW r \in Bank!Res, NEW S \in SUBSET Bank!Proc
  PROVE  /\ Counts(Column(alloc, r), S) /\ Whole(Column(alloc, r), S)
         /\ Sum(Column(alloc, r), S) \in Nat
         /\ \A T \in SUBSET S : Sum(Column(alloc, r), T) <= Sum(Column(alloc, r), S)
<1>1. IsFiniteSet(S)
  <2>1. IsFiniteSet(0 .. N - 1)
    BY FS_Interval
  <2> QED
    BY <2>1, FS_Subset DEF Bank!Proc, N
<1>2. Counts(Column(alloc, r), S) /\ Whole(Column(alloc, r), S)
  BY <1>1 DEF Counts, Whole, Column, Tables
<1> QED
  BY <1>2, SumIsCount, SumGrows

LEMMA CanExecuteMeans ==
  ASSUME NEW alloc, NEW p, NEW w
  PROVE  Bank!CanExecute(alloc, p, w)
           <=> \A r \in Bank!Res : Demand[p][r] - alloc[p][r] <= w[r]
BY DEF Bank!CanExecute, Bank!AtMost, Bank!Need, Bank!Minus

LEMMA VisitKeeps ==
  ASSUME N \in Nat, NEW alloc \in Tables, NEW avail \in Pool, NEW t,
         OrderInv(alloc, avail, t), NEW p \in Bank!Proc
  PROVE  /\ OrderInv(alloc, avail, Visit(alloc, t, p))
         /\ \/ Visit(alloc, t, p) = t /\ Blocked(alloc, t, p)
            \/ Len(Visit(alloc, t, p).order) = Len(t.order) + 1
<1>1. CASE p \in Bank!ToSet(t.order) \/ ~Bank!CanExecute(alloc, p, t.work)
  BY <1>1 DEF Visit, Blocked
<1>2. CASE p \notin Bank!ToSet(t.order) /\ Bank!CanExecute(alloc, p, t.work)
  <2> DEFINE o == t.order
             L == Len(t.order)
  <2>1. PICK v : v = Visit(alloc, t, p)
    OBVIOUS
  <2>2. /\ v.order = Append(o, p)
        /\ v.work = [r \in Bank!Res |-> t.work[r] + alloc[p][r]]
    BY <1>2, <2>1 DEF Visit, Bank!Plus
  <2>3. o \in Seq(Bank!Proc) /\ L \in Nat
    BY LenProperties DEF OrderInv
  <2>4. /\ v.order \in Seq(Bank!Proc) /\ Len(v.order) = L + 1 /\ v.order[L + 1] = p
        /\ \A k \in 1 .. L : v.order[k] = o[k]
    BY <2>2, <2>3, AppendProperties
  <2>5. /\ Bank!ToSet(o) = {o[k] : k \in 1 .. L}
        /\ Bank!ToSet(v.order) = {v.order[k] : k \in 1 .. L + 1}
    BY <2>3, <2>4, LenProperties DEF Bank!ToSet
  <2>6. \A k \in 1 .. L + 1 : k \in 1 .. L \/ k = L + 1
    BY <2>3
  <2>7. L + 1 \in 1 .. L + 1 /\ \A k \in 1 .. L : k \in 1 .. L + 1
    BY <2>3
  <2>8. Bank!ToSet(v.order) = Bank!ToSet(o) \cup {p}
    <3>1. Bank!ToSet(v.order) \subseteq Bank!ToSet(o) \cup {p}
      BY <2>4, <2>5, <2>6
    <3>2. p \in Bank!ToSet(v.order)
      BY <2>4, <2>5, <2>7
    <3>3. Bank!ToSet(o) \subseteq Bank!ToSet(v.order)
      BY <2>4, <2>5, <2>7
    <3> QED
      BY <3>1, <3>2, <3>3
  <2>9. Bank!ToSet(o) \subseteq Bank!Proc
    BY <2>3, <2>5, ElementOfSeq
  <2>10. \A j, k \in 1 .. Len(v.order) : v.order[j] = v.order[k] => j = k
    <3>1. \A k \in 1 .. L : o[k] # p
      BY <1>2, <2>5
    <3>2. \A j, k \in 1 .. L : o[j] = o[k] => j = k
      BY DEF OrderInv
    <3> QED
      BY <2>4, <2>6, <3>1, <3>2
  <2>11. v.work = [r \in Bank!Res |-> avail[r] + Sum(Column(alloc, r), Bank!ToSet(v.order))]
    <3>1. ASSUME NEW r \in Bank!Res
          PROVE  t.work[r] + alloc[p][r] = avail[r] + Sum(Column(alloc, r), Bank!ToSet(v.order))
      <4>1. t.work[r] = avail[r] + Sum(Column(alloc, r), Bank!ToSet(o))
        BY DEF OrderInv
      <4>2. PICK S : S = Bank!ToSet(v.order)
        OBVIOUS
      <4>3. S \in SUBSET Bank!Proc /\ p \in S /\ S \ {p} = Bank!ToSet(o)
        BY <1>2, <2>8, <2>9, <4>2
      <4>4. Whole(Column(alloc, r), S)
        BY <4>3, ColumnCounts
      <4>5. Sum(Column(alloc, r), S) = Column(alloc, r)[p] + Sum(Column(alloc, r), S \ {p})
        BY <4>3, <4>4, SumTake
      <4>6. Column(alloc, r)[p] = alloc[p][r]
        BY DEF Column
      <4>7. /\ avail[r] \in Nat /\ alloc[p][r] \in Nat
            /\ Sum(Column(alloc, r), Bank!ToSet(o)) \in Nat
        BY <2>9, ColumnCounts DEF Pool, Tables
      <4>8. Sum(Column(alloc, r), Bank!ToSet(v.order))
              = alloc[p][r] + Sum(Column(alloc, r), Bank!ToSet(o))
        BY <4>2, <4>3, <4>5, <4>6
      <4> QED
        BY <4>1, <4>7, <4>8
    <3> QED
      BY <2>2, <3>1
  <2>12. \A k \in 1 .. Len(v.order) : \A r \in Bank!Res :
           Demand[v.order[k]][r] - alloc[v.order[k]][r]
             <= avail[r] + Sum(Column(alloc, r), Before(v.order, k))
    <3> SUFFICES ASSUME NEW k \in 1 .. L + 1, NEW r \in Bank!Res
                 PROVE  Demand[v.order[k]][r] - alloc[v.order[k]][r]
                          <= avail[r] + Sum(Column(alloc, r), Before(v.order, k))
      BY <2>4
    <3>1. Before(v.order, k) = Before(o, k)
      <4>1. \A j \in 1 .. k - 1 : j \in 1 .. L
        BY <2>3
      <4> QED
        BY <2>4, <4>1 DEF Before
    <3>2. CASE k = L + 1
      <4>1. Before(o, k) = Bank!ToSet(o)
        <5>1. 1 .. k - 1 = 1 .. L
          BY <2>3, <3>2
        <5> QED
          BY <2>5, <5>1 DEF Before
      <4>2. Demand[p][r] - alloc[p][r] <= t.work[r]
        BY <1>2, CanExecuteMeans
      <4>3. t.work[r] = avail[r] + Sum(Column(alloc, r), Bank!ToSet(o))
        BY DEF OrderInv
      <4> QED
        BY <2>4, <3>1, <3>2, <4>1, <4>2, <4>3
    <3>3. CASE k \in 1 .. L
      BY <2>4, <3>1, <3>3 DEF OrderInv
    <3> QED
      BY <2>6, <3>2, <3>3
  <2>13. OrderInv(alloc, avail, v)
    BY <2>4, <2>10, <2>11, <2>12 DEF OrderInv
  <2> QED
    BY <2>1, <2>4, <2>13
<1> QED
  BY <1>1, <1>2

\* A pass finishes somebody or finds that nobody who is left fits.
LEMMA PassKeeps ==
  ASSUME N \in Nat, NEW alloc \in Tables, NEW avail \in Pool, NEW s,
         OrderInv(alloc, avail, s)
  PROVE  /\ OrderInv(alloc, avail, Bank!Pass(alloc, s))
         /\ \/ Len(Bank!Pass(alloc, s).order) >= Len(s.order) + 1
            \/ /\ Bank!Pass(alloc, s) = s
               /\ \A p \in Bank!Proc : Blocked(alloc, s, p)
<1>1. PICK st : /\ st[0] = s
                /\ \A i \in 1 .. N : st[i] = Visit(alloc, st[i - 1], i - 1)
                /\ Bank!Pass(alloc, s) = st[N]
  BY PassSteps
<1> DEFINE Good(i) == /\ OrderInv(alloc, avail, st[i])
                      /\ \/ Len(st[i].order) >= Len(s.order) + 1
                         \/ st[i] = s /\ \A p \in 0 .. i - 1 : Blocked(alloc, s, p)
           W == {i \in 0 .. N : ~Good(i)}
<1>2. ASSUME W # {} PROVE FALSE
  <2>1. PICK i \in W : \A j \in W : i <= j
    <3>1. W \in SUBSET Nat
      OBVIOUS
    <3> HIDE DEF W
    <3> QED
      BY <1>2, <3>1, LeastNumber
  <2>2. i \in 0 .. N /\ ~Good(i)
    BY <2>1
  <2>3. CASE i = 0
    <3>1. Good(0)
      BY <1>1
    <3> HIDE DEF Good
    <3> QED
      BY <2>2, <2>3, <3>1
  <2>4. CASE i # 0
    <3>1. i - 1 \in 0 .. N /\ i \in 1 .. N /\ i - 1 \in 0 .. N - 1 /\ i \in Nat
      BY <2>2, <2>4
    <3>2. Good(i - 1)
      <4> HIDE DEF Good
      <4> QED
        BY <2>1, <3>1
    <3>3. PICK t : t = st[i - 1]
      OBVIOUS
    <3>4. PICK v : v = Visit(alloc, t, i - 1)
      OBVIOUS
    <3>5. st[i] = v
      BY <1>1, <3>1, <3>3, <3>4
    <3>6. i - 1 \in Bank!Proc
      BY <3>1 DEF Bank!Proc, N
    <3>7. /\ OrderInv(alloc, avail, v)
          /\ (v = t /\ Blocked(alloc, t, i - 1)) \/ Len(v.order) = Len(t.order) + 1
      BY <3>2, <3>3, <3>4, <3>6, VisitKeeps
    <3>8. Len(t.order) \in Nat /\ Len(s.order) \in Nat /\ Len(v.order) \in Nat
      BY <3>2, <3>3, <3>7, LenProperties DEF OrderInv
    <3>9. \/ Len(t.order) >= Len(s.order) + 1
          \/ t = s /\ \A p \in 0 .. i - 2 : Blocked(alloc, s, p)
      <4>1. (i - 1) - 1 = i - 2
        BY <3>1
      <4> QED
        BY <3>2, <3>3, <4>1
    <3>10. CASE Len(v.order) = Len(t.order) + 1 \/ Len(t.order) >= Len(s.order) + 1
      <4>1. Len(v.order) >= Len(s.order) + 1
        BY <3>7, <3>8, <3>9, <3>10
      <4>2. Good(i)
        BY <3>5, <3>7, <4>1
      <4> HIDE DEF Good
      <4> QED
        BY <2>2, <4>2
    <3>11. CASE v = t /\ t = s /\ Blocked(alloc, s, i - 1)
                 /\ \A p \in 0 .. i - 2 : Blocked(alloc, s, p)
      <4>1. \A p \in 0 .. i - 1 : p \in 0 .. i - 2 \/ p = i - 1
        BY <3>1
      <4>2. Good(i)
        BY <3>5, <3>7, <3>11, <4>1
      <4> HIDE DEF Good
      <4> QED
        BY <2>2, <4>2
    <3> QED
      BY <3>7, <3>9, <3>10, <3>11
  <2> QED
    BY <2>3, <2>4
<1>3. N \in 0 .. N /\ N \notin W
  <2> HIDE DEF W
  <2> QED
    BY <1>2
<1>4. Good(N)
  BY <1>3
<1> QED
  BY <1>1, <1>4 DEF Bank!Proc, N

\* Distinct processes: the order is complete when all are in it.
LEMMA OrderSize ==
  ASSUME N \in Nat, NEW alloc, NEW avail, NEW t, OrderInv(alloc, avail, t)
  PROVE  /\ Len(t.order) \in 0 .. N
         /\ Len(t.order) = N <=> Bank!ToSet(t.order) = Bank!Proc
<1> DEFINE o == t.order
           L == Len(o)
<1>1. o \in Seq(Bank!Proc) /\ L \in Nat /\ o \in [1 .. L -> Bank!Proc]
      /\ Bank!ToSet(o) = {o[k] : k \in 1 .. L}
  BY LenProperties DEF OrderInv, Bank!ToSet
<1>2. Bank!ToSet(o) \in SUBSET Bank!Proc
  BY <1>1
<1>3. IsFiniteSet(Bank!Proc) /\ Cardinality(Bank!Proc) = N
  BY FS_Interval DEF Bank!Proc, N
<1>4. o \in Bijection(1 .. L, Bank!ToSet(o))
  BY <1>1 DEF OrderInv, Bijection, Injection, IsInjective, Surjection
<1>5. IsFiniteSet(1 .. L) /\ Cardinality(1 .. L) = L
  <2>1. ASSUME NEW k \in Nat PROVE IsFiniteSet(1 .. k) /\ Cardinality(1 .. k) = k
    BY FS_Interval
  <2> QED
    BY <1>1, <2>1
<1>6. ExistsBijection(1 .. L, Bank!ToSet(o))
  BY <1>4 DEF ExistsBijection
<1>7. Cardinality(Bank!ToSet(o)) = L
  BY <1>5, <1>6, FS_Bijection
<1>8. L <= N /\ (N = L => Bank!Proc = Bank!ToSet(o))
  BY <1>2, <1>3, <1>7, FS_Subset
<1>9. L \in 0 .. N
  BY <1>1, <1>8
<1>10. L = N <=> Bank!ToSet(o) = Bank!Proc
  <2> HIDE DEF L
  <2> QED
    BY <1>3, <1>7, <1>8
<1> QED
  BY <1>9, <1>10

\* When nobody who is left fits, those who are left make the state unsafe.
LEMMA BlockedIsUnsafe ==
  ASSUME ToolsAssumption, NEW alloc \in Tables, NEW avail \in Pool, NEW t,
         OrderInv(alloc, avail, t), \A p \in Bank!Proc : Blocked(alloc, t, p),
         Bank!ToSet(t.order) # Bank!Proc
  PROVE  UnsafeTables(alloc, avail)
<1> DEFINE D == Bank!Proc \ Bank!ToSet(t.order)
<1>1. t.order \in Seq(Bank!Proc) /\ Bank!ToSet(t.order) \subseteq Bank!Proc
  BY LenProperties, ElementOfSeq DEF OrderInv, Bank!ToSet
<1>2. D \in (SUBSET Bank!Proc) \ {{}} /\ Bank!Proc \ D = Bank!ToSet(t.order)
  BY <1>1
<1>3. ASSUME NEW p \in D
      PROVE  \E r \in Bank!Res : ~(Demand[p][r] - alloc[p][r]
                                     <= avail[r] + Sum(Column(alloc, r), Bank!Proc \ D))
  <2>1. ~Bank!CanExecute(alloc, p, t.work)
    BY DEF Blocked
  <2>2. PICK r \in Bank!Res : ~(Demand[p][r] - alloc[p][r] <= t.work[r])
    BY <2>1, CanExecuteMeans
  <2>3. t.work[r] = avail[r] + Sum(Column(alloc, r), Bank!Proc \ D)
    BY <1>2 DEF OrderInv
  <2>4. N \in Nat /\ Demand[p][r] \in Nat /\ alloc[p][r] \in Nat /\ avail[r] \in Nat
    BY DEF ToolsAssumption, Tables, Pool, N
  <2>5. Sum(Column(alloc, r), Bank!Proc \ D) \in Nat
    BY <1>1, <1>2, <2>4, ColumnCounts
  <2> HIDE DEF D
  <2> QED
    BY <2>2, <2>3, <2>4, <2>5
<1> HIDE DEF D
<1> QED
  BY <1>2, <1>3 DEF UnsafeTables

\* With everybody in the order nothing is unsafe: the first member of a set in
\* the order fits when all before it, who are outside the set, have finished.
LEMMA CompleteIsSafe ==
  ASSUME ToolsAssumption, NEW alloc \in Tables, NEW avail \in Pool, NEW t,
         OrderInv(alloc, avail, t), Bank!ToSet(t.order) = Bank!Proc
  PROVE  ~UnsafeTables(alloc, avail)
<1> SUFFICES ASSUME NEW D \in (SUBSET Bank!Proc) \ {{}},
                    \A p \in D : \E r \in Bank!Res :
                      ~(Demand[p][r] - alloc[p][r]
                          <= avail[r] + Sum(Column(alloc, r), Bank!Proc \ D))
             PROVE  FALSE
  BY DEF UnsafeTables
<1> DEFINE o == t.order
           W == {k \in 1 .. Len(o) : o[k] \in D}
<1>1. o \in Seq(Bank!Proc) /\ Len(o) \in Nat /\ DOMAIN o = 1 .. Len(o)
  BY LenProperties DEF OrderInv
<1>2. W # {} /\ W \in SUBSET Nat
  <2>1. PICK p \in D : TRUE
    OBVIOUS
  <2>2. Bank!ToSet(o) = {o[k] : k \in 1 .. Len(o)}
    BY <1>1 DEF Bank!ToSet
  <2>3. PICK k \in 1 .. Len(o) : p = o[k]
    BY <2>1, <2>2
  <2>4. k \in W
    BY <2>1, <2>3
  <2>5. W \in SUBSET Nat
    BY <1>1
  <2> QED
    BY <2>4, <2>5
<1>3. PICK k \in W : \A j \in W : k <= j
  <2> HIDE DEF W
  <2> QED
    BY <1>2, LeastNumber
<1>4. k \in 1 .. Len(o) /\ o[k] \in D /\ o[k] \in Bank!Proc
  BY <1>3
<1>5. Before(o, k) \in SUBSET (Bank!Proc \ D)
  <2> SUFFICES ASSUME NEW j \in 1 .. k - 1
               PROVE  o[j] \in Bank!Proc \ D
    BY DEF Before
  <2>1. j \in 1 .. Len(o) /\ ~(k <= j)
    BY <1>1, <1>4
  <2>2. j \notin W
    BY <1>3, <2>1
  <2> QED
    BY <1>1, <2>1, <2>2, ElementOfSeq
<1>6. PICK r \in Bank!Res : ~(Demand[o[k]][r] - alloc[o[k]][r]
                                <= avail[r] + Sum(Column(alloc, r), Bank!Proc \ D))
  BY <1>4
<1>7. Demand[o[k]][r] - alloc[o[k]][r] <= avail[r] + Sum(Column(alloc, r), Before(o, k))
  BY <1>4 DEF OrderInv
<1>8. N \in Nat /\ Demand[o[k]][r] \in Nat /\ alloc[o[k]][r] \in Nat /\ avail[r] \in Nat
  BY <1>4 DEF ToolsAssumption, Tables, Pool, N
<1>9. /\ Sum(Column(alloc, r), Before(o, k)) <= Sum(Column(alloc, r), Bank!Proc \ D)
      /\ Sum(Column(alloc, r), Before(o, k)) \in Nat
      /\ Sum(Column(alloc, r), Bank!Proc \ D) \in Nat
  BY <1>5, <1>8, ColumnCounts
<1>10. avail[r] + Sum(Column(alloc, r), Before(o, k))
          <= avail[r] + Sum(Column(alloc, r), Bank!Proc \ D)
  BY ONLY <1>8, <1>9
<1>11. /\ Demand[o[k]][r] - alloc[o[k]][r] \in Int
       /\ avail[r] + Sum(Column(alloc, r), Before(o, k)) \in Int
       /\ avail[r] + Sum(Column(alloc, r), Bank!Proc \ D) \in Int
  BY ONLY <1>8, <1>9
<1> QED
  BY ONLY <1>6, <1>7, <1>10, <1>11

LEMMA SafetyTest ==
  ASSUME ToolsAssumption, NEW alloc \in Tables, NEW avail \in Pool
  PROVE  /\ Bank!CheckSafeState(alloc, avail) <=> ~UnsafeTables(alloc, avail)
         /\ \E t : OrderInv(alloc, avail, t) /\ t.order = Bank!SafeOrder(alloc, avail)
<1>0. N \in Nat
  BY DEF ToolsAssumption, N
<1>1. PICK af : /\ af[0] = [work |-> avail, order |-> <<>>]
                /\ \A k \in 1 .. N : af[k] = Bank!Pass(alloc, af[k - 1])
                /\ Bank!SafeOrder(alloc, avail) = af[N].order
  BY <1>0, SafeOrderSteps
<1> DEFINE Good(k) == /\ OrderInv(alloc, avail, af[k])
                      /\ Len(af[k].order) >= k \/ UnsafeTables(alloc, avail)
           W == {k \in 0 .. N : ~Good(k)}
<1>2. OrderInv(alloc, avail, af[0]) /\ Len(af[0].order) = 0
  <2>1. af[0].order = <<>> /\ af[0].work = avail
    BY <1>1
  <2>2. Bank!ToSet(<<>>) = {}
    BY DEF Bank!ToSet
  <2>3. \A r \in Bank!Res : avail[r] + Sum(Column(alloc, r), {}) = avail[r]
    BY SumOfEmpty DEF Pool
  <2>4. avail = [r \in Bank!Res |-> avail[r] + Sum(Column(alloc, r), {})]
    BY <2>3 DEF Pool
  <2>5. PICK t : t = af[0]
    OBVIOUS
  <2>6. t.order = <<>> /\ t.work = avail /\ Len(t.order) = 0 /\ t.order \in Seq(Bank!Proc)
    <3>1. t.order = <<>> /\ t.work = avail
      BY <2>1, <2>5
    <3> QED
      BY ONLY <3>1
  <2>7. t.work = [r \in Bank!Res |-> avail[r] + Sum(Column(alloc, r), Bank!ToSet(t.order))]
    BY <2>2, <2>4, <2>6
  <2>8. OrderInv(alloc, avail, t)
    BY <2>6, <2>7 DEF OrderInv
  <2> QED
    BY <2>5, <2>6, <2>8
<1>3. ASSUME W # {} PROVE FALSE
  <2>1. PICK k \in W : \A j \in W : k <= j
    <3>1. W \in SUBSET Nat
      BY <1>0
    <3> HIDE DEF W
    <3> QED
      BY <1>3, <3>1, LeastNumber
  <2>2. k \in 0 .. N /\ ~Good(k)
    BY <2>1
  <2>3. CASE k = 0
    <3>1. Good(0)
      BY <1>2
    <3> HIDE DEF Good
    <3> QED
      BY <2>2, <2>3, <3>1
  <2>4. CASE k # 0
    <3>1. k - 1 \in 0 .. N /\ k \in 1 .. N /\ k \in Nat
      BY <1>0, <2>2, <2>4
    <3>2. Good(k - 1)
      <4> HIDE DEF Good
      <4> QED
        BY <2>1, <3>1
    <3>3. PICK s : s = af[k - 1]
      OBVIOUS
    <3>4. PICK v : v = Bank!Pass(alloc, s)
      OBVIOUS
    <3>5. af[k] = v
      BY <1>1, <3>1, <3>3, <3>4
    <3>6. OrderInv(alloc, avail, s) /\ (Len(s.order) >= k - 1 \/ UnsafeTables(alloc, avail))
      BY <3>2, <3>3
    <3>7. /\ OrderInv(alloc, avail, v)
          /\ \/ Len(v.order) >= Len(s.order) + 1
             \/ v = s /\ \A p \in Bank!Proc : Blocked(alloc, s, p)
      BY <1>0, <3>4, <3>6, PassKeeps
    <3>8. Len(s.order) \in Nat /\ Len(v.order) \in Nat
      BY <3>6, <3>7, LenProperties DEF OrderInv
    <3>9. Len(v.order) >= k \/ UnsafeTables(alloc, avail)
      <4>1. CASE Len(v.order) >= Len(s.order) + 1
        BY <3>1, <3>6, <3>8, <4>1
      <4>2. CASE v = s /\ \A p \in Bank!Proc : Blocked(alloc, s, p)
        <5>1. CASE Bank!ToSet(s.order) = Bank!Proc
          <6>1. Len(v.order) = N
            BY <1>0, <3>6, <4>2, <5>1, OrderSize
          <6> QED
            BY <1>0, <3>1, <6>1
        <5>2. CASE Bank!ToSet(s.order) # Bank!Proc
          BY <3>6, <4>2, <5>2, BlockedIsUnsafe
        <5> QED
          BY <5>1, <5>2
      <4> QED
        BY <3>7, <4>1, <4>2
    <3>10. Good(k)
      BY <3>5, <3>7, <3>9
    <3> HIDE DEF Good
    <3> QED
      BY <2>2, <3>10
  <2> QED
    BY <2>3, <2>4
<1>4. Good(N)
  <2>1. N \in 0 .. N /\ N \notin W
    <3> HIDE DEF W
    <3> QED
      BY <1>0, <1>3
  <2> HIDE DEF Good
  <2> QED
    BY <2>1
<1>5. PICK t : t = af[N]
  OBVIOUS
<1>6. /\ OrderInv(alloc, avail, t) /\ t.order = Bank!SafeOrder(alloc, avail)
      /\ Len(t.order) >= N \/ UnsafeTables(alloc, avail)
  BY <1>1, <1>4, <1>5
<1>7. Bank!CheckSafeState(alloc, avail) <=> Len(t.order) = N
  BY <1>6 DEF Bank!CheckSafeState, N
<1>8. Len(t.order) \in 0 .. N /\ (Len(t.order) = N <=> Bank!ToSet(t.order) = Bank!Proc)
  BY <1>0, <1>6, OrderSize
<1>9. Len(t.order) = N => ~UnsafeTables(alloc, avail)
  BY <1>6, <1>8, CompleteIsSafe
<1>10. ~UnsafeTables(alloc, avail) => Len(t.order) = N
  BY <1>0, <1>6, <1>8
<1> QED
  BY <1>6, <1>7, <1>9, <1>10

-------------------------------------------------------------------------------
(***************************************************************************)
(* The banker: bankers                                                     *)
(***************************************************************************)

\* The tables without the units that are on trial.
Settled ==
  IF trial = Bank!NoTrial THEN alloc_table
  ELSE [alloc_table EXCEPT ![trial.by] = Bank!Minus(@, trial.units)]
SettledPool ==
  IF trial = Bank!NoTrial THEN current_avail ELSE Bank!Plus(current_avail, trial.units)

BankTyped ==
  /\ alloc_table \in Tables /\ current_avail \in Pool
  /\ trial = Bank!NoTrial \/ trial \in [by : Bank!Proc, units : Pool]

\* A process on trial has the units; nobody exceeds its demand; no unit is lost;
\* and without the units on trial the state is safe.
BankInv ==
  /\ BankTyped
  /\ trial # Bank!NoTrial => \A r \in Bank!Res : trial.units[r] <= alloc_table[trial.by][r]
  /\ \A p \in Bank!Proc : \A r \in Bank!Res : alloc_table[p][r] <= Demand[p][r]
  /\ \A r \in Bank!Res :
       current_avail[r] + Sum(Column(alloc_table, r), Bank!Proc)
         = Available[r] + Sum(Column(Allocation, r), Bank!Proc)
  /\ Bank!CheckSafeState(Settled, SettledPool)

WithRow(new, alloc, p, row) == new = [alloc EXCEPT ![p] = row]

LEMMA RowChanged ==
  ASSUME N \in Nat, NEW alloc \in Tables, NEW p \in Bank!Proc, NEW row \in Pool,
         NEW new, WithRow(new, alloc, p, row)
  PROVE  /\ new \in Tables /\ new[p] = row
         /\ \A q \in Bank!Proc : q # p => new[q] = alloc[q]
         /\ \A r \in Bank!Res :
              Sum(Column(new, r), Bank!Proc)
                = Sum(Column(alloc, r), Bank!Proc) - alloc[p][r] + row[r]
<1>1. /\ new \in Tables /\ new[p] = row
      /\ \A q \in Bank!Proc : q # p => new[q] = alloc[q]
  BY DEF Tables, Pool, WithRow
<1>2. ASSUME NEW r \in Bank!Res
      PROVE  Sum(Column(new, r), Bank!Proc)
               = Sum(Column(alloc, r), Bank!Proc) - alloc[p][r] + row[r]
  <2>1. Whole(Column(new, r), Bank!Proc) /\ Whole(Column(alloc, r), Bank!Proc)
    BY <1>1, ColumnCounts
  <2>2. /\ \A q \in Bank!Proc : q # p => Column(alloc, r)[q] = Column(new, r)[q]
        /\ Column(alloc, r)[p] = alloc[p][r] /\ Column(new, r)[p] = row[r]
    BY <1>1 DEF Column
  <2>3. Sum(Column(new, r), Bank!Proc)
          = Sum(Column(alloc, r), Bank!Proc) - Column(alloc, r)[p] + Column(new, r)[p]
    <3>1. PICK f, g : f = Column(alloc, r) /\ g = Column(new, r)
      OBVIOUS
    <3>2. /\ Whole(f, Bank!Proc) /\ Whole(g, Bank!Proc)
          /\ \A q \in Bank!Proc : q # p => f[q] = g[q]
      BY <2>1, <2>2, <3>1
    <3>3. Sum(g, Bank!Proc) = Sum(f, Bank!Proc) - f[p] + g[p]
      BY ONLY p \in Bank!Proc, <3>2, SumOfChanged
    <3> QED
      BY <3>1, <3>3
  <2> QED
    BY <2>2, <2>3
<1> QED
  BY <1>1, <1>2

LEMMA TrialIsTyped ==
  ASSUME BankTyped, trial # Bank!NoTrial
  PROVE  trial.by \in Bank!Proc /\ trial.units \in Pool
BY DEF BankTyped

LEMMA BankInit ==
  ASSUME ToolsAssumption, SafeStartAssumption, Bank!Init
  PROVE  BankInv
<1>1. alloc_table = Allocation /\ current_avail = Available /\ trial = Bank!NoTrial
  BY DEF Bank!Init
<1>2. Allocation \in Tables /\ Available \in Pool
  BY DEF ToolsAssumption, Tables, Pool
<1>3. \A p \in Bank!Proc : \A r \in Bank!Res : Allocation[p][r] <= Demand[p][r]
  BY DEF ToolsAssumption, Bank!AtMost
<1>4. Bank!CheckSafeState(Settled, SettledPool)
  BY <1>1 DEF Settled, SettledPool, SafeStartAssumption
<1>5. BankTyped
  BY <1>1, <1>2 DEF BankTyped
<1> QED
  BY <1>1, <1>3, <1>4, <1>5 DEF BankInv

LEMMA BankTrial ==
  ASSUME ToolsAssumption, BankInv, NEW p \in Bank!Proc,
         NEW units \in [Bank!Res -> 0 .. MaxRequest], Bank!Trial(p, units)
  PROVE  BankInv'
<1>0. N \in Nat /\ alloc_table \in Tables /\ current_avail \in Pool
      /\ Demand \in Tables /\ units \in Pool
  <2>1. MaxRequest \in Nat
    BY DEF ToolsAssumption
  <2>2. units \in Pool
    BY <2>1 DEF Pool
  <2> QED
    BY <2>2 DEF BankInv, BankTyped, ToolsAssumption, N, Tables
<1>1. /\ trial = Bank!NoTrial
      /\ \A r \in Bank!Res : units[r] <= Demand[p][r] - alloc_table[p][r]
      /\ \A r \in Bank!Res : units[r] <= current_avail[r]
      /\ current_avail' = [r \in Bank!Res |-> current_avail[r] - units[r]]
      /\ alloc_table' = [alloc_table EXCEPT ![p] =
                           [r \in Bank!Res |-> alloc_table[p][r] + units[r]]]
      /\ trial' = [by |-> p, units |-> units]
  BY <1>0 DEF Bank!Trial, Bank!AtMost, Bank!Need, Bank!Minus, Bank!Plus, Tables
<1> DEFINE row == [r \in Bank!Res |-> alloc_table[p][r] + units[r]]
<1>2. \A r \in Bank!Res : /\ units[r] \in Nat /\ current_avail[r] \in Nat
                          /\ alloc_table[p][r] \in Nat /\ Demand[p][r] \in Nat
  BY <1>0 DEF Tables, Pool
<1>3. row \in Pool /\ current_avail' \in Pool
  BY <1>1, <1>2 DEF Pool
<1>4. \A r \in Bank!Res : row[r] = alloc_table[p][r] + units[r]
  OBVIOUS
<1> HIDE DEF row
<1>5. /\ alloc_table' \in Tables /\ alloc_table'[p] = row
      /\ \A q \in Bank!Proc : q # p => alloc_table'[q] = alloc_table[q]
      /\ \A r \in Bank!Res : Sum(Column(alloc_table', r), Bank!Proc)
                              = Sum(Column(alloc_table, r), Bank!Proc) - alloc_table[p][r] + row[r]
  <2>1. alloc_table' = [alloc_table EXCEPT ![p] = row]
    BY <1>1 DEF row
  <2>2. PICK a : WithRow(a, alloc_table, p, row)
    BY DEF WithRow
  <2>3. /\ a \in Tables /\ a[p] = row
        /\ \A q \in Bank!Proc : q # p => a[q] = alloc_table[q]
        /\ \A r \in Bank!Res : Sum(Column(a, r), Bank!Proc)
                                 = Sum(Column(alloc_table, r), Bank!Proc) - alloc_table[p][r] + row[r]
    BY <1>0, <1>3, <2>2, RowChanged
  <2> QED
    BY <2>1, <2>2, <2>3 DEF WithRow
<1>6. trial' # Bank!NoTrial /\ trial'.by = p /\ trial'.units = units
      /\ trial' \in [by : Bank!Proc, units : Pool]
  <2>1. p # -1
    BY DEF Bank!Proc
  <2> QED
    BY <1>0, <1>1, <2>1 DEF Bank!NoTrial
<1>7. BankTyped'
  BY <1>3, <1>5, <1>6 DEF BankTyped
<1>8. \A r \in Bank!Res : trial'.units[r] <= alloc_table'[trial'.by][r]
  BY <1>2, <1>4, <1>5, <1>6
<1>9. \A q \in Bank!Proc : \A r \in Bank!Res : alloc_table'[q][r] <= Demand[q][r]
  <2> TAKE q \in Bank!Proc
  <2> TAKE r \in Bank!Res
  <2>1. CASE q = p
    <3>1. row[r] <= Demand[p][r]
      BY <1>1, <1>2, <1>4
    <3> QED
      BY <1>5, <2>1, <3>1
  <2>2. CASE q # p
    BY <1>5, <2>2 DEF BankInv
  <2> QED
    BY <2>1, <2>2
<1>10. ASSUME NEW r \in Bank!Res
       PROVE  current_avail'[r] + Sum(Column(alloc_table', r), Bank!Proc)
                = Available[r] + Sum(Column(Allocation, r), Bank!Proc)
  <2>1. Sum(Column(alloc_table, r), Bank!Proc) \in Nat
    BY <1>0, ColumnCounts
  <2>2. Sum(Column(alloc_table', r), Bank!Proc)
          = Sum(Column(alloc_table, r), Bank!Proc) + units[r]
    BY <1>2, <1>4, <1>5, <2>1
  <2>3. current_avail'[r] = current_avail[r] - units[r]
    BY <1>1
  <2>4. current_avail[r] + Sum(Column(alloc_table, r), Bank!Proc)
          = Available[r] + Sum(Column(Allocation, r), Bank!Proc)
    BY DEF BankInv
  <2> QED
    BY <1>2, <2>1, <2>2, <2>3, <2>4
<1>11. Settled' = alloc_table /\ SettledPool' = current_avail
  <2>1. Bank!Minus(row, units) = alloc_table[p]
    <3>1. \A r \in Bank!Res : row[r] - units[r] = alloc_table[p][r]
      BY <1>2, <1>4
    <3>2. alloc_table[p] = [r \in Bank!Res |-> alloc_table[p][r]]
      BY <1>0 DEF Tables
    <3> QED
      BY <3>1, <3>2 DEF Bank!Minus
  <2>2. Settled' = [alloc_table' EXCEPT ![p] = Bank!Minus(row, units)]
    BY <1>5, <1>6 DEF Settled
  <2>3. [alloc_table' EXCEPT ![p] = alloc_table[p]] = alloc_table
    BY <1>0, <1>5 DEF Tables
  <2>4. SettledPool' = Bank!Plus(current_avail', units)
    BY <1>6 DEF SettledPool
  <2>5. Bank!Plus(current_avail', units) = current_avail
    <3>1. \A r \in Bank!Res : current_avail'[r] + units[r] = current_avail[r]
      BY <1>1, <1>2
    <3>2. current_avail = [r \in Bank!Res |-> current_avail[r]]
      BY <1>0 DEF Pool
    <3> QED
      BY <3>1, <3>2 DEF Bank!Plus
  <2> QED
    BY <2>1, <2>2, <2>3, <2>4, <2>5
<1>12. Bank!CheckSafeState(Settled, SettledPool)'
  <2>1. Bank!CheckSafeState(alloc_table, current_avail)
    BY <1>1 DEF BankInv, Settled, SettledPool
  <2> QED
    BY <1>11, <2>1
<1> QED
  BY <1>7, <1>8, <1>9, <1>10, <1>12 DEF BankInv

LEMMA BankCommit ==
  ASSUME BankInv, Bank!Commit
  PROVE  BankInv'
<1>1. /\ trial' = Bank!NoTrial /\ alloc_table' = alloc_table
      /\ current_avail' = current_avail
      /\ Bank!CheckSafeState(alloc_table, current_avail)
  BY DEF Bank!Commit
<1>2. Settled' = alloc_table /\ SettledPool' = current_avail
  BY <1>1 DEF Settled, SettledPool
<1>3. Bank!CheckSafeState(Settled, SettledPool)'
  BY <1>1, <1>2
<1>4. BankTyped'
  BY <1>1 DEF BankInv, BankTyped
<1> QED
  BY <1>1, <1>3, <1>4 DEF BankInv

LEMMA BankRollback ==
  ASSUME ToolsAssumption, BankInv, Bank!Rollback
  PROVE  BankInv'
<1> DEFINE p == trial.by
           units == trial.units
           row == [r \in Bank!Res |-> alloc_table[p][r] - units[r]]
<1>0. N \in Nat /\ alloc_table \in Tables /\ current_avail \in Pool
      /\ Demand \in Tables /\ units \in Pool /\ p \in Bank!Proc
  BY TrialIsTyped DEF Bank!Rollback, BankInv, BankTyped, ToolsAssumption, N, Tables
<1>1. /\ trial # Bank!NoTrial /\ trial' = Bank!NoTrial
      /\ current_avail' = Bank!Plus(current_avail, units)
      /\ alloc_table' = [alloc_table EXCEPT ![p] = Bank!Minus(@, units)]
      /\ alloc_table' = [alloc_table EXCEPT ![p] = row]
  BY <1>0 DEF Bank!Rollback, Bank!Minus, Tables
<1>2. \A r \in Bank!Res : /\ units[r] \in Nat /\ current_avail[r] \in Nat
                          /\ alloc_table[p][r] \in Nat /\ Demand[p][r] \in Nat
                          /\ units[r] <= alloc_table[p][r]
  BY <1>0, <1>1 DEF Tables, Pool, BankInv
<1>3. current_avail' = [r \in Bank!Res |-> current_avail[r] + units[r]]
  BY <1>1 DEF Bank!Plus
<1>4. row \in Pool /\ current_avail' \in Pool
  BY <1>2, <1>3 DEF Pool
<1>5. \A r \in Bank!Res : row[r] = alloc_table[p][r] - units[r]
  OBVIOUS
<1>6. Settled' = Settled /\ SettledPool' = SettledPool
  BY <1>1 DEF Settled, SettledPool
<1> HIDE DEF row, p, units
<1>7. /\ alloc_table' \in Tables /\ alloc_table'[p] = row
      /\ \A q \in Bank!Proc : q # p => alloc_table'[q] = alloc_table[q]
      /\ \A r \in Bank!Res : Sum(Column(alloc_table', r), Bank!Proc)
                              = Sum(Column(alloc_table, r), Bank!Proc) - alloc_table[p][r] + row[r]
  <2>1. PICK a : WithRow(a, alloc_table, p, row)
    BY DEF WithRow
  <2>2. /\ a \in Tables /\ a[p] = row
        /\ \A q \in Bank!Proc : q # p => a[q] = alloc_table[q]
        /\ \A r \in Bank!Res : Sum(Column(a, r), Bank!Proc)
                                 = Sum(Column(alloc_table, r), Bank!Proc) - alloc_table[p][r] + row[r]
    BY <1>0, <1>4, <2>1, RowChanged
  <2> QED
    BY <1>1, <2>1, <2>2 DEF WithRow
<1>8. BankTyped'
  BY <1>1, <1>4, <1>7 DEF BankTyped
<1>9. \A q \in Bank!Proc : \A r \in Bank!Res : alloc_table'[q][r] <= Demand[q][r]
  <2> TAKE q \in Bank!Proc
  <2> TAKE r \in Bank!Res
  <2>0. alloc_table[q][r] <= Demand[q][r]
    BY DEF BankInv
  <2>1. CASE q = p
    <3>1. row[r] <= Demand[p][r]
      BY <1>2, <1>5, <2>0, <2>1
    <3> QED
      BY <1>7, <2>1, <3>1
  <2>2. CASE q # p
    BY <1>7, <2>0, <2>2
  <2> QED
    BY <2>1, <2>2
<1>10. ASSUME NEW r \in Bank!Res
       PROVE  current_avail'[r] + Sum(Column(alloc_table', r), Bank!Proc)
                = Available[r] + Sum(Column(Allocation, r), Bank!Proc)
  <2>1. Sum(Column(alloc_table, r), Bank!Proc) \in Nat
    BY <1>0, ColumnCounts
  <2>2. Sum(Column(alloc_table', r), Bank!Proc)
          = Sum(Column(alloc_table, r), Bank!Proc) - units[r]
    BY <1>2, <1>5, <1>7, <2>1
  <2>3. current_avail'[r] = current_avail[r] + units[r]
    BY <1>3
  <2>4. current_avail[r] + Sum(Column(alloc_table, r), Bank!Proc)
          = Available[r] + Sum(Column(Allocation, r), Bank!Proc)
    BY DEF BankInv
  <2> QED
    BY <1>2, <2>1, <2>2, <2>3, <2>4
<1>11. Bank!CheckSafeState(Settled, SettledPool)'
  BY <1>6 DEF BankInv
<1> QED
  BY <1>1, <1>8, <1>9, <1>10, <1>11 DEF BankInv

LEMMA BankNext ==
  ASSUME ToolsAssumption, BankInv, Bank!Next
  PROVE  BankInv'
<1>1. CASE \E p \in Bank!Proc, units \in [Bank!Res -> 0 .. MaxRequest] : Bank!Trial(p, units)
  BY <1>1, BankTrial
<1>2. CASE Bank!Commit
  BY <1>2, BankCommit
<1>3. CASE Bank!Rollback
  BY <1>3, BankRollback
<1> QED
  BY <1>1, <1>2, <1>3 DEF Bank!Next

\* The properties in terms of the sums.
LEMMA BankConsistent ==
  ASSUME ToolsAssumption, BankInv
  PROVE  Bank!TablesConsistent
<1>1. \A r \in Bank!Res :
        current_avail[r] + Bank!Held(alloc_table, Bank!Proc)[r]
          = Available[r] + Bank!Held(Allocation, Bank!Proc)[r]
  BY HeldByIsSum DEF BankInv
<1>2. Bank!Plus(current_avail, Bank!Held(alloc_table, Bank!Proc))
        = Bank!Plus(Available, Bank!Held(Allocation, Bank!Proc))
  BY <1>1 DEF Bank!Plus
<1>3. Bank!AtMost(Bank!Nothing, current_avail)
  BY DEF BankInv, BankTyped, Pool, Bank!AtMost, Bank!Nothing
<1>4. \A p \in Bank!Proc : Bank!AtMost(alloc_table[p], Demand[p])
  BY DEF BankInv, Bank!AtMost
<1> QED
  BY <1>2, <1>3, <1>4 DEF Bank!TablesConsistent

LEMMA UnsafeMeans ==
  Bank!Unsafe <=> UnsafeTables(alloc_table, current_avail)
<1>1. ASSUME NEW D, NEW p
      PROVE  ~Bank!AtMost(Bank!Need(alloc_table, p),
                          Bank!Plus(current_avail, Bank!Held(alloc_table, Bank!Proc \ D)))
             <=> \E r \in Bank!Res :
                   ~(Demand[p][r] - alloc_table[p][r]
                       <= current_avail[r] + Sum(Column(alloc_table, r), Bank!Proc \ D))
  BY HeldByIsSum DEF Bank!AtMost, Bank!Need, Bank!Minus, Bank!Plus
<1> QED
  BY <1>1 DEF Bank!Unsafe, UnsafeTables

LEMMA BankSafe ==
  ASSUME ToolsAssumption, BankInv
  PROVE  Bank!AlwaysSafe
<1> SUFFICES ASSUME trial = Bank!NoTrial PROVE ~Bank!Unsafe
  BY DEF Bank!AlwaysSafe
<1>1. Bank!CheckSafeState(alloc_table, current_avail)
  BY DEF BankInv, Settled, SettledPool
<1>2. alloc_table \in Tables /\ current_avail \in Pool
  BY DEF BankInv, BankTyped
<1> QED
  BY <1>1, <1>2, SafetyTest, UnsafeMeans

LEMMA BankTestExact ==
  ASSUME ToolsAssumption, BankInv
  PROVE  Bank!SafetyAlgorithmCorrect
<1> DEFINE order == Bank!SafeOrder(alloc_table, current_avail)
           before(k) == {order[j] : j \in 1 .. k - 1}
<1>1. alloc_table \in Tables /\ current_avail \in Pool
  BY DEF BankInv, BankTyped
<1>2. Bank!CheckSafeState(alloc_table, current_avail) <=> ~Bank!Unsafe
  BY <1>1, SafetyTest, UnsafeMeans
<1>3. PICK t : OrderInv(alloc_table, current_avail, t) /\ t.order = order
  BY <1>1, SafetyTest
<1> HIDE DEF order
<1>4. order \in Seq(Bank!Proc) /\ DOMAIN order = 1 .. Len(order) /\ Len(order) \in Nat
  BY <1>3, LenProperties DEF OrderInv
<1>5. ASSUME NEW k \in DOMAIN order
      PROVE  order[k] \notin before(k)
  <2>1. \A j \in 1 .. k - 1 : j \in 1 .. Len(order) /\ j # k
    BY <1>4
  <2> QED
    BY <1>3, <1>4, <2>1 DEF OrderInv
<1>6. ASSUME NEW k \in DOMAIN order
      PROVE  Bank!AtMost(Bank!Need(alloc_table, order[k]),
                         Bank!Plus(current_avail, Bank!Held(alloc_table, before(k))))
  <2>1. before(k) = Before(order, k)
    BY DEF Before
  <2>2. \A r \in Bank!Res :
          Demand[order[k]][r] - alloc_table[order[k]][r]
            <= current_avail[r] + Bank!Held(alloc_table, before(k))[r]
    <3> TAKE r \in Bank!Res
    <3>1. k \in 1 .. Len(t.order) /\ t.order = order
      BY <1>3, <1>4
    <3>2. Demand[order[k]][r] - alloc_table[order[k]][r]
            <= current_avail[r] + Sum(Column(alloc_table, r), Before(order, k))
      BY <1>3, <3>1 DEF OrderInv
    <3>3. Bank!Held(alloc_table, before(k))[r] = Sum(Column(alloc_table, r), Before(order, k))
      BY <2>1, HeldByIsSum
    <3> QED
      BY <3>2, <3>3
  <2> HIDE DEF before
  <2> QED
    BY <2>2 DEF Bank!AtMost, Bank!Need, Bank!Minus, Bank!Plus
<1> QED
  BY <1>2, <1>5, <1>6 DEF Bank!SafetyAlgorithmCorrect, order

\* The answer that banker_request gives to a request that is on trial.
LEMMA AnswerOnTrial ==
  ASSUME ToolsAssumption, BankInv, trial # Bank!NoTrial
  PROVE  LET before == [alloc_table EXCEPT ![trial.by] = Bank!Minus(@, trial.units)]
             pool == Bank!Plus(current_avail, trial.units)
         IN Bank!BankerRequest(before, pool, trial.by, trial.units)
              <=> Bank!CheckSafeState(alloc_table, current_avail)
<1> DEFINE p == trial.by
           units == trial.units
           before == [alloc_table EXCEPT ![p] = Bank!Minus(@, units)]
           pool == Bank!Plus(current_avail, units)
<1>0. /\ alloc_table \in Tables /\ current_avail \in Pool /\ Demand \in Tables
      /\ p \in Bank!Proc /\ units \in Pool
  BY TrialIsTyped DEF BankInv, BankTyped, ToolsAssumption, Tables
<1>1. \A r \in Bank!Res : /\ units[r] \in Nat /\ current_avail[r] \in Nat
                          /\ alloc_table[p][r] \in Nat /\ Demand[p][r] \in Nat
                          /\ units[r] <= alloc_table[p][r]
                          /\ alloc_table[p][r] <= Demand[p][r]
  BY <1>0 DEF BankInv, Tables, Pool
<1> HIDE DEF p, units
<1>2. before[p] = [r \in Bank!Res |-> alloc_table[p][r] - units[r]]
      /\ pool = [r \in Bank!Res |-> current_avail[r] + units[r]]
  BY <1>0 DEF Bank!Minus, Bank!Plus, Tables
<1>3. Bank!AtMost(units, Bank!Need(before, p))
  <2>1. \A r \in Bank!Res : units[r] <= Demand[p][r] - (alloc_table[p][r] - units[r])
    BY <1>1
  <2> HIDE DEF before
  <2> QED
    BY <1>2, <2>1 DEF Bank!AtMost, Bank!Need, Bank!Minus
<1>4. Bank!AtMost(units, pool)
  <2>1. \A r \in Bank!Res : units[r] <= current_avail[r] + units[r]
    BY <1>1
  <2> HIDE DEF pool
  <2> QED
    BY <1>2, <2>1 DEF Bank!AtMost
<1>5. [before EXCEPT ![p] = Bank!Plus(@, units)] = alloc_table
  <2>1. Bank!Plus(before[p], units) = alloc_table[p]
    <3>1. \A r \in Bank!Res : (alloc_table[p][r] - units[r]) + units[r] = alloc_table[p][r]
      BY <1>1
    <3>2. alloc_table[p] = [r \in Bank!Res |-> alloc_table[p][r]]
      BY <1>0 DEF Tables
    <3>3. Bank!Plus(before[p], units)
            = [r \in Bank!Res |-> (alloc_table[p][r] - units[r]) + units[r]]
      <4> HIDE DEF before
      <4> QED
        BY <1>2 DEF Bank!Plus
    <3> QED
      BY <3>1, <3>2, <3>3
  <2>2. [before EXCEPT ![p] = Bank!Plus(before[p], units)] = alloc_table
    BY <1>0, <2>1 DEF Tables
  <2> QED
    BY <2>2
<1>6. Bank!Minus(pool, units) = current_avail
  <2>1. \A r \in Bank!Res : (current_avail[r] + units[r]) - units[r] = current_avail[r]
    BY <1>1
  <2>2. current_avail = [r \in Bank!Res |-> current_avail[r]]
    BY <1>0 DEF Pool
  <2> HIDE DEF pool
  <2> QED
    BY <1>2, <2>1, <2>2 DEF Bank!Minus
<1>7. Bank!BankerRequest(before, pool, p, units)
        <=> Bank!CheckSafeState(alloc_table, current_avail)
  <2> HIDE DEF before, pool
  <2> QED
    BY <1>3, <1>4, <1>5, <1>6 DEF Bank!BankerRequest
<1> QED
  BY <1>7 DEF p, units

LEMMA BankDecides ==
  ASSUME ToolsAssumption, BankInv, Bank!Next, trial # Bank!NoTrial, trial' = Bank!NoTrial
  PROVE  LET before == [alloc_table EXCEPT ![trial.by] = Bank!Minus(@, trial.units)]
             pool == Bank!Plus(current_avail, trial.units)
         IN IF Bank!BankerRequest(before, pool, trial.by, trial.units)
              THEN alloc_table' = alloc_table /\ current_avail' = current_avail
              ELSE alloc_table' = before /\ current_avail' = pool
<1>1. CASE Bank!Commit
  BY <1>1, AnswerOnTrial DEF Bank!Commit
<1>2. CASE Bank!Rollback
  BY <1>2, AnswerOnTrial DEF Bank!Rollback
<1>3. ASSUME NEW p \in Bank!Proc, NEW units \in [Bank!Res -> 0 .. MaxRequest],
             Bank!Trial(p, units)
      PROVE  FALSE
  BY <1>3 DEF Bank!Trial
<1> QED
  BY <1>1, <1>2, <1>3 DEF Bank!Next

-------------------------------------------------------------------------------
(***************************************************************************)
(* The programs together                                                   *)
(***************************************************************************)
ToolsInv ==
  /\ BankInv
  /\ tool = "detect" => DetectInv
  /\ tool = "graph" => GraphInv

LEMMA ToolsInit ==
  ASSUME ToolsAssumption, SafeStartAssumption, Init
  PROVE  ToolsInv
<1>1. BankInv
  BY BankInit DEF Init
<1>2. tool = "detect" => DetectInv
  BY DetectInit DEF Init
<1>3. tool = "graph" => GraphInv
  BY GraphInit DEF Init, ToolsAssumption
<1> QED
  BY <1>1, <1>2, <1>3 DEF ToolsInv

LEMMA BankStays ==
  ASSUME BankInv, UNCHANGED bankVars
  PROVE  BankInv'
<1>1. alloc_table' = alloc_table /\ current_avail' = current_avail /\ trial' = trial
  BY DEF bankVars
<1>2. Settled' = Settled /\ SettledPool' = SettledPool
  BY <1>1 DEF Settled, SettledPool
<1>3. Bank!CheckSafeState(Settled, SettledPool)'
  BY <1>2 DEF BankInv
<1> QED
  BY <1>1, <1>3 DEF BankInv, BankTyped

LEMMA DetectStays ==
  ASSUME DetectInv, UNCHANGED detectVars
  PROVE  DetectInv'
<1>1. /\ allocation' = allocation /\ request' = request /\ available' = available
      /\ finished' = finished /\ work' = work /\ at' = at /\ progress' = progress
      /\ verdict' = verdict
  BY DEF detectVars
<1>2. /\ \A r : Holding(r)' = Holding(r)
      /\ Detect!Holders' = Detect!Holders
      /\ \A p : Detect!Fits(p)' <=> Detect!Fits(p)
      /\ \A D : Detect!IsDeadlocked(D)' <=> Detect!IsDeadlocked(D)
  BY <1>1, DeadlockedStays DEF Holding, Detect!Holders, Detect!Fits
<1> QED
  BY <1>1, <1>2 DEF DetectInv

LEMMA GraphStays ==
  ASSUME GraphInv, UNCHANGED graphVars
  PROVE  GraphInv'
<1>1. /\ owner' = owner /\ pending' = pending /\ visited' = visited /\ trace' = trace
      /\ cursor' = cursor /\ root' = root /\ deadlock_loop' = deadlock_loop /\ Top' = Top
  BY DEF graphVars, Top
<1>2. Adj' = Adj
  BY <1>1, AdjStays
<1>3. GraphTyped'
  BY <1>1 DEF GraphInv, GraphTyped
<1>4. TraceIsPath' /\ BehindIsBlack'
  BY <1>1, <1>2 DEF GraphInv, TraceIsPath, BehindIsBlack
<1>5. BlackIsDone'
  BY <1>1, <1>2 DEF GraphInv, BlackIsDone
<1>6. Graph!Found' => Graph!LoopIsCycle' /\ Graph!CircularWait'
  BY <1>1 DEF GraphInv, Graph!Found, Graph!LoopIsCycle, Graph!CircularWait, Graph!Last
<1> QED
  BY <1>3, <1>4, <1>5, <1>6 DEF GraphInv

LEMMA GraphNext ==
  ASSUME NUM_TASKS \in Nat, GraphInv, Graph!Next
  PROVE  GraphInv'
BY GraphNextRoot, GraphRecurse, GraphSkip, GraphReport, GraphReturn DEF Graph!Next

LEMMA DetectNext ==
  ASSUME ToolsAssumption, DetectInv, Detect!Next
  PROVE  DetectInv'
BY DetectFinish, DetectLoops DEF Detect!Next

LEMMA ToolsNext ==
  ASSUME ToolsAssumption, ToolsInv, [Next]_vars
  PROVE  ToolsInv'
<1>1. CASE RunBankers
  <2>1. BankInv'
    BY <1>1, BankNext DEF RunBankers, ToolsInv
  <2> QED
    BY <1>1, <2>1 DEF RunBankers, ToolsInv
<1>2. CASE RunDetect
  <2>1. BankInv'
    BY <1>2, BankStays DEF RunDetect, ToolsInv
  <2>2. DetectInv'
    BY <1>2, DetectNext DEF RunDetect, ToolsInv
  <2> QED
    BY <1>2, <2>1, <2>2 DEF RunDetect, ToolsInv
<1>3. CASE RunGraph
  <2>1. BankInv'
    BY <1>3, BankStays DEF RunGraph, ToolsInv
  <2>2. GraphInv'
    BY <1>3, GraphNext DEF RunGraph, ToolsInv, ToolsAssumption
  <2> QED
    BY <1>3, <2>1, <2>2 DEF RunGraph, ToolsInv
<1>4. CASE UNCHANGED vars
  <2>1. tool' = tool /\ UNCHANGED bankVars /\ UNCHANGED detectVars /\ UNCHANGED graphVars
    BY <1>4 DEF vars
  <2> QED
    BY <2>1, BankStays, DetectStays, GraphStays DEF ToolsInv
<1> QED
  BY <1>1, <1>2, <1>3, <1>4 DEF Next

\* The inductive invariant of the deadlock tools, for tables of every size.
THEOREM ToolsInvariant == Spec => []ToolsInv
<1>1. Init => ToolsInv
  BY ToolsInit, ToolsAssumption, SafeStartAssumption
<1>2. ToolsInv /\ [Next]_vars => ToolsInv'
  BY ToolsNext, ToolsAssumption
<1> QED
  BY <1>1, <1>2, PTL DEF Spec

\* bankers.c loses and invents no unit, gives nobody more than it declared and
\* never has a negative pool.
THEOREM BankersTablesConsistent == Spec => []TablesConsistent
<1>1. ToolsInv => TablesConsistent
  BY BankConsistent, ToolsAssumption DEF ToolsInv, TablesConsistent
<1> QED
  BY <1>1, ToolsInvariant, PTL

\* From a state that the safety algorithm accepts, the banker of Assignment 6
\* stays in states in which all processes can finish.
THEOREM BankersStaySafe == Spec => []AlwaysSafe
<1>1. ToolsInv => AlwaysSafe
  BY BankSafe, ToolsAssumption DEF ToolsInv, AlwaysSafe
<1> QED
  BY <1>1, ToolsInvariant, PTL

\* check_safe_state accepts exactly the safe states, and the order it prints is
\* one in which everybody can finish.
THEOREM SafetyTestIsExact == Spec => []SafetyAlgorithmCorrect
<1>1. ToolsInv => SafetyAlgorithmCorrect
  BY BankTestExact, ToolsAssumption DEF ToolsInv, SafetyAlgorithmCorrect
<1> QED
  BY <1>1, ToolsInvariant, PTL

\* detect_deadlock reports exactly the deadlocked processes, and the search of
\* deadlockdetect.c finds a cycle exactly when there is one, and prints one.
THEOREM SearchesAreRight == Spec => []VerdictsCorrect
<1>1. ToolsInv => VerdictsCorrect
  BY DetectVerdict, GraphVerdict, ToolsAssumption DEF ToolsInv, VerdictsCorrect, ToolsAssumption
<1> QED
  BY <1>1, ToolsInvariant, PTL

\* The trial of bankers.c is committed or undone as banker_request of deadlock.c
\* would have answered.
THEOREM BankersAgree == Spec => DecisionsAgree
<1> DEFINE Decision ==
      trial # Bank!NoTrial /\ trial' = Bank!NoTrial =>
        LET before == [alloc_table EXCEPT ![trial.by] = Bank!Minus(@, trial.units)]
            pool == Bank!Plus(current_avail, trial.units)
        IN IF Bank!BankerRequest(before, pool, trial.by, trial.units)
             THEN alloc_table' = alloc_table /\ current_avail' = current_avail
             ELSE alloc_table' = before /\ current_avail' = pool
<1>1. ToolsInv /\ [Next]_vars => [Decision]_(Bank!vars)
  <2> SUFFICES ASSUME ToolsInv, [Next]_vars PROVE [Decision]_(Bank!vars)
    OBVIOUS
  <2>1. CASE RunBankers
    <3>1. trial # Bank!NoTrial /\ trial' = Bank!NoTrial => Decision
      BY <2>1, BankDecides, ToolsAssumption DEF RunBankers, ToolsInv
    <3> QED
      BY <3>1
  <2>2. CASE RunDetect \/ RunGraph \/ UNCHANGED vars
    BY <2>2 DEF RunDetect, RunGraph, vars, bankVars, Bank!vars
  <2> QED
    BY <2>1, <2>2 DEF Next
<1> QED
  BY <1>1, ToolsInvariant, PTL DEF Spec, DecisionsAgree, Bank!DecisionsAgree
===============================================================================
