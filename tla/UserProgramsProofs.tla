-------------------------- MODULE UserProgramsProofs --------------------------
(***************************************************************************)
(* For all numbers of processes, slots, items, readers, writers,           *)
(* philosophers and rounds: the safety properties of the user programs,    *)
(* and that the circular buffer implements Channel.  Each program has its  *)
(* inductive invariant; the step of every other program leaves it alone.   *)
(***************************************************************************)
EXTENDS UserPrograms, TLAPS, FiniteSetTheorems, SequenceTheorems,
        WellFoundedInduction

\* A nonempty set of natural numbers with a bound has a highest member.
LEMMA HighestExists ==
  ASSUME NEW S \in SUBSET Nat, S # {}, NEW b \in Nat, \A s \in S : s <= b
  PROVE  \E m \in S : \A s \in S : s <= m
<1> DEFINE Bounds == {n \in Nat : \A s \in S : s <= n}
<1>1. PICK m \in Bounds : \A n \in Bounds : <<n, m>> \notin OpToRel(<, Nat)
  BY NatLessThanWellFounded, WFMin
<1>2. \A n \in Bounds : ~(n < m)
  BY <1>1 DEF OpToRel
<1>3. ASSUME m \notin S
      PROVE  FALSE
  <2>1. PICK s \in S : s \in Nat /\ s <= m
    OBVIOUS
  <2>2. m - 1 \in Nat /\ \A t \in S : t <= m - 1
    BY <1>3, <2>1
  <2> QED
    BY <1>2, <2>2
<1> QED
  BY <1>3

-------------------------------------------------------------------------------
(***************************************************************************)
(* Ordered acquisition: dining, fixed, sync                                *)
(***************************************************************************)

\* Every table of needs asks for the lower resource first, and every resource
\* has at least one instance.
LEMMA NeedsAscend ==
  ASSUME NEW g \in Ordered
  PROVE  /\ DOMAIN Needs[g] \subseteq Process /\ IsFiniteSet(DOMAIN Needs[g])
         /\ DOMAIN Capacity[g] \subseteq Sem
         /\ DOMAIN Capacity[g] \subseteq 0 .. NUM_PHIL + 2
         /\ \A w \in DOMAIN Needs[g] : /\ Needs[g][w][1] \in DOMAIN Capacity[g]
                                       /\ Needs[g][w][2] \in DOMAIN Capacity[g]
                                       /\ Needs[g][w][1] < Needs[g][w][2]
         /\ \A s \in DOMAIN Capacity[g] : Capacity[g][s] \in Nat \ {0}
<1> USE ProgramsAssumption DEF Needs, Capacity
<1>1. CASE g = "dining"
  <2>1. /\ DOMAIN DiningNeeds = 0 .. NUM_PHIL - 1
        /\ DOMAIN DiningCapacity = 0 .. NUM_PHIL - 1
        /\ \A s \in 0 .. NUM_PHIL - 1 : DiningCapacity[s] = 1
    BY DEF DiningNeeds, DiningCapacity
  <2>2. IsFiniteSet(0 .. NUM_PHIL - 1)
    BY FS_Interval
  <2>3. ASSUME NEW w \in 0 .. NUM_PHIL - 1
        PROVE  /\ DiningNeeds[w][1] \in 0 .. NUM_PHIL - 1
               /\ DiningNeeds[w][2] \in 0 .. NUM_PHIL - 1
               /\ DiningNeeds[w][1] < DiningNeeds[w][2]
    <3>1. Right(w) \in 0 .. NUM_PHIL - 1 /\ Right(w) # w
      <4>1. CASE w = NUM_PHIL - 1
        BY <4>1 DEF Right
      <4>2. CASE w # NUM_PHIL - 1
        <5>1. w + 1 \in 0 .. NUM_PHIL - 1
          BY <4>2
        <5> QED
          BY <5>1 DEF Right
      <4> QED
        BY <4>1, <4>2
    <3>2. DiningNeeds[w] = IF w < Right(w) THEN <<w, Right(w)>> ELSE <<Right(w), w>>
      BY DEF DiningNeeds
    <3> HIDE DEF Right
    <3> QED
      BY <3>1, <3>2
  <2> QED
    BY <1>1, <2>1, <2>2, <2>3
<1>2. CASE g = "fixed"
  <2>1. IsFiniteSet(0 .. 1)
    BY FS_Interval, 0 \in Int, 1 \in Int
  <2> QED
    BY <1>2, <2>1 DEF FixedNeeds, FixedCapacity
<1>3. CASE g = "sync"
  <2>1. IsFiniteSet(0 .. 4)
    BY FS_Interval, 0 \in Int, 4 \in Int
  <2>2. \A w \in 0 .. 4 : \/ SyncNeeds[w] = <<0, 1>>
                          \/ SyncNeeds[w] = <<0, 2>>
                          \/ SyncNeeds[w] = <<1, 2>>
    BY DEF SyncNeeds
  <2>3. DOMAIN SyncNeeds = 0 .. 4 /\ DOMAIN SyncCapacity = 0 .. 2
    BY DEF SyncNeeds, SyncCapacity
  <2>4. \A s \in 0 .. 2 : SyncCapacity[s] \in {1, 2}
    BY DEF SyncCapacity
  <2> QED
    BY <1>3, <2>1, <2>2, <2>3, <2>4
<1> QED
  BY <1>1, <1>2, <1>3 DEF Ordered

Holders(s) == {w \in Order!Worker : Order!Holds(w, s)}

\* A worker waits for the resource its statement asks for, and the units of a
\* resource that are not free are with its holders.
OrderInv ==
  /\ pc \in [Process -> {"first", "second", "work", "release", "absent"}]
  /\ waiting \in [Process -> Sem \cup {NoSem}]
  /\ count \in [Sem -> Nat]
  /\ \A w \in Order!Worker :
       \/ waiting[w] = NoSem
       \/ waiting[w] = Order!First(w) /\ pc[w] = "first"
       \/ waiting[w] = Order!Second(w) /\ pc[w] = "second"
  /\ \A s \in Order!Resource :
       count[s] + Cardinality(Holders(s)) = Capacity[program][s]

\* Holding changes the free units by one, and nothing else.
LEMMA HolderJoins ==
  ASSUME OrderInv, program \in Ordered, UNCHANGED program,
         NEW w \in Order!Worker, NEW s \in Order!Resource, ~Order!Holds(w, s),
         Holders(s)' = Holders(s) \cup {w}, count[s] > 0,
         count' = [count EXCEPT ![s] = @ - 1],
         \A t \in Order!Resource \ {s} : Holders(t)' = Holders(t)
  PROVE  /\ count' \in [Sem -> Nat]
         /\ \A t \in Order!Resource' :
              count'[t] + Cardinality(Holders(t)') = Capacity[program'][t]
<1>1. Order!Resource' = Order!Resource /\ Order!Resource \subseteq Sem
  BY NeedsAscend DEF Order!Resource
<1>2. IsFiniteSet(Holders(s)) /\ w \notin Holders(s)
  BY NeedsAscend, FS_Subset DEF Holders, Order!Worker
<1>3. Cardinality(Holders(s)') = Cardinality(Holders(s)) + 1
  BY <1>2, FS_AddElement
<1>4. Cardinality(Holders(s)) \in Nat
  BY <1>2, FS_CardinalityType
<1>5. count' \in [Sem -> Nat]
  BY <1>1 DEF OrderInv
<1>6. ASSUME NEW t \in Order!Resource
      PROVE  count'[t] + Cardinality(Holders(t)') = Capacity[program'][t]
  <2>1. count[t] + Cardinality(Holders(t)) = Capacity[program][t] /\ count[t] \in Nat
    BY <1>1 DEF OrderInv
  <2>2. CASE t = s
    <3>1. count'[s] = count[s] - 1
      BY <1>1 DEF OrderInv
    <3>2. count[s] + Cardinality(Holders(s)) = Capacity[program][s] /\ count[s] \in Nat
      BY <2>1, <2>2
    <3>3. count'[s] + Cardinality(Holders(s)') = Capacity[program][s]
      BY <1>3, <1>4, <3>1, <3>2
    <3> QED
      BY <2>2, <3>3
  <2>3. CASE t # s
    <3>1. count'[t] = count[t] /\ Holders(t)' = Holders(t)
      BY <1>1, <2>3 DEF OrderInv
    <3> QED
      BY <2>1, <3>1
  <2> QED
    BY <2>2, <2>3
<1> QED
  BY <1>1, <1>5, <1>6

\* A post takes the worker from the holders and gives the count back.
LEMMA HolderLeaves ==
  ASSUME OrderInv, program \in Ordered, UNCHANGED program,
         NEW w \in Order!Worker, NEW s \in Order!Resource, Order!Holds(w, s),
         Holders(s)' = Holders(s) \ {w},
         count' = [count EXCEPT ![s] = @ + 1],
         \A t \in Order!Resource \ {s} : Holders(t)' = Holders(t)
  PROVE  /\ count' \in [Sem -> Nat]
         /\ \A t \in Order!Resource' :
              count'[t] + Cardinality(Holders(t)') = Capacity[program'][t]
<1>1. Order!Resource' = Order!Resource /\ Order!Resource \subseteq Sem
  BY NeedsAscend DEF Order!Resource
<1>2. IsFiniteSet(Holders(s)) /\ w \in Holders(s)
  BY NeedsAscend, FS_Subset DEF Holders, Order!Worker
<1>3. Cardinality(Holders(s)') = Cardinality(Holders(s)) - 1
  BY <1>2, FS_RemoveElement
<1>4. Cardinality(Holders(s)) \in Nat
  BY <1>2, FS_CardinalityType
<1>5. count' \in [Sem -> Nat]
  BY <1>1 DEF OrderInv
<1>6. ASSUME NEW t \in Order!Resource
      PROVE  count'[t] + Cardinality(Holders(t)') = Capacity[program'][t]
  <2>1. count[t] + Cardinality(Holders(t)) = Capacity[program][t] /\ count[t] \in Nat
    BY <1>1 DEF OrderInv
  <2>2. CASE t = s
    <3>1. count'[s] = count[s] + 1
      BY <1>1 DEF OrderInv
    <3>2. count[s] + Cardinality(Holders(s)) = Capacity[program][s] /\ count[s] \in Nat
      BY <2>1, <2>2
    <3>3. count'[s] + Cardinality(Holders(s)') = Capacity[program][s]
      BY <1>3, <1>4, <3>1, <3>2
    <3> QED
      BY <2>2, <3>3
  <2>3. CASE t # s
    <3>1. count'[t] = count[t] /\ Holders(t)' = Holders(t)
      BY <1>1, <2>3 DEF OrderInv
    <3> QED
      BY <2>1, <3>1
  <2> QED
    BY <2>2, <2>3
<1> QED
  BY <1>1, <1>5, <1>6

\* No fork and no lock is held at the start.
LEMMA OrderStarts == program \in Ordered /\ Init => OrderInv
<1> SUFFICES ASSUME program \in Ordered, Order!OrderInit
             PROVE  OrderInv
  BY DEF Init, Ordered
<1> USE DEF Order!OrderInit, Order!ClientInit
<1>1. /\ pc \in [Process -> {"first", "second", "work", "release", "absent"}]
      /\ waiting \in [Process -> Sem \cup {NoSem}]
  OBVIOUS
<1>2. \A s \in Order!Resource : s \in Sem /\ Capacity[program][s] \in Nat
  BY NeedsAscend DEF Order!Resource
<1>3. count \in [Sem -> Nat]
  BY <1>2
<1>4. \A w \in Order!Worker : w \in Process /\ waiting[w] = NoSem /\ pc[w] = "first"
  BY NeedsAscend DEF Order!Worker
<1>5. \A s \in Order!Resource : Holders(s) = {}
  BY <1>4 DEF Holders, Order!Holds
<1>6. \A s \in Order!Resource : count[s] + Cardinality(Holders(s)) = Capacity[program][s]
  BY <1>2, <1>5, FS_EmptySet
<1> QED
  BY <1>1, <1>3, <1>4, <1>6 DEF OrderInv

\* Every step keeps counts and holders in balance.
LEMMA OrderStep == OrderInv /\ program \in Ordered /\ [Next]_vars => OrderInv'
<1> SUFFICES ASSUME OrderInv, program \in Ordered, [Next]_vars
             PROVE  OrderInv'
  OBVIOUS
<1> USE DEF vars, semVars
<1>1. CASE UNCHANGED vars
  BY <1>1 DEF OrderInv, Order!Worker, Order!Resource, Order!First, Order!Second,
              Holders, Order!Holds
<1>2. ASSUME NEW w \in Process, Order!Run(w), UNCHANGED program
      PROVE  OrderInv'
  <2>1. PICK f, g : f = Order!First(w) /\ g = Order!Second(w)
    OBVIOUS
  <2>2. /\ w \in Order!Worker /\ Order!Worker' = Order!Worker
        /\ Order!Worker \subseteq Process /\ Order!Resource' = Order!Resource
    BY <1>2, NeedsAscend DEF Order!Run, Order!Worker, Order!Resource
  <2>3. f \in Order!Resource /\ g \in Order!Resource /\ f # g
    BY <2>1, <2>2, NeedsAscend, ProgramsAssumption
    DEF Order!Worker, Order!Resource, Order!First, Order!Second
  <2>4. \A v : Order!First(v)' = Order!First(v) /\ Order!Second(v)' = Order!Second(v)
    BY <1>2 DEF Order!First, Order!Second
  <2> USE DEF OrderInv, Order!Goto
  <2>5. ASSUME NEW l \in {"first", "second"}, NEW s \in Sem, Order!Call(w, l, s),
               s = IF l = "first" THEN f ELSE g
        PROVE  OrderInv'
    <3> USE <2>5 DEF Order!Call, Order!Arrive
    <3>1. \A t : Holders(t)' = Holders(t)
      BY <1>2, <2>2, <2>4 DEF Holders, Order!Holds
    <3>2. \A v \in Order!Worker :
            \/ waiting'[v] = NoSem
            \/ waiting'[v] = Order!First(v) /\ pc'[v] = "first"
            \/ waiting'[v] = Order!Second(v) /\ pc'[v] = "second"
      BY <2>1, <2>2
    <3> QED
      BY <1>2, <2>2, <2>4, <3>1, <3>2
  <2>6. CASE Order!Granted(w, "first", f, "second")
    <3> USE <2>6 DEF Order!Granted, Order!Take, Order!Leave
    <3>1. pc[w] = "first" /\ pc' = [pc EXCEPT ![w] = "second"]
      OBVIOUS
    <3>2. ~Order!Holds(w, f) /\ Holders(f)' = Holders(f) \cup {w}
      BY <1>2, <2>1, <2>2, <2>3, <2>4, <3>1 DEF Holders, Order!Holds
    <3>3. \A t \in Order!Resource \ {f} : Holders(t)' = Holders(t)
      BY <1>2, <2>1, <2>2, <2>4, <3>1 DEF Holders, Order!Holds
    <3>4. /\ count' \in [Sem -> Nat]
          /\ \A t \in Order!Resource' :
               count'[t] + Cardinality(Holders(t)') = Capacity[program'][t]
      <4>1. count[f] > 0 /\ count' = [count EXCEPT ![f] = @ - 1]
        BY <2>1
      <4> HIDE DEF OrderInv, Order!Granted, Order!Take, Order!Leave, Order!Up,
                   Order!Post, Order!ReleaseFirst, Order!ReleaseSecond
      <4> QED
        BY <1>2, <2>2, <2>3, <3>2, <3>3, <4>1, HolderJoins
    <3> QED
      BY <1>2, <2>1, <2>2, <2>4, <3>1, <3>4
  <2>7. CASE Order!Granted(w, "second", g, "work")
    <3> USE <2>7 DEF Order!Granted, Order!Take, Order!Leave
    <3>1. pc[w] = "second" /\ pc' = [pc EXCEPT ![w] = "work"]
      OBVIOUS
    <3>2. ~Order!Holds(w, g) /\ Holders(g)' = Holders(g) \cup {w}
      BY <1>2, <2>1, <2>2, <2>3, <2>4, <3>1 DEF Holders, Order!Holds
    <3>3. \A t \in Order!Resource \ {g} : Holders(t)' = Holders(t)
      BY <1>2, <2>1, <2>2, <2>4, <3>1 DEF Holders, Order!Holds
    <3>4. /\ count' \in [Sem -> Nat]
          /\ \A t \in Order!Resource' :
               count'[t] + Cardinality(Holders(t)') = Capacity[program'][t]
      <4>1. count[g] > 0 /\ count' = [count EXCEPT ![g] = @ - 1]
        BY <2>1
      <4> HIDE DEF OrderInv, Order!Granted, Order!Take, Order!Leave, Order!Up,
                   Order!Post, Order!ReleaseFirst, Order!ReleaseSecond
      <4> QED
        BY <1>2, <2>2, <2>3, <3>2, <3>3, <4>1, HolderJoins
    <3> QED
      BY <1>2, <2>1, <2>2, <2>4, <3>1, <3>4
  <2>8. CASE Order!ReleaseSecond(w)
    <3> USE <2>8 DEF Order!ReleaseSecond, Order!Up, Order!Post
    <3>1. pc[w] = "work" /\ pc' = [pc EXCEPT ![w] = "release"]
      OBVIOUS
    <3>2. Order!Holds(w, g) /\ Holders(g)' = Holders(g) \ {w}
      BY <1>2, <2>1, <2>2, <2>3, <2>4, <3>1 DEF Holders, Order!Holds
    <3>3. \A t \in Order!Resource \ {g} : Holders(t)' = Holders(t)
      BY <1>2, <2>1, <2>2, <2>4, <3>1 DEF Holders, Order!Holds
    <3>4. /\ count' \in [Sem -> Nat]
          /\ \A t \in Order!Resource' :
               count'[t] + Cardinality(Holders(t)') = Capacity[program'][t]
      <4>1. count' = [count EXCEPT ![g] = @ + 1]
        BY <2>1
      <4> HIDE DEF OrderInv, Order!Granted, Order!Take, Order!Leave, Order!Up,
                   Order!Post, Order!ReleaseFirst, Order!ReleaseSecond
      <4> QED
        BY <1>2, <2>2, <2>3, <3>2, <3>3, <4>1, HolderLeaves
    <3> QED
      BY <1>2, <2>1, <2>2, <2>4, <3>1, <3>4
  <2>9. CASE Order!ReleaseFirst(w)
    <3> USE <2>9 DEF Order!ReleaseFirst, Order!Up, Order!Post
    <3>1. pc[w] = "release" /\ pc' = [pc EXCEPT ![w] = "first"]
      OBVIOUS
    <3>2. Order!Holds(w, f) /\ Holders(f)' = Holders(f) \ {w}
      BY <1>2, <2>1, <2>2, <2>3, <2>4, <3>1 DEF Holders, Order!Holds
    <3>3. \A t \in Order!Resource \ {f} : Holders(t)' = Holders(t)
      BY <1>2, <2>1, <2>2, <2>4, <3>1 DEF Holders, Order!Holds
    <3>4. /\ count' \in [Sem -> Nat]
          /\ \A t \in Order!Resource' :
               count'[t] + Cardinality(Holders(t)') = Capacity[program'][t]
      <4>1. count' = [count EXCEPT ![f] = @ + 1]
        BY <2>1
      <4> HIDE DEF OrderInv, Order!Granted, Order!Take, Order!Leave, Order!Up,
                   Order!Post, Order!ReleaseFirst, Order!ReleaseSecond
      <4> QED
        BY <1>2, <2>2, <2>3, <3>2, <3>3, <4>1, HolderLeaves
    <3> QED
      BY <1>2, <2>1, <2>2, <2>4, <3>1, <3>4
  <2>10. Order!Resource \subseteq Sem
    BY NeedsAscend DEF Order!Resource
  <2>11. CASE Order!RequestFirst(w)
    BY <2>1, <2>3, <2>5, <2>6, <2>10, <2>11 DEF Order!RequestFirst, Order!Down
  <2>12. CASE Order!RequestSecond(w)
    BY <2>1, <2>3, <2>5, <2>7, <2>10, <2>12 DEF Order!RequestSecond, Order!Down
  <2> QED
    BY <1>2, <2>8, <2>9, <2>11, <2>12 DEF Order!Run
<1> QED
  BY <1>1, <1>2 DEF Next, Run, Commit, Ordered

\* The waiter of the highest resource that somebody in D waits for: its holder
\* is not in D.
LEMMA OrderSafe == OrderInv /\ program \in Ordered => Order!NoCircularWait
<1> SUFFICES ASSUME OrderInv, program \in Ordered,
                    NEW D \in SUBSET Order!Worker, D # {}
             PROVE  \E w \in D : \A s \in Order!Resource :
                      Order!WaitsFor(w, s) => \E v \in Order!Worker \ D : Order!Holds(v, s)
  BY DEF Order!NoCircularWait
<1> SUFFICES ASSUME \A w \in D : \E s \in Order!Resource :
                      /\ Order!WaitsFor(w, s)
                      /\ \A v \in Order!Worker \ D : ~Order!Holds(v, s)
             PROVE  FALSE
  OBVIOUS
<1> DEFINE wanted == {waiting[w] : w \in D}
<1>1. \A w \in D : waiting[w] \in Order!Resource
  BY DEF Order!WaitsFor
<1>2. wanted # {} /\ wanted \subseteq Nat
  <2>1. Order!Resource \subseteq Nat
    BY NeedsAscend, ProgramsAssumption DEF Order!Resource
  <2>2. \A w \in D : waiting[w] \in Nat
    BY <1>1, <2>1
  <2>3. PICK w : w \in D
    OBVIOUS
  <2>4. waiting[w] \in wanted
    BY <2>3
  <2> QED
    BY <2>2, <2>4
<1>3. PICK top \in wanted : \A s \in wanted : s <= top
  <2>1. \A s \in wanted : s <= NUM_PHIL + 2
    BY <1>1, NeedsAscend, ProgramsAssumption DEF Order!Resource
  <2>2. PICK S : S = wanted
    OBVIOUS
  <2>3. S \in SUBSET Nat /\ S # {} /\ \A s \in S : s <= NUM_PHIL + 2
    BY <1>2, <2>1, <2>2
  <2>4. NUM_PHIL + 2 \in Nat
    BY ProgramsAssumption
  <2>5. \E m \in S : \A s \in S : s <= m
    BY <2>3, <2>4, HighestExists
  <2> QED
    BY <2>2, <2>5
<1>4. PICK w \in D : waiting[w] = top
  OBVIOUS
<1>5. count[top] = 0 /\ \A v \in Order!Worker \ D : ~Order!Holds(v, top)
  BY <1>4 DEF Order!WaitsFor
<1>6. Holders(top) # {}
  <2>1. /\ count[top] + Cardinality(Holders(top)) = Capacity[program][top]
        /\ Capacity[program][top] \in Nat \ {0}
    BY <1>1, <1>4, NeedsAscend DEF OrderInv, Order!Resource
  <2> QED
    <3>1. ASSUME Holders(top) = {}
          PROVE  Cardinality(Holders(top)) = 0
      BY <3>1, FS_EmptySet
    <3> QED
      BY <1>5, <2>1, <3>1
<1>7. PICK v \in D : Order!Holds(v, top)
  BY <1>5, <1>6 DEF Holders
<1>8. /\ waiting[v] # NoSem
      /\ pc[v] = "second" /\ waiting[v] = Order!Second(v) /\ top = Order!First(v)
  <2>1. waiting[v] # NoSem
    BY <1>2 DEF NoSem
  <2> QED
    BY <1>7, <2>1 DEF OrderInv, Order!Holds
<1>9. waiting[v] > top
  BY <1>2, <1>8, NeedsAscend DEF Order!First, Order!Second, Order!Worker
<1>10. waiting[v] \in wanted
  OBVIOUS
<1>11. top \in Nat /\ waiting[v] \in Nat /\ waiting[v] <= top
  BY <1>2, <1>3, <1>10
<1> QED
  BY <1>9, <1>11

-------------------------------------------------------------------------------
(***************************************************************************)
(* The circular buffer: prodcons                                           *)
(***************************************************************************)
Bit(b) == IF b THEN 1 ELSE 0

Stock == produced - consumed

\* The mutex is free or with one side; a unit of FULL is an item nobody has
\* taken, one of EMPTY a slot that nobody has claimed.
BufferTokens ==
  /\ pc \in [Process -> {"empty", "full", "lock", "write", "read", "advance", "unlock",
                          "post", "done", "absent"}]
  /\ pc[0] \in {"empty", "lock", "write", "advance", "unlock", "post", "done"}
  /\ pc[1] \in {"full", "lock", "read", "advance", "unlock", "post", "done"}
  /\ count \in [Sem -> Nat]
  /\ produced \in Nat /\ consumed \in Nat
  /\ count[0] + Bit(pc[0] \in {"write", "advance", "unlock"})
              + Bit(pc[1] \in {"read", "advance", "unlock"}) = 1
  /\ count[1] = BUF_SIZE - Stock - Bit(pc[0] \in {"lock", "write"})
                 - Bit(pc[1] \in {"advance", "unlock", "post"})
  /\ count[2] = Stock - Bit(pc[0] \in {"advance", "unlock", "post"})
                 - Bit(pc[1] \in {"lock", "read"})
  /\ pc[0] \in {"lock", "write"} => produced < ITEMS

\* The items in stock are in a row from First on, and `in' is where it ends.
BufferPlace ==
  /\ in \in 0 .. BUF_SIZE - 1 /\ out \in 0 .. BUF_SIZE - 1
  /\ in = (Buffer!First + Stock - Bit(pc[0] = "advance")) % BUF_SIZE
  /\ buf \in [0 .. BUF_SIZE - 1 -> Nat]

StockInOrder ==
  \A k \in 1 .. Stock : buf[(Buffer!First + k - 1) % BUF_SIZE] = consumed + k

BufferInv == BufferTokens /\ BufferPlace

\* The place of an item in the buffer, for numbers up to twice its size.
LEMMA Wrap ==
  \A x \in Nat : x < 2 * BUF_SIZE =>
    x % BUF_SIZE = IF x < BUF_SIZE THEN x ELSE x - BUF_SIZE
BY ProgramsAssumption

\* Slots less than BUF_SIZE apart differ; stepping on and wrapping commute.
LEMMA WrapDiffers ==
  ASSUME NEW i \in Nat, NEW j \in Nat, i < j, j < i + BUF_SIZE, j < 2 * BUF_SIZE
  PROVE  i % BUF_SIZE # j % BUF_SIZE
<1>1. /\ i % BUF_SIZE = IF i < BUF_SIZE THEN i ELSE i - BUF_SIZE
      /\ j % BUF_SIZE = IF j < BUF_SIZE THEN j ELSE j - BUF_SIZE
  BY Wrap, ProgramsAssumption
<1> QED
  BY <1>1, ProgramsAssumption

\* An index that advances by one is that of the next item.
LEMMA WrapSteps ==
  ASSUME NEW i \in Nat, NEW j \in Nat, j = i + 1, j < 2 * BUF_SIZE
  PROVE  /\ ((i % BUF_SIZE) + 1) % BUF_SIZE = j % BUF_SIZE
         /\ i % BUF_SIZE \in 0 .. BUF_SIZE - 1
         /\ j % BUF_SIZE \in 0 .. BUF_SIZE - 1
<1>1. /\ i % BUF_SIZE = IF i < BUF_SIZE THEN i ELSE i - BUF_SIZE
      /\ j % BUF_SIZE = IF j < BUF_SIZE THEN j ELSE j - BUF_SIZE
  BY Wrap, ProgramsAssumption
<1>2. PICK m \in Nat : m = (i % BUF_SIZE) + 1 /\ m <= BUF_SIZE
  BY <1>1, ProgramsAssumption
<1>3. m % BUF_SIZE = IF m < BUF_SIZE THEN m ELSE m - BUF_SIZE
  BY <1>2, Wrap, ProgramsAssumption
<1>4. m % BUF_SIZE = j % BUF_SIZE
  BY <1>1, <1>2, <1>3, ProgramsAssumption
<1> QED
  BY <1>1, <1>2, <1>4, ProgramsAssumption

\* After BUF_SIZE items the same slot comes again.
LEMMA WrapAgain ==
  ASSUME NEW i \in Nat, NEW j \in Nat, i = j + BUF_SIZE, i < 2 * BUF_SIZE
  PROVE  i % BUF_SIZE = j % BUF_SIZE
BY Wrap, ProgramsAssumption

\* A slot or an item is counted by one semaphore or held by one side.
LEMMA TokensStep ==
  ASSUME BufferTokens, NEW p \in Process, Buffer!Run(p)
  PROVE  BufferTokens'
<1> USE ProgramsAssumption
    DEF BufferTokens, Stock, Bit, Buffer!producer, Buffer!consumer, Buffer!MUTEX,
        Buffer!EMPTY, Buffer!FULL, Buffer!Local, Buffer!Down, Buffer!Up, Buffer!Call,
        Buffer!Granted, Buffer!Arrive, Buffer!Take, Buffer!Post, Buffer!Goto,
        Buffer!Leave, Buffer!bufferVars, Buffer!semVars
<1>1. 0 \in Process /\ 1 \in Process /\ 0 \in Sem /\ 1 \in Sem /\ 2 \in Sem
  OBVIOUS
<1>2. CASE Buffer!ProducerWaitsEmpty
  BY <1>1, <1>2 DEF Buffer!ProducerWaitsEmpty
<1>3. CASE Buffer!ProducerLocks
  BY <1>1, <1>3 DEF Buffer!ProducerLocks
<1>4. CASE Buffer!WriteItem
  BY <1>1, <1>4 DEF Buffer!WriteItem
<1>5. CASE Buffer!AdvanceIn
  BY <1>1, <1>5 DEF Buffer!AdvanceIn
<1>6. CASE Buffer!ProducerUnlocks
  BY <1>1, <1>6 DEF Buffer!ProducerUnlocks
<1>7. CASE Buffer!ProducerPostsFull
  BY <1>1, <1>7 DEF Buffer!ProducerPostsFull
<1>8. CASE Buffer!ProducerDone
  BY <1>1, <1>8 DEF Buffer!ProducerDone
<1>9. CASE Buffer!ConsumerWaitsFull
  BY <1>1, <1>9 DEF Buffer!ConsumerWaitsFull
<1>10. CASE Buffer!ConsumerLocks
  BY SMTT(30), <1>1, <1>10 DEF Buffer!ConsumerLocks
<1>11. CASE Buffer!ReadItem
  BY <1>1, <1>11 DEF Buffer!ReadItem
<1>12. CASE Buffer!AdvanceOut
  BY <1>1, <1>12 DEF Buffer!AdvanceOut
<1>13. CASE Buffer!ConsumerUnlocks
  BY <1>1, <1>13 DEF Buffer!ConsumerUnlocks
<1>14. CASE Buffer!ConsumerPostsEmpty
  BY <1>1, <1>14 DEF Buffer!ConsumerPostsEmpty
<1>15. CASE Buffer!ConsumerDone
  BY <1>1, <1>15 DEF Buffer!ConsumerDone
<1> QED
  BY <1>2, <1>3, <1>4, <1>5, <1>6, <1>7, <1>8, <1>9, <1>10, <1>11, <1>12, <1>13,
     <1>14, <1>15 DEF Buffer!Run, Buffer!Producer, Buffer!Consumer

\* Where the stock lies, in linear arithmetic.
LEMMA StockBounds ==
  ASSUME BufferTokens, BufferPlace
  PROVE  /\ Stock \in 0 .. BUF_SIZE
         /\ Buffer!First \in 0 .. BUF_SIZE
         /\ Buffer!First = BUF_SIZE => Stock < BUF_SIZE
         /\ pc[0] = "write" => Stock < BUF_SIZE /\ pc[1] # "advance"
         /\ pc[0] = "advance" => Stock > 0 /\ pc[1] # "advance"
         /\ pc[1] = "read" => Stock > 0 /\ pc[0] # "advance"
         /\ pc[1] = "advance" => Stock < BUF_SIZE /\ pc[0] # "advance"
<1> USE ProgramsAssumption DEF BufferTokens, BufferPlace, Buffer!First, Buffer!consumer, Bit
<1>1. Stock \in Int /\ count[0] \in Nat /\ count[1] \in Nat /\ count[2] \in Nat
  BY DEF Stock
<1>2. Stock >= 0 /\ Stock <= BUF_SIZE
  BY <1>1
<1>3. Buffer!First \in 0 .. BUF_SIZE
  OBVIOUS
<1> QED
  BY <1>1, <1>2, <1>3

\* The slots from out to in hold the items in the order they were made.
LEMMA PlaceStep ==
  ASSUME BufferTokens, BufferPlace, StockInOrder, NEW p \in Process, Buffer!Run(p)
  PROVE  BufferPlace' /\ StockInOrder'
<1> USE ProgramsAssumption DEF Buffer!producer, Buffer!consumer
<1> DEFINE F == Buffer!First
           B == BUF_SIZE
<1>1. /\ BufferTokens' /\ Stock \in 0 .. B /\ F \in 0 .. B
      /\ in \in 0 .. B - 1 /\ out \in 0 .. B - 1 /\ buf \in [0 .. B - 1 -> Nat]
  BY TokensStep, StockBounds DEF BufferPlace
<1>2. CASE Buffer!WriteItem
  <2>1. /\ pc[0] = "write" /\ pc[1] # "advance" /\ pc' = [pc EXCEPT ![0] = "advance"]
        /\ buf' = [buf EXCEPT ![in] = produced + 1] /\ produced' = produced + 1
        /\ UNCHANGED <<in, out, consumed, item>>
    BY <1>2, StockBounds DEF Buffer!WriteItem, Buffer!Local, Buffer!Goto
  <2>2. F = out /\ F' = out /\ Stock' = Stock + 1 /\ Stock < B
    BY <2>1, StockBounds DEF Buffer!First, Stock, BufferTokens
  <2>3. in = (F + Stock) % B
    BY <1>1, <2>1, <2>2 DEF BufferPlace, Bit
  <2>4. BufferPlace'
    <3>1. pc'[0] = "advance" /\ in' = in /\ F' + Stock' - 1 = F + Stock
      BY <1>1, <2>1, <2>2 DEF BufferTokens
    <3>2. in' = (F' + Stock' - Bit(pc'[0] = "advance")) % B
      BY <2>3, <3>1 DEF Bit
    <3>3. buf' \in [0 .. B - 1 -> Nat]
      BY <1>1, <2>1 DEF BufferTokens
    <3> QED
      BY <1>1, <2>1, <3>2, <3>3 DEF BufferPlace
  <2>5. ASSUME NEW k \in 1 .. Stock + 1
        PROVE  buf'[(F' + k - 1) % B] = consumed' + k
    <3>1. PICK i \in Nat, j \in Nat : /\ i = F + k - 1 /\ j = F + Stock
                                    /\ j < 2 * B /\ i <= j /\ j < i + B
      BY <1>1, <2>2, <2>5
    <3>2. j % B = in
      BY <2>3, <3>1
    <3>3. CASE k = Stock + 1
      <4>1. i % B = in
        BY <1>1, <3>1, <3>2, <3>3
      <4>2. produced + 1 = consumed + k
        BY <3>3 DEF BufferTokens, Stock
      <4>3. buf'[i % B] = consumed + k
        BY <1>1, <2>1, <4>1, <4>2
      <4> QED
        BY <2>1, <2>2, <3>1, <4>3
    <3>4. CASE k # Stock + 1
      <4>1. k \in 1 .. Stock
        BY <1>1, <2>5, <3>4
      <4>2. i # j
        BY <1>1, <3>1, <4>1
      <4>3. i % B # in
        BY <3>1, <3>2, <4>2, WrapDiffers
      <4>4. buf[i % B] = consumed + k
        BY <3>1, <4>1 DEF StockInOrder
      <4>5. i % B \in 0 .. B - 1
        OBVIOUS
      <4>6. buf'[i % B] = consumed + k
        BY <1>1, <2>1, <4>3, <4>4, <4>5
      <4> QED
        BY <2>1, <2>2, <3>1, <4>6
    <3> QED
      BY <3>3, <3>4
  <2> QED
    BY <2>2, <2>4, <2>5 DEF StockInOrder
<1>3. CASE Buffer!AdvanceIn
  <2>1. /\ pc[0] = "advance" /\ pc[1] # "advance" /\ pc' = [pc EXCEPT ![0] = "unlock"]
        /\ in' = (in + 1) % B /\ UNCHANGED <<buf, out, produced, consumed, item>>
    BY <1>3, StockBounds DEF Buffer!AdvanceIn, Buffer!Local, Buffer!Goto
  <2>2. F = out /\ F' = out /\ Stock' = Stock /\ Stock > 0 /\ Stock <= B
    BY <1>1, <2>1, StockBounds DEF Buffer!First, Stock, BufferTokens
  <2>3. in = (F + Stock - 1) % B
    BY <1>1, <2>1, <2>2 DEF BufferPlace, Bit
  <2>4. PICK i \in Nat, j \in Nat : /\ i = F + Stock - 1 /\ j = F + Stock
                                  /\ j = i + 1 /\ j < 2 * B
    BY <1>1, <2>2
  <2>5. ((i % B) + 1) % B = j % B /\ j % B \in 0 .. B - 1
    BY <2>4, WrapSteps
  <2>6. in' \in 0 .. B - 1 /\ in' = (F + Stock) % B
    BY <2>1, <2>3, <2>4, <2>5
  <2>7. BufferPlace'
    <3>1. pc'[0] # "advance" /\ F' + Stock' - 0 = F + Stock
      BY <1>1, <2>1, <2>2 DEF BufferTokens
    <3>2. in' = (F' + Stock' - Bit(pc'[0] = "advance")) % B
      BY <2>1, <2>6, <3>1 DEF Bit
    <3> QED
      BY <1>1, <2>1, <2>6, <3>2 DEF BufferPlace
  <2> QED
    BY <2>1, <2>2, <2>7 DEF StockInOrder
<1>4. CASE Buffer!ReadItem
  <2>1. /\ pc[1] = "read" /\ pc[0] # "advance" /\ pc' = [pc EXCEPT ![1] = "advance"]
        /\ consumed' = consumed + 1 /\ UNCHANGED <<buf, in, out, produced>>
    BY <1>4, StockBounds DEF Buffer!ReadItem, Buffer!Local, Buffer!Goto
  <2>2. F = out /\ F' = out + 1 /\ Stock' = Stock - 1 /\ Stock > 0
    BY <1>1, <2>1, StockBounds DEF Buffer!First, Stock, BufferTokens
  <2>3. BufferPlace'
    <3>1. in = (F + Stock) % B
      BY <1>1, <2>1 DEF BufferPlace, Bit
    <3>2. F' + Stock' = F + Stock /\ pc'[0] # "advance"
      BY <1>1, <2>1, <2>2 DEF BufferTokens
    <3> QED
      BY <1>1, <2>1, <2>2, <3>1, <3>2 DEF BufferPlace, Bit
  <2>4. ASSUME NEW k \in 1 .. Stock - 1
        PROVE  buf'[(F' + k - 1) % B] = consumed' + k
    <3>1. k + 1 \in 1 .. Stock /\ F' + k - 1 = F + (k + 1) - 1
      BY <1>1, <2>2, <2>4
    <3>2. buf[(F + (k + 1) - 1) % B] = consumed + (k + 1)
      BY <3>1 DEF StockInOrder
    <3> QED
      BY <2>1, <3>1, <3>2 DEF BufferTokens
  <2> QED
    BY <2>2, <2>3, <2>4 DEF StockInOrder
<1>5. CASE Buffer!AdvanceOut
  <2>1. /\ pc[1] = "advance" /\ pc[0] # "advance" /\ pc' = [pc EXCEPT ![1] = "unlock"]
        /\ out' = (out + 1) % B /\ UNCHANGED <<buf, in, produced, consumed, item>>
    BY <1>5, StockBounds DEF Buffer!AdvanceOut, Buffer!Local, Buffer!Goto
  <2>2. F = out + 1 /\ F' = out' /\ Stock' = Stock /\ Stock < B
    BY <1>1, <2>1, StockBounds DEF Buffer!First, Stock, BufferTokens
  <2>3. out' = IF F < B THEN F ELSE F - B
    <3>1. PICK i \in Nat : i = F /\ i < 2 * B
      BY <1>1
    <3>2. i % B = IF i < B THEN i ELSE i - B
      BY <3>1, Wrap
    <3> QED
      BY <2>1, <2>2, <3>1, <3>2
  <2>4. ASSUME NEW d \in 0 .. Stock
        PROVE  (F + d) % B = (F' + d) % B
    <3>1. CASE F < B
      BY <2>3, <2>2, <3>1
    <3>2. CASE ~(F < B)
      <4>1. PICK i \in Nat, j \in Nat : /\ i = F + d /\ j = F' + d
                                      /\ i = j + B /\ i < 2 * B
        BY <1>1, <2>2, <2>3, <3>2
      <4>2. i % B = j % B
        BY <4>1, WrapAgain
      <4> QED
        BY <4>1, <4>2
    <3> QED
      BY <3>1, <3>2
  <2>5. BufferPlace'
    <3>1. /\ pc'[0] # "advance" /\ F + Stock - 0 = F + Stock
          /\ F' + Stock' - 0 = F' + Stock /\ out' \in 0 .. B - 1
      BY <1>1, <2>1, <2>2, <2>3 DEF BufferTokens
    <3>2. in = (F + Stock) % B
      BY <2>1, <3>1 DEF BufferPlace, Bit
    <3>3. in' = (F' + Stock' - Bit(pc'[0] = "advance")) % B
      BY <1>1, <2>1, <2>4, <3>1, <3>2 DEF Bit
    <3> QED
      BY <1>1, <2>1, <3>1, <3>3 DEF BufferPlace
  <2>6. ASSUME NEW k \in 1 .. Stock
        PROVE  buf'[(F' + k - 1) % B] = consumed' + k
    <3>1. k - 1 \in 0 .. Stock
      BY <1>1
    <3>2. buf[(F + k - 1) % B] = consumed + k
      BY DEF StockInOrder
    <3> QED
      BY <2>1, <2>4, <3>1, <3>2
  <2> QED
    BY <2>2, <2>5, <2>6 DEF StockInOrder
<1>6. CASE /\ UNCHANGED <<buf, in, out, produced, consumed>>
           /\ (pc[0] = "advance") = (pc'[0] = "advance")
           /\ (pc[1] = "advance") = (pc'[1] = "advance")
  <2>1. F' = F /\ Stock' = Stock /\ Bit(pc[0] = "advance")' = Bit(pc[0] = "advance")
    BY <1>6 DEF Buffer!First, Stock, Bit
  <2> QED
    BY <1>6, <2>1 DEF BufferPlace, StockInOrder
<1>7. CASE \/ Buffer!ProducerWaitsEmpty \/ Buffer!ProducerLocks \/ Buffer!ProducerUnlocks
           \/ Buffer!ProducerPostsFull \/ Buffer!ProducerDone
           \/ Buffer!ConsumerWaitsFull \/ Buffer!ConsumerLocks \/ Buffer!ConsumerUnlocks
           \/ Buffer!ConsumerPostsEmpty \/ Buffer!ConsumerDone
  <2>1. /\ UNCHANGED <<buf, in, out, produced, consumed>>
        /\ (pc[0] = "advance") = (pc'[0] = "advance")
        /\ (pc[1] = "advance") = (pc'[1] = "advance")
    BY <1>7
    DEF Buffer!ProducerWaitsEmpty, Buffer!ProducerLocks, Buffer!ProducerUnlocks,
        Buffer!ProducerPostsFull, Buffer!ProducerDone, Buffer!ConsumerWaitsFull,
        Buffer!ConsumerLocks, Buffer!ConsumerUnlocks, Buffer!ConsumerPostsEmpty,
        Buffer!ConsumerDone, Buffer!Local, Buffer!Down, Buffer!Up, Buffer!Call,
        Buffer!Granted, Buffer!Goto, Buffer!bufferVars, BufferTokens
  <2> QED
    BY <1>6, <2>1
<1> QED
  BY <1>2, <1>3, <1>4, <1>5, <1>7 DEF Buffer!Run, Buffer!Producer, Buffer!Consumer

\* Nothing is in the buffer of a program that has none.
BufferPart ==
  /\ program = "prodcons" => BufferTokens /\ BufferPlace
  /\ program # "prodcons" => produced = 0 /\ consumed = 0
  /\ StockInOrder

\* The buffer begins empty.
LEMMA BufferStarts == Init => BufferPart
<1> SUFFICES ASSUME Init
             PROVE  BufferPart
  OBVIOUS
<1> USE ProgramsAssumption DEF Init
<1>1. produced = 0 /\ consumed = 0
  BY DEF NoBuffer, Buffer!BufferInit
<1>2. CASE program = "prodcons"
  <2>1. Buffer!BufferInit
    BY <1>2 DEF Ordered
  <2>2. 0 \in Process /\ 1 \in Process /\ 0 \in Sem /\ 1 \in Sem /\ 2 \in Sem
    OBVIOUS
  <2>3. /\ pc = [p \in Process |-> CASE p = 0 -> "empty" [] p = 1 -> "full"
                                      [] OTHER -> "absent"]
        /\ count = [s \in Sem |-> CASE s = 0 -> 1 [] s = 1 -> BUF_SIZE [] OTHER -> 0]
        /\ in = 0 /\ out = 0 /\ buf \in [0 .. BUF_SIZE - 1 -> Nat]
    BY <2>1 DEF Buffer!BufferInit, Buffer!ClientInit, Buffer!producer, Buffer!consumer,
                Buffer!MUTEX, Buffer!EMPTY
  <2>4. BufferTokens
    <3>1. /\ pc[0] = "empty" /\ pc[1] = "full"
          /\ count[0] = 1 /\ count[1] = BUF_SIZE /\ count[2] = 0
      BY <2>2, <2>3
    <3>2. count \in [Sem -> Nat]
      BY <2>3
    <3>3. pc \in [Process -> {"empty", "full", "lock", "write", "read", "advance",
                              "unlock", "post", "done", "absent"}]
      BY <2>3
    <3> QED
      <4>1. /\ Bit(pc[0] \in {"write", "advance", "unlock"}) = 0
            /\ Bit(pc[1] \in {"read", "advance", "unlock"}) = 0
            /\ Bit(pc[0] \in {"lock", "write"}) = 0
            /\ Bit(pc[1] \in {"advance", "unlock", "post"}) = 0
            /\ Bit(pc[0] \in {"advance", "unlock", "post"}) = 0
            /\ Bit(pc[1] \in {"lock", "read"}) = 0
        BY <3>1 DEF Bit
      <4>2. Stock = 0
        BY <1>1 DEF Stock
      <4> QED
        BY <1>1, <3>1, <3>2, <3>3, <4>1, <4>2 DEF BufferTokens
  <2>5. BufferPlace
    <3>1. pc[0] = "empty" /\ pc[1] = "full"
      BY <2>2, <2>3
    <3>2. 0 % BUF_SIZE = 0
      OBVIOUS
    <3> QED
      BY <1>1, <2>3, <3>1, <3>2
      DEF BufferPlace, Stock, Bit, Buffer!First, Buffer!consumer
  <2> QED
    BY <1>1, <1>2, <2>4, <2>5 DEF BufferPart, StockInOrder, Stock
<1> QED
  BY <1>1, <1>2 DEF BufferPart, StockInOrder, Stock

\* Every step of the producer, the consumer and the others keeps it.
LEMMA BufferStep == BufferPart /\ [Next]_vars => BufferPart'
<1> SUFFICES ASSUME BufferPart, [Next]_vars
             PROVE  BufferPart'
  OBVIOUS
<1>1. CASE UNCHANGED vars
  BY <1>1 DEF vars, semVars, bufferVars, BufferPart, BufferTokens, BufferPlace,
              StockInOrder, Stock, Bit, Buffer!First, Buffer!consumer
<1>2. ASSUME program = "prodcons", NEW p \in Process, Buffer!Run(p), UNCHANGED program
      PROVE  BufferPart'
  BY <1>2, TokensStep, PlaceStep DEF BufferPart
<1>3. ASSUME program # "prodcons", UNCHANGED <<program, bufferVars>>
      PROVE  BufferPart'
  BY <1>3 DEF BufferPart, StockInOrder, Stock, bufferVars
<1> QED
  BY <1>1, <1>2, <1>3 DEF Next, Run, Commit, Ordered

\* The two never touch the same slot at once.
LEMMA BufferSafe == BufferPart /\ program = "prodcons" => Buffer!BufferExclusive
<1> SUFFICES ASSUME BufferTokens
             PROVE  Buffer!BufferExclusive
  BY DEF BufferPart
<1>1. count[0] \in Nat
  BY ProgramsAssumption DEF BufferTokens
<1> QED
  BY <1>1 DEF BufferTokens, Bit, Buffer!BufferExclusive, Buffer!InBuffer,
              Buffer!producer, Buffer!consumer

-------------------------------------------------------------------------------
(***************************************************************************)
(* The items from c + 1 on, n of them: what is in the channel.             *)
(***************************************************************************)
Items(n, c) == [k \in 1 .. n |-> c + k]

\* The numbers c + 1 .. c + n as a queue.
LEMMA ItemsProperties ==
  ASSUME NEW n \in Nat, NEW c \in Nat
  PROVE  /\ Items(n, c) \in Seq(Nat) /\ Len(Items(n, c)) = n
         /\ Items(0, c) = <<>>
         /\ Append(Items(n, c), c + n + 1) = Items(n + 1, c)
         /\ n > 0 => /\ Items(n, c) # <<>>
                     /\ Head(Items(n, c)) = c + 1
                     /\ Tail(Items(n, c)) = Items(n - 1, c + 1)
<1>1. ASSUME NEW m \in Nat, NEW d \in Nat
      PROVE  Items(m, d) \in Seq(Nat) /\ Len(Items(m, d)) = m
  <2>1. Items(m, d) \in [1 .. m -> Nat]
    BY DEF Items
  <2> QED
    BY <2>1, SeqDef, LenProperties
<1>2. Items(0, c) = <<>>
  BY <1>1, EmptySeq
<1>3. Append(Items(n, c), c + n + 1) = Items(n + 1, c)
  <2>1. /\ Append(Items(n, c), c + n + 1) \in Seq(Nat)
        /\ Len(Append(Items(n, c), c + n + 1)) = n + 1
    BY <1>1
  <2>2. \A k \in 1 .. n + 1 : Append(Items(n, c), c + n + 1)[k] = Items(n + 1, c)[k]
    BY <1>1 DEF Items
  <2>3. Items(n + 1, c) \in Seq(Nat) /\ Len(Items(n + 1, c)) = n + 1
    BY <1>1
  <2> QED
    BY <2>1, <2>2, <2>3, SeqEqual
<1>4. ASSUME n > 0
      PROVE  /\ Items(n, c) # <<>>
             /\ Head(Items(n, c)) = c + 1
             /\ Tail(Items(n, c)) = Items(n - 1, c + 1)
  <2>1. Items(n, c) # <<>>
    BY <1>1, <1>4, EmptySeq
  <2>2. Head(Items(n, c)) = Items(n, c)[1]
    BY <1>1, <2>1
  <2>3. /\ Tail(Items(n, c)) \in Seq(Nat) /\ Len(Tail(Items(n, c))) = n - 1
        /\ \A k \in 1 .. n - 1 : Tail(Items(n, c))[k] = Items(n, c)[k + 1]
    BY <1>1, <2>1, HeadTailProperties
  <2>4. \A k \in 1 .. n - 1 : Tail(Items(n, c))[k] = Items(n - 1, c + 1)[k]
    BY <1>4, <2>3 DEF Items
  <2>5. n - 1 \in Nat /\ c + 1 \in Nat
    BY <1>4
  <2> QED
    BY <1>1, <1>4, <2>1, <2>2, <2>3, <2>4, <2>5, SeqEqual DEF Items
<1> QED
  BY <1>1, <1>2, <1>3, <1>4

\* What the buffer stands for is such a queue.
LEMMA StoredIsItems == BufferPart => Buffer!Stored = Items(Stock, consumed)
BY DEF BufferPart, StockInOrder, Buffer!Stored, Items, Stock

\* Its length and its beginning are numbers.
LEMMA StockType == BufferPart => Stock \in Nat /\ consumed \in Nat
BY StockBounds DEF BufferPart, BufferTokens, Stock

\* A step of the buffer is a Send, a Receive or a stutter of the queue.
LEMMA ChannelStep ==
  BufferPart /\ BufferPart' /\ [Next]_vars =>
    [Buffer!FIFO!Send \/ Buffer!FIFO!Receive]_(Buffer!FIFO!channelVars)
<1> SUFFICES ASSUME BufferPart, BufferPart', [Next]_vars
             PROVE  \/ Buffer!FIFO!Send \/ Buffer!FIFO!Receive
                    \/ UNCHANGED Buffer!FIFO!channelVars
  OBVIOUS
<1>1. /\ Buffer!Stored = Items(Stock, consumed) /\ Buffer!Stored' = Items(Stock, consumed)'
      /\ Stock \in Nat /\ consumed \in Nat
  <2>1. (BufferPart => Buffer!Stored = Items(Stock, consumed))'
    BY StoredIsItems, PTL
  <2> QED
    BY <2>1, StoredIsItems, StockType
<1>2. CASE UNCHANGED <<produced, consumed, item>>
  <2>1. Buffer!Stored' = Buffer!Stored
    BY <1>1, <1>2 DEF Items, Stock
  <2> QED
    BY <1>2, <2>1 DEF Buffer!FIFO!channelVars
<1>3. CASE program = "prodcons" /\ Buffer!WriteItem
  <2>1. /\ produced' = produced + 1 /\ UNCHANGED <<consumed, item>>
        /\ pc[0] = "write"
    BY <1>3 DEF Buffer!WriteItem, Buffer!Local, Buffer!producer
  <2>2. Stock < BUF_SIZE /\ produced < ITEMS /\ produced \in Nat
    BY <1>3, <2>1, StockBounds DEF BufferPart, BufferTokens
  <2>3. /\ Len(Items(Stock, consumed)) = Stock
        /\ Append(Items(Stock, consumed), consumed + Stock + 1) = Items(Stock + 1, consumed)
    BY <1>1, ItemsProperties
  <2>4. Stock' = Stock + 1 /\ consumed + Stock + 1 = produced'
    BY <1>1, <2>1, <2>2 DEF Stock
  <2>5. Buffer!Stored' = Append(Buffer!Stored, produced')
    BY <1>1, <2>1, <2>3, <2>4 DEF Items
  <2> QED
    BY <1>1, <2>1, <2>2, <2>3, <2>5 DEF Buffer!FIFO!Send
<1>4. CASE program = "prodcons" /\ Buffer!ReadItem
  <2>1. /\ consumed' = consumed + 1 /\ item' = buf[out] /\ UNCHANGED produced
        /\ pc[1] = "read"
    BY <1>4 DEF Buffer!ReadItem, Buffer!Local, Buffer!consumer
  <2>2. Stock > 0 /\ produced \in Nat
    BY <1>4, <2>1, StockBounds DEF BufferPart, BufferTokens
  <2>3. /\ Items(Stock, consumed) # <<>> /\ Head(Items(Stock, consumed)) = consumed + 1
        /\ Tail(Items(Stock, consumed)) = Items(Stock - 1, consumed + 1)
    BY <1>1, <2>2, ItemsProperties
  <2>4. buf[out] = consumed + 1
    <3>1. buf[(Buffer!First + 1 - 1) % BUF_SIZE] = consumed + 1
      BY <1>1, <2>2 DEF BufferPart, StockInOrder
    <3>2. Buffer!First = out /\ out \in Nat /\ out < BUF_SIZE
      BY <1>4, <2>1, ProgramsAssumption
      DEF Buffer!First, Buffer!consumer, BufferPart, BufferPlace
    <3>3. out % BUF_SIZE = out
      BY <3>2, Wrap, ProgramsAssumption
    <3> QED
      BY <3>1, <3>2, <3>3
  <2>5. Stock' = Stock - 1
    BY <1>1, <2>1, <2>2 DEF Stock
  <2>6. Buffer!Stored' = Tail(Buffer!Stored)
    BY <1>1, <2>1, <2>3, <2>5 DEF Items
  <2> QED
    BY <1>1, <2>1, <2>3, <2>4, <2>6 DEF Buffer!FIFO!Receive
<1>5. CASE \E p \in Process : program = "prodcons" /\ Buffer!Run(p)
  <2>1. CASE \/ Buffer!ProducerWaitsEmpty \/ Buffer!ProducerLocks \/ Buffer!AdvanceIn
             \/ Buffer!ProducerUnlocks \/ Buffer!ProducerPostsFull \/ Buffer!ProducerDone
             \/ Buffer!ConsumerWaitsFull \/ Buffer!ConsumerLocks \/ Buffer!AdvanceOut
             \/ Buffer!ConsumerUnlocks \/ Buffer!ConsumerPostsEmpty \/ Buffer!ConsumerDone
    BY <1>2, <2>1
    DEF Buffer!ProducerWaitsEmpty, Buffer!ProducerLocks, Buffer!AdvanceIn,
        Buffer!ProducerUnlocks, Buffer!ProducerPostsFull, Buffer!ProducerDone,
        Buffer!ConsumerWaitsFull, Buffer!ConsumerLocks, Buffer!AdvanceOut,
        Buffer!ConsumerUnlocks, Buffer!ConsumerPostsEmpty, Buffer!ConsumerDone,
        Buffer!bufferVars
  <2> QED
    BY <1>3, <1>4, <1>5, <2>1 DEF Buffer!Run, Buffer!Producer, Buffer!Consumer
<1> QED
  BY <1>2, <1>5 DEF Next, Run, Commit, Ordered, vars, bufferVars

-------------------------------------------------------------------------------
(***************************************************************************)
(* Readers and writers: readwrite                                          *)
(***************************************************************************)
MutexHeld(p) ==
  p \in Reader /\ pc[p] \in {"count", "lock", "counted", "uncount", "unlock", "left"}

TurnHeld(p) ==
  \/ p \in Reader /\ pc[p] \in {"mutex", "count", "lock", "counted", "through"}
  \/ p \in Writer /\ pc[p] \in {"lock", "write", "written", "leave"}

ReadHeld(p) ==
  p \in Reader /\ pc[p] \in {"counted", "through", "read", "uncount", "unlock"}

WriteHeld(p) == p \in Writer /\ pc[p] \in {"write", "written"}

Counted == {r \in Reader : pc[r] \in {"lock", "counted", "through", "read", "uncount"}}

DataTypes ==
  /\ pc \in [Process -> {"enter", "mutex", "count", "lock", "counted", "through", "read",
                          "uncount", "unlock", "left", "write", "written", "leave",
                          "absent"}]
  /\ count \in [Sem -> Nat]
  /\ late = [w \in Writer |-> {}]

\* A binary semaphore has its unit, or exactly one process has it.
MutexOnce ==
  /\ count[0] \in {0, 1}
  /\ \A p \in Process : MutexHeld(p) =>
       count[0] = 0 /\ \A q \in Process : MutexHeld(q) => p = q

TurnOnce ==
  /\ count[2] \in {0, 1}
  /\ \A p \in Process : TurnHeld(p) =>
       count[2] = 0 /\ \A q \in Process : TurnHeld(q) => p = q

\* The lock of the data is with one writer, or with all who read.
LockOnce ==
  /\ count[1] \in {0, 1}
  /\ \A p \in Process : ReadHeld(p) \/ WriteHeld(p) => count[1] = 0
  /\ \A p, q \in Process : WriteHeld(p) => ~ReadHeld(q) /\ (WriteHeld(q) => p = q)

\* read_count is the number of readers between the two updates of it.
ReadersCounted ==
  /\ read_count = Cardinality(Counted)
  /\ \A p \in Process : p \in Reader /\ pc[p] = "lock" => Counted = {p}
  /\ \A p \in Process : p \in Reader /\ pc[p] = "unlock" => Counted = {}

DataInv == DataTypes /\ MutexOnce /\ TurnOnce /\ LockOnce /\ ReadersCounted

\* The two binary semaphores are with one process at a time.
LEMMA BinaryStep ==
  ASSUME DataInv, NEW p \in Process, Data!Run(p)
  PROVE  DataTypes' /\ MutexOnce' /\ TurnOnce'
<1> USE ProgramsAssumption
    DEF DataInv, DataTypes, MutexOnce, TurnOnce, MutexHeld, TurnHeld, Data!Plain,
        Data!NextWriter, Data!MUTEX, Data!RW_LOCK, Data!TURNSTILE, Data!Local, Data!Down,
        Data!Up, Data!Call, Data!Granted, Data!Arrive, Data!Take, Data!Post, Data!Goto,
        Data!Leave, Data!semVars
<1>1. 0 \in Sem /\ 1 \in Sem /\ 2 \in Sem
  OBVIOUS
<1>2. CASE p \in Reader /\ Data!ReaderEnters(p)
  BY <1>1, <1>2 DEF Data!ReaderEnters
<1>3. CASE p \in Reader /\ Data!ReaderLocksCount(p)
  BY <1>1, <1>3 DEF Data!ReaderLocksCount
<1>4. CASE p \in Reader /\ Data!CountReader(p)
  BY <1>1, <1>4 DEF Data!CountReader
<1>5. CASE p \in Reader /\ Data!FirstReader(p)
  BY <1>1, <1>5 DEF Data!FirstReader
<1>6. CASE p \in Reader /\ Data!ReaderUnlocksCount(p)
  BY <1>1, <1>6 DEF Data!ReaderUnlocksCount
<1>7. CASE p \in Reader /\ Data!ReaderThrough(p)
  BY <1>1, <1>7 DEF Data!ReaderThrough
<1>8. CASE p \in Reader /\ Data!ReaderLeaves(p)
  BY <1>1, <1>8 DEF Data!ReaderLeaves
<1>9. CASE p \in Reader /\ Data!UncountReader(p)
  BY <1>1, <1>9 DEF Data!UncountReader
<1>10. CASE p \in Reader /\ Data!LastReader(p)
  BY <1>1, <1>10 DEF Data!LastReader
<1>11. CASE p \in Reader /\ Data!ReaderRests(p)
  BY <1>1, <1>11 DEF Data!ReaderRests
<1>12. CASE p \in Writer /\ Data!WriterEnters(p)
  BY <1>1, <1>12 DEF Data!WriterEnters
<1>13. CASE p \in Writer /\ Data!WriterLocks(p)
  BY <1>1, <1>13 DEF Data!WriterLocks
<1>14. CASE p \in Writer /\ Data!Write(p)
  BY <1>1, <1>14 DEF Data!Write
<1>15. CASE p \in Writer /\ Data!WriterUnlocks(p)
  BY <1>1, <1>15 DEF Data!WriterUnlocks
<1>16. CASE p \in Writer /\ Data!WriterRests(p)
  BY <1>1, <1>16 DEF Data!WriterRests
<1> QED
  BY <1>2, <1>3, <1>4, <1>5, <1>6, <1>7, <1>8, <1>9, <1>10, <1>11, <1>12, <1>13, <1>14, <1>15, <1>16
  DEF Data!Run, Data!Read, Data!WriteRound

\* The readers that are counted are finitely many.
LEMMA CountedFinite == IsFiniteSet(Counted)
BY FS_Subset, ProgramsAssumption DEF Counted

\* readcount is the number of readers between their two critical sections.
LEMMA CountedStep ==
  ASSUME DataInv, NEW p \in Process, Data!Run(p)
  PROVE  ReadersCounted'
<1> USE ProgramsAssumption
    DEF Data!Plain, Data!Local, Data!Down, Data!Up, Data!Call, Data!Granted, Data!Goto,
        Data!dataVars
<1>1. CASE p \in Reader /\ Data!CountReader(p)
  <2>1. /\ pc[p] = "count" /\ read_count' = read_count + 1
        /\ pc' = [pc EXCEPT ![p] = IF read_count = 0 THEN "lock" ELSE "counted"]
    BY <1>1 DEF Data!CountReader
  <2>2. p \notin Counted /\ Counted' = Counted \cup {p}
    BY <1>1, <2>1 DEF Counted, DataInv, DataTypes
  <2>3. read_count' = Cardinality(Counted')
    BY <2>1, <2>2, CountedFinite, FS_AddElement DEF DataInv, ReadersCounted
  <2>4. read_count = 0 => Counted = {}
    BY CountedFinite, FS_EmptySet DEF DataInv, ReadersCounted
  <2>5. \A q \in Process : q \in Reader /\ pc[q] \in {"lock", "unlock"} => q = p
    BY <1>1, <2>1 DEF DataInv, MutexOnce, MutexHeld
  <2> QED
    BY <1>1, <2>1, <2>2, <2>3, <2>4, <2>5 DEF ReadersCounted, DataInv, DataTypes
<1>2. CASE p \in Reader /\ Data!UncountReader(p)
  <2>1. /\ pc[p] = "uncount" /\ read_count' = read_count - 1
        /\ pc' = [pc EXCEPT ![p] = IF read_count = 1 THEN "unlock" ELSE "left"]
    BY <1>2 DEF Data!UncountReader
  <2>2. p \in Counted /\ Counted' = Counted \ {p}
    BY <1>2, <2>1 DEF Counted, DataInv, DataTypes
  <2>3. read_count' = Cardinality(Counted')
    BY <2>1, <2>2, CountedFinite, FS_RemoveElement DEF DataInv, ReadersCounted
  <2>4. read_count = 1 => Counted' = {}
    <3>1. IsFiniteSet(Counted')
      BY <2>2, CountedFinite, FS_RemoveElement
    <3> QED
      BY <2>1, <2>3, <3>1, FS_EmptySet
  <2>5. \A q \in Process : q \in Reader /\ pc[q] \in {"lock", "unlock"} => q = p
    BY <1>2, <2>1 DEF DataInv, MutexOnce, MutexHeld
  <2> QED
    BY <1>2, <2>1, <2>2, <2>3, <2>4, <2>5 DEF ReadersCounted, DataInv, DataTypes
<1>3. CASE /\ Counted' = Counted /\ UNCHANGED read_count
           /\ \A q \in Process : q \in Reader /\ pc'[q] \in {"lock", "unlock"} =>
                                 pc'[q] = pc[q]
  BY <1>3 DEF DataInv, ReadersCounted
<1> USE DEF DataInv, DataTypes, Counted
<1>4. CASE p \in Reader /\ Data!ReaderEnters(p)
  BY <1>3, <1>4 DEF Data!ReaderEnters
<1>5. CASE p \in Reader /\ Data!ReaderLocksCount(p)
  BY <1>3, <1>5 DEF Data!ReaderLocksCount
<1>6. CASE p \in Reader /\ Data!FirstReader(p)
  BY <1>3, <1>6 DEF Data!FirstReader
<1>7. CASE p \in Reader /\ Data!ReaderUnlocksCount(p)
  BY <1>3, <1>7 DEF Data!ReaderUnlocksCount
<1>8. CASE p \in Reader /\ Data!ReaderThrough(p)
  BY <1>3, <1>8 DEF Data!ReaderThrough
<1>9. CASE p \in Reader /\ Data!ReaderLeaves(p)
  BY <1>3, <1>9 DEF Data!ReaderLeaves
<1>10. CASE p \in Reader /\ Data!LastReader(p)
  BY <1>3, <1>10 DEF Data!LastReader
<1>11. CASE p \in Reader /\ Data!ReaderRests(p)
  BY <1>3, <1>11 DEF Data!ReaderRests
<1>12. CASE p \in Writer /\ Data!WriterEnters(p)
  BY <1>3, <1>12 DEF Data!WriterEnters
<1>13. CASE p \in Writer /\ Data!WriterLocks(p)
  BY <1>3, <1>13 DEF Data!WriterLocks
<1>14. CASE p \in Writer /\ Data!Write(p)
  BY <1>3, <1>14 DEF Data!Write
<1>15. CASE p \in Writer /\ Data!WriterUnlocks(p)
  BY <1>3, <1>15 DEF Data!WriterUnlocks
<1>16. CASE p \in Writer /\ Data!WriterRests(p)
  BY <1>3, <1>16 DEF Data!WriterRests
<1> QED
  BY <1>1, <1>2, <1>4, <1>5, <1>6, <1>7, <1>8, <1>9, <1>10, <1>11, <1>12, <1>13, <1>14,
     <1>15, <1>16
  DEF Data!Run, Data!Read, Data!WriteRound

\* The lock is the readers' while one is counted, or one writer's.
LEMMA LockStep ==
  ASSUME DataInv, NEW p \in Process, Data!Run(p)
  PROVE  LockOnce'
<1> USE ProgramsAssumption
    DEF Data!Plain, Data!RW_LOCK, Data!MUTEX, Data!TURNSTILE, Data!Local, Data!Down,
        Data!Up, Data!Call, Data!Granted, Data!Arrive, Data!Take, Data!Post, Data!Goto,
        Data!Leave, Data!semVars, LockOnce, ReadHeld, WriteHeld, DataTypes
<1>1. 0 \in Sem /\ 1 \in Sem /\ 2 \in Sem
  OBVIOUS
<1>2. CASE p \in Reader /\ Data!CountReader(p)
  <2>1. /\ pc[p] = "count" /\ count' = count
        /\ pc' = [pc EXCEPT ![p] = IF read_count = 0 THEN "lock" ELSE "counted"]
    BY <1>2 DEF Data!CountReader
  <2>2. ASSUME read_count # 0
        PROVE  \E q \in Process : ReadHeld(q)
    <3>1. PICK q \in Counted : TRUE
      BY <2>2, FS_EmptySet DEF DataInv, ReadersCounted
    <3>2. pc[q] # "lock"
      BY <1>2, <2>1, <3>1 DEF DataInv, MutexOnce, MutexHeld, Counted
    <3> QED
      BY <3>1, <3>2 DEF Counted
  <2> QED
    BY <1>2, <2>1, <2>2 DEF DataInv
<1>3. CASE p \in Reader /\ Data!LastReader(p)
  <2>1. /\ pc[p] = "unlock" /\ count' = [count EXCEPT ![1] = @ + 1]
        /\ pc' = [pc EXCEPT ![p] = "left"]
    BY <1>3 DEF Data!LastReader
  <2>2. ASSUME NEW q \in Process, ReadHeld(q)
        PROVE  q = p
    <3>1. q \notin Counted
      BY <1>3, <2>1 DEF DataInv, ReadersCounted
    <3>2. pc[q] = "unlock"
      BY <2>2, <3>1 DEF Counted
    <3> QED
      BY <1>3, <2>1, <2>2, <3>2 DEF DataInv, MutexOnce, MutexHeld
  <2> QED
    BY <1>1, <1>3, <2>1, <2>2 DEF DataInv
<1> USE DEF DataInv
<1>4. CASE p \in Reader /\ Data!ReaderEnters(p)
  BY <1>1, <1>4 DEF Data!ReaderEnters
<1>5. CASE p \in Reader /\ Data!ReaderLocksCount(p)
  BY <1>1, <1>5 DEF Data!ReaderLocksCount
<1>6. CASE p \in Reader /\ Data!FirstReader(p)
  BY <1>1, <1>6 DEF Data!FirstReader
<1>7. CASE p \in Reader /\ Data!ReaderUnlocksCount(p)
  BY <1>1, <1>7 DEF Data!ReaderUnlocksCount
<1>8. CASE p \in Reader /\ Data!ReaderThrough(p)
  BY <1>1, <1>8 DEF Data!ReaderThrough
<1>9. CASE p \in Reader /\ Data!ReaderLeaves(p)
  BY <1>1, <1>9 DEF Data!ReaderLeaves
<1>10. CASE p \in Reader /\ Data!UncountReader(p)
  BY <1>1, <1>10 DEF Data!UncountReader
<1>11. CASE p \in Reader /\ Data!ReaderRests(p)
  BY <1>1, <1>11 DEF Data!ReaderRests
<1>12. CASE p \in Writer /\ Data!WriterEnters(p)
  BY <1>1, <1>12 DEF Data!WriterEnters
<1>13. CASE p \in Writer /\ Data!WriterLocks(p)
  BY <1>1, <1>13 DEF Data!WriterLocks
<1>14. CASE p \in Writer /\ Data!Write(p)
  BY <1>1, <1>14 DEF Data!Write
<1>15. CASE p \in Writer /\ Data!WriterUnlocks(p)
  BY <1>1, <1>15 DEF Data!WriterUnlocks
<1>16. CASE p \in Writer /\ Data!WriterRests(p)
  BY <1>1, <1>16 DEF Data!WriterRests
<1> QED
  BY <1>2, <1>3, <1>4, <1>5, <1>6, <1>7, <1>8, <1>9, <1>10, <1>11, <1>12, <1>13, <1>14, <1>15, <1>16
  DEF Data!Run, Data!Read, Data!WriteRound

\* Only readwrite has readers and writers.
DataPart ==
  /\ program = "readwrite" => DataInv
  /\ program # "readwrite" => late = [w \in Writer |-> {}]

\* No reader and no writer is inside at the start.
LEMMA DataStarts == Init => DataPart
<1> SUFFICES ASSUME Init
             PROVE  DataPart
  OBVIOUS
<1> USE ProgramsAssumption DEF Init
<1>1. late = [w \in Writer |-> {}]
  BY DEF NoData, Data!RWInit
<1>2. CASE program = "readwrite"
  <2>1. /\ pc \in [Process -> {"enter", "absent"}]
        /\ count \in [Sem -> {0, 1}] /\ read_count = 0
    BY <1>2 DEF Data!RWInit, Data!ClientInit, Data!MUTEX, Data!RW_LOCK,
                Data!TURNSTILE, Ordered
  <2>2. Counted = {}
    BY <2>1 DEF Counted
  <2>3. read_count = Cardinality(Counted)
    BY <2>1, <2>2, FS_EmptySet
  <2>4. \A p \in Process : ~MutexHeld(p) /\ ~TurnHeld(p) /\ ~ReadHeld(p) /\ ~WriteHeld(p)
    BY <2>1 DEF MutexHeld, TurnHeld, ReadHeld, WriteHeld
  <2>5. count[0] \in {0, 1} /\ count[1] \in {0, 1} /\ count[2] \in {0, 1}
    BY <2>1
  <2>6. DataTypes
    BY <1>1, <2>1 DEF DataTypes
  <2>7. MutexOnce /\ TurnOnce /\ LockOnce /\ ReadersCounted
    BY <2>1, <2>2, <2>3, <2>4, <2>5 DEF MutexOnce, TurnOnce, LockOnce, ReadersCounted
  <2> QED
    BY <1>2, <2>6, <2>7 DEF DataPart, DataInv
<1> QED
  BY <1>1, <1>2 DEF DataPart

\* Every step keeps the invariant of readers and writers.
LEMMA DataStep == DataPart /\ [Next]_vars => DataPart'
<1> SUFFICES ASSUME DataPart, [Next]_vars
             PROVE  DataPart'
  OBVIOUS
<1>1. CASE UNCHANGED vars
  BY <1>1 DEF vars, semVars, dataVars, DataPart, DataInv, DataTypes, MutexOnce, TurnOnce,
              LockOnce, ReadersCounted, MutexHeld, TurnHeld, ReadHeld, WriteHeld, Counted
<1>2. ASSUME program = "readwrite", NEW p \in Process, Data!Run(p), UNCHANGED program
      PROVE  DataPart'
  BY <1>2, BinaryStep, CountedStep, LockStep DEF DataPart, DataInv
<1>3. ASSUME program # "readwrite", UNCHANGED <<program, dataVars>>
      PROVE  DataPart'
  BY <1>3 DEF DataPart, dataVars
<1> QED
  BY <1>1, <1>2, <1>3 DEF Next, Run, Commit, Ordered

\* It makes a writer be alone, and keeps its turn.
LEMMA DataSafe ==
  DataPart /\ program = "readwrite" => Data!WritersAlone /\ Data!NotOvertaken
<1> SUFFICES ASSUME DataInv
             PROVE  Data!WritersAlone /\ Data!NotOvertaken
  BY DEF DataPart
<1>1. Data!NotOvertaken
  BY DEF DataInv, DataTypes, Data!NotOvertaken
<1>2. ASSUME NEW w \in Data!Writing
      PROVE  Data!Writing = {w} /\ Data!Reading = {}
  <2>1. w \in Process /\ WriteHeld(w)
    BY ProgramsAssumption DEF Data!Writing, WriteHeld
  <2>2. \A v \in Data!Writing : v \in Process /\ WriteHeld(v)
    BY ProgramsAssumption DEF Data!Writing, WriteHeld
  <2>3. \A r \in Data!Reading : r \in Process /\ ReadHeld(r)
    BY ProgramsAssumption DEF Data!Reading, ReadHeld
  <2> QED
    BY <1>2, <2>1, <2>2, <2>3 DEF DataInv, LockOnce
<1> QED
  BY <1>1, <1>2 DEF Data!WritersAlone

-------------------------------------------------------------------------------
(***************************************************************************)
(* Peterson's algorithm with its stores in program order: peterson         *)
(***************************************************************************)

\* Short store buffers: appending at the end, leaving at the front.
LEMMA Appended ==
  \A a, b, c : /\ Append(<<>>, a) = <<a>>
               /\ Append(<<a>>, b) = <<a, b>>
               /\ Append(<<a, b>>, c) = <<a, b, c>>
<1> TAKE a, b, c
<1> DEFINE S == {a, b, c}
<1>1. /\ <<a>> \in Seq(S) /\ <<a, b>> \in Seq(S) /\ <<a, b, c>> \in Seq(S)
      /\ Len(<<a>>) = 1 /\ Len(<<a, b>>) = 2 /\ Len(<<a, b, c>>) = 3
  OBVIOUS
<1>2. Append(<<>>, a) = <<a>>
  OBVIOUS
<1>3. Append(<<a>>, b) = <<a, b>>
  <2>1. Append(<<a>>, b) \in Seq(S) /\ Len(Append(<<a>>, b)) = 2
    BY <1>1
  <2>2. Append(<<a>>, b)[1] = a /\ Append(<<a>>, b)[2] = b
    BY <1>1
  <2>3. \A i \in 1 .. 2 : Append(<<a>>, b)[i] = <<a, b>>[i]
    BY <2>2
  <2> QED
    BY <1>1, <2>1, <2>3, SeqEqual
<1>4. Append(<<a, b>>, c) = <<a, b, c>>
  <2>1. Append(<<a, b>>, c) \in Seq(S) /\ Len(Append(<<a, b>>, c)) = 3
    BY <1>1
  <2>2. \A i \in 1 .. 3 : Append(<<a, b>>, c)[i] = <<a, b, c>>[i]
    BY <1>1
  <2> QED
    BY <1>1, <2>1, <2>2, SeqEqual
<1> QED
  BY <1>2, <1>3, <1>4

\* A store buffer that has lost its first store.
LEMMA Removed ==
  \A a, b, c : /\ Turns!RemoveAt(<<a>>, 1) = <<>>
               /\ Turns!RemoveAt(<<a, b>>, 1) = <<b>>
               /\ Turns!RemoveAt(<<a, b, c>>, 1) = <<b, c>>
<1> TAKE a, b, c
<1> DEFINE S == {a, b, c}
<1>1. ASSUME NEW s \in Seq(S), s # <<>>
      PROVE  Turns!RemoveAt(s, 1) = Tail(s)
  <2>1. SubSeq(s, 1, 0) = <<>>
    BY SubSeqEmpty
  <2>2. Tail(s) = SubSeq(s, 2, Len(s)) /\ Tail(s) \in Seq(S)
    BY <1>1, TailIsSubSeq, HeadTailProperties
  <2>3. <<>> \o Tail(s) = Tail(s)
    BY <2>2, ConcatEmptySeq
  <2> QED
    BY <2>1, <2>2, <2>3 DEF Turns!RemoveAt
<1>2. /\ <<a>> \in Seq(S) /\ <<a, b>> \in Seq(S) /\ <<a, b, c>> \in Seq(S)
      /\ <<a>> # <<>> /\ <<a, b>> # <<>> /\ <<a, b, c>> # <<>>
  OBVIOUS
<1>3. Tail(<<a>>) = <<>>
  OBVIOUS
<1>4. Tail(<<a, b>>) = <<b>>
  OBVIOUS
<1>5. Tail(<<a, b, c>>) = <<b, c>>
  OBVIOUS
<1> QED
  BY <1>1, <1>2, <1>3, <1>4, <1>5

\* The first store of a buffer, and how many there are.
LEMMA Fronts ==
  \A a, b, c : /\ <<a>> # <<>> /\ <<a>>[1] = a /\ DOMAIN <<a>> = 1 .. 1
               /\ <<a, b>> # <<>> /\ <<a, b>>[1] = a /\ DOMAIN <<a, b>> = 1 .. 2
               /\ <<a, b, c>> # <<>> /\ <<a, b, c>>[1] = a /\ DOMAIN <<a, b, c>> = 1 .. 3
               /\ <<a, b>> # <<c>>
OBVIOUS

ClearStore(i) == [addr |-> Turns!Flag(i), val |-> 0]
SetStore(i) == [addr |-> Turns!Flag(i), val |-> 1]
TurnStore(i) == [addr |-> "turn", val |-> 1 - i]
CountStore(v) == [addr |-> "counter", val |-> v]

\* What is still on its way to memory at each statement, and what the flag of
\* the process shows in memory meanwhile.
Pending(i) ==
  \/ /\ memory[Turns!Flag(i)] = 0
     /\ \/ pc[i] = "flag" /\ buffer[i] = <<>>
        \/ pc[i] = "turn" /\ buffer[i] = <<SetStore(i)>>
        \/ pc[i] = "fence" /\ buffer[i] = <<SetStore(i), TurnStore(i)>>
  \/ /\ memory[Turns!Flag(i)] = 1
     /\ \/ pc[i] = "flag" /\ buffer[i] = <<ClearStore(i)>>
        \/ pc[i] = "turn" /\ buffer[i] = <<ClearStore(i), SetStore(i)>>
        \/ pc[i] = "turn" /\ buffer[i] = <<>>
        \/ /\ pc[i] = "fence"
           /\ buffer[i] = <<ClearStore(i), SetStore(i), TurnStore(i)>>
        \/ pc[i] = "fence" /\ buffer[i] = <<TurnStore(i)>>
        \/ pc[i] = "fence2" /\ buffer[i] = <<CountStore(memory["counter"] + 1)>>
        \/ /\ pc[i] \in {"fence", "spinflag", "spinturn", "load", "store", "fence2", "clear"}
           /\ buffer[i] = <<>>

PageTypes ==
  /\ memory \in [Turns!Address -> Nat] /\ memory["turn"] \in Turns!Id
  /\ DOMAIN buffer = Turns!Id /\ DOMAIN pc = Turns!Id
  /\ round \in [Turns!Id -> Nat] /\ temp \in [Turns!Id -> Nat]
  /\ overtaken \in [Turns!Id -> {0, 1}]
  /\ \A i \in Turns!Id : Pending(i)

Spins(i) == pc[i] \in {"spinflag", "spinturn"}

\* Process i has given the turn away and has not entered since.
Waits(i) == Spins(i) \/ (pc[i] = "fence" /\ buffer[i] = <<>>)

\* One process is inside, and who waits then has given the turn to it.
TurnOrder ==
  \A i \in Turns!Id : Turns!InCS(i) =>
    ~Turns!InCS(1 - i) /\ (Waits(1 - i) => memory["turn"] = i)

\* Who was overtaken gets the turn when the other one waits again.
OvertakenLast ==
  \A i \in Turns!Id : overtaken[i] = 1 /\ Spins(i) /\ Waits(1 - i) => memory["turn"] = i

\* The increments of i that are in memory.
Counts(i) ==
  round[i] + Bit(pc[i] = "clear" \/ (pc[i] = "fence2" /\ buffer[i] = <<>>))

CounterInv ==
  /\ memory["counter"] = Counts(0) + Counts(1)
  /\ \A i \in Turns!Id : pc[i] = "store" => temp[i] = memory["counter"]

PetersonInv == PageTypes /\ TurnOrder /\ OvertakenLast /\ CounterInv

\* The two processes, their flags and the other variables are different.
LEMMA Sides ==
  \A i \in Turns!Id : /\ 1 - i \in Turns!Id /\ 1 - i # i /\ 1 - (1 - i) = i
                      /\ Turns!Other(i) = 1 - i
                      /\ Turns!Flag(i) \in Turns!Address
                      /\ Turns!Flag(1 - i) # Turns!Flag(i)
                      /\ Turns!Flag(i) # "turn" /\ Turns!Flag(i) # "counter"
                      /\ \A j \in Turns!Id : j = i \/ j = 1 - i
BY DEF Turns!Id, Turns!Flag, Turns!Other, Turns!Address

\* A store that reaches memory sets a flag, gives the turn away or counts.
LEMMA CommitCases ==
  ASSUME PageTypes, NEW i \in Turns!Id, Turns!Commit(i)
  PROVE  /\ \A j \in Turns!Id \ {i} : buffer'[j] = buffer[j]
         /\ DOMAIN buffer' = DOMAIN buffer
         /\ \/ /\ pc[i] \in {"flag", "turn", "fence"} /\ buffer[i] # <<>>
               /\ pc[i] = "fence" => buffer'[i] # <<>>
               /\ \E v \in {0, 1} : memory' = [memory EXCEPT ![Turns!Flag(i)] = v]
            \/ /\ pc[i] = "fence" /\ buffer[i] # <<>> /\ buffer'[i] = <<>>
               /\ memory' = [memory EXCEPT !["turn"] = 1 - i]
            \/ /\ pc[i] = "fence2" /\ buffer[i] # <<>> /\ buffer'[i] = <<>>
               /\ memory' = [memory EXCEPT !["counter"] = @ + 1]
         /\ Pending(i)'
<1> USE Sides DEF PageTypes
<1>1. /\ buffer'[i] = Turns!RemoveAt(buffer[i], 1) /\ DOMAIN buffer' = DOMAIN buffer
      /\ \A j \in Turns!Id \ {i} : buffer'[j] = buffer[j]
      /\ memory' = [memory EXCEPT ![buffer[i][1].addr] = buffer[i][1].val]
      /\ buffer[i] # <<>> /\ pc' = pc
  <2>1. \E k \in DOMAIN buffer[i] :
          /\ \A j \in 1 .. k - 1 : FALSE
          /\ memory' = [memory EXCEPT ![buffer[i][k].addr] = buffer[i][k].val]
          /\ buffer' = [buffer EXCEPT ![i] = Turns!RemoveAt(buffer[i], k)]
          /\ pc' = pc
    BY DEF Turns!Commit
  <2>2. \A k \in DOMAIN buffer[i] : k \in Nat /\ k >= 1 /\ buffer[i] # <<>>
    <3>1. DOMAIN <<>> = {}
      OBVIOUS
    <3>2. \/ buffer[i] = <<>>
          \/ \E a : buffer[i] = <<a>>
          \/ \E a, b : buffer[i] = <<a, b>>
          \/ \E a, b, c : buffer[i] = <<a, b, c>>
      BY DEF Pending
    <3> QED
      BY <3>1, <3>2, Fronts
  <2>3. PICK k \in DOMAIN buffer[i] :
          /\ k \in Nat /\ k >= 1 /\ 1 \notin 1 .. k - 1
          /\ memory' = [memory EXCEPT ![buffer[i][k].addr] = buffer[i][k].val]
          /\ buffer' = [buffer EXCEPT ![i] = Turns!RemoveAt(buffer[i], k)]
          /\ pc' = pc
    BY <2>1, <2>2
  <2>4. k = 1
    BY <2>3
  <2> QED
    BY <2>2, <2>3, <2>4
<1>2. CASE pc[i] = "turn" /\ buffer[i] = <<SetStore(i)>>
  <2>1. buffer'[i] = <<>> /\ buffer[i][1] = SetStore(i)
    BY <1>1, <1>2, Removed, Fronts
  <2>2. memory' = [memory EXCEPT ![Turns!Flag(i)] = 1]
    BY <1>1, <2>1 DEF SetStore
  <2>3. pc'[i] = "turn" /\ memory'[Turns!Flag(i)] = 1
    BY <1>1, <1>2, <2>2
  <2>4. Pending(i)'
    BY <2>1, <2>3 DEF Pending
  <2> QED
    BY <1>1, <1>2, <2>1, <2>2, <2>4
<1>3. CASE pc[i] = "fence" /\ buffer[i] = <<SetStore(i), TurnStore(i)>>
  <2>1. buffer'[i] = <<TurnStore(i)>> /\ buffer[i][1] = SetStore(i)
    BY <1>1, <1>3, Removed, Fronts
  <2>2. memory' = [memory EXCEPT ![Turns!Flag(i)] = 1]
    BY <1>1, <2>1 DEF SetStore
  <2>3. pc'[i] = "fence" /\ memory'[Turns!Flag(i)] = 1
    BY <1>1, <1>3, <2>2
  <2>4. Pending(i)'
    BY <2>1, <2>3 DEF Pending
  <2> QED
    BY <1>1, <1>3, <2>1, <2>2, <2>4, Fronts
<1>4. CASE pc[i] = "flag" /\ buffer[i] = <<ClearStore(i)>>
  <2>1. buffer'[i] = <<>> /\ buffer[i][1] = ClearStore(i)
    BY <1>1, <1>4, Removed, Fronts
  <2>2. memory' = [memory EXCEPT ![Turns!Flag(i)] = 0]
    BY <1>1, <2>1 DEF ClearStore
  <2>3. pc'[i] = "flag" /\ memory'[Turns!Flag(i)] = 0
    BY <1>1, <1>4, <2>2
  <2>4. Pending(i)'
    BY <2>1, <2>3 DEF Pending
  <2> QED
    BY <1>1, <1>4, <2>1, <2>2, <2>4
<1>5. CASE pc[i] = "turn" /\ buffer[i] = <<ClearStore(i), SetStore(i)>>
  <2>1. buffer'[i] = <<SetStore(i)>> /\ buffer[i][1] = ClearStore(i)
    BY <1>1, <1>5, Removed, Fronts
  <2>2. memory' = [memory EXCEPT ![Turns!Flag(i)] = 0]
    BY <1>1, <2>1 DEF ClearStore
  <2>3. pc'[i] = "turn" /\ memory'[Turns!Flag(i)] = 0
    BY <1>1, <1>5, <2>2
  <2>4. Pending(i)'
    BY <2>1, <2>3 DEF Pending
  <2> QED
    BY <1>1, <1>5, <2>1, <2>2, <2>4
<1>6. CASE pc[i] = "fence" /\ buffer[i] = <<ClearStore(i), SetStore(i), TurnStore(i)>>
  <2>1. buffer'[i] = <<SetStore(i), TurnStore(i)>> /\ buffer[i][1] = ClearStore(i)
    BY <1>1, <1>6, Removed, Fronts
  <2>2. memory' = [memory EXCEPT ![Turns!Flag(i)] = 0]
    BY <1>1, <2>1 DEF ClearStore
  <2>3. pc'[i] = "fence" /\ memory'[Turns!Flag(i)] = 0
    BY <1>1, <1>6, <2>2
  <2>4. Pending(i)'
    BY <2>1, <2>3 DEF Pending
  <2> QED
    <3>1. buffer'[i] # <<>>
      BY <2>1, Fronts
    <3> QED
      BY <1>1, <1>6, <2>2, <2>4, <3>1
<1>7. CASE pc[i] = "fence" /\ buffer[i] = <<TurnStore(i)>>
  <2>1. buffer'[i] = <<>> /\ buffer[i][1] = TurnStore(i)
    BY <1>1, <1>7, Removed, Fronts
  <2>2. memory' = [memory EXCEPT !["turn"] = 1 - i]
    BY <1>1, <2>1 DEF TurnStore
  <2>3. pc'[i] = "fence" /\ memory'[Turns!Flag(i)] = 1
    <3>1. memory[Turns!Flag(i)] = 1
      <4>1. \/ memory[Turns!Flag(i)] = 1
            \/ buffer[i] = <<SetStore(i), TurnStore(i)>>
        BY <1>7 DEF Pending
      <4>2. <<SetStore(i), TurnStore(i)>> # <<TurnStore(i)>>
        BY Fronts
      <4> QED
        BY <1>7, <4>1, <4>2
    <3> QED
      BY <1>1, <1>7, <2>2, <3>1
  <2>4. Pending(i)'
    BY <2>1, <2>3 DEF Pending
  <2> QED
    BY <1>1, <1>7, <2>1, <2>2, <2>4
<1>8. CASE pc[i] = "fence2" /\ buffer[i] = <<CountStore(memory["counter"] + 1)>>
  <2>1. buffer'[i] = <<>> /\ buffer[i][1] = CountStore(memory["counter"] + 1)
    BY <1>1, <1>8, Removed, Fronts
  <2>2. memory' = [memory EXCEPT !["counter"] = @ + 1]
    BY <1>1, <2>1 DEF CountStore
  <2>3. pc'[i] = "fence2" /\ memory'[Turns!Flag(i)] = 1
    BY <1>1, <1>8, <2>2 DEF Pending
  <2>4. Pending(i)'
    BY <2>1, <2>3 DEF Pending
  <2> QED
    BY <1>1, <1>8, <2>1, <2>2, <2>4
<1> QED
  BY <1>1, <1>2, <1>3, <1>4, <1>5, <1>6, <1>7, <1>8 DEF Pending

\* A process whose flag is down is not inside and does not wait.
LEMMA FlagDown ==
  ASSUME PageTypes, NEW i \in Turns!Id, memory[Turns!Flag(i)] # 1
  PROVE  ~Turns!InCS(i) /\ ~Waits(i)
<1>1. \/ pc[i] = "flag" \/ pc[i] = "turn"
      \/ pc[i] = "fence" /\ buffer[i] = <<SetStore(i), TurnStore(i)>>
  BY DEF PageTypes, Pending
<1>2. <<SetStore(i), TurnStore(i)>> # <<>>
  BY Fronts
<1> QED
  BY <1>1, <1>2 DEF Turns!InCS, Waits, Spins

\* Nothing of a process past its fence is on the way, but for its count.
LEMMA Settled ==
  ASSUME PageTypes, NEW i \in Turns!Id
  PROVE  /\ pc[i] \in {"spinflag", "spinturn", "load", "store", "clear"} =>
              buffer[i] = <<>> /\ memory[Turns!Flag(i)] = 1
         /\ pc[i] \in {"fence", "fence2"} /\ buffer[i] = <<>> => memory[Turns!Flag(i)] = 1
         /\ pc[i] = "fence2" => memory[Turns!Flag(i)] = 1
<1>1. <<SetStore(i), TurnStore(i)>> # <<>>
  BY Fronts
<1> QED
  BY <1>1 DEF PageTypes, Pending

\* With an empty store buffer a load reads the memory.
LEMMA LoadsMemory ==
  ASSUME NEW i \in Turns!Id, NEW a, buffer[i] = <<>>
  PROVE  Turns!Load(i, a) = memory[a]
<1>1. {k \in DOMAIN buffer[i] : buffer[i][k].addr = a} = {}
  <2>1. DOMAIN <<>> = {}
    OBVIOUS
  <2> QED
    BY <2>1
<1> QED
  BY <1>1 DEF Turns!Load

\* A statement that lets nobody in and makes nobody wait.
LEMMA QuietStep ==
  ASSUME PetersonInv, NEW i \in Turns!Id,
         UNCHANGED memory, DOMAIN buffer' = DOMAIN buffer, DOMAIN pc' = DOMAIN pc,
         round' \in [Turns!Id -> Nat], temp' \in [Turns!Id -> Nat],
         overtaken' \in [Turns!Id -> {0, 1}],
         buffer'[1 - i] = buffer[1 - i], pc'[1 - i] = pc[1 - i],
         round'[1 - i] = round[1 - i], temp'[1 - i] = temp[1 - i],
         overtaken'[1 - i] = overtaken[1 - i],
         Pending(i)', Turns!InCS(i)' => Turns!InCS(i), Waits(i)' => Waits(i),
         Spins(i)' => overtaken'[i] = 0 \/ (Spins(i) /\ overtaken'[i] = overtaken[i]),
         Counts(i)' = Counts(i),
         pc'[i] = "store" => temp'[i] = memory["counter"]
  PROVE  PetersonInv'
<1> USE Sides
<1>1. /\ Pending(1 - i)' /\ Counts(1 - i)' = Counts(1 - i)
      /\ Waits(1 - i)' = Waits(1 - i) /\ Spins(1 - i)' = Spins(1 - i)
      /\ Turns!InCS(1 - i)' = Turns!InCS(1 - i)
  BY SMTT(40) DEF PetersonInv, PageTypes, Pending, Counts, Waits, Spins, Turns!InCS
<1>2. PageTypes'
  BY <1>1 DEF PetersonInv, PageTypes
<1>3. TurnOrder'
  BY <1>1 DEF PetersonInv, TurnOrder
<1>4. OvertakenLast'
  <2>1. /\ Waits(i)' => Waits(i)
        /\ Waits(1 - i)' = Waits(1 - i) /\ Spins(1 - i)' = Spins(1 - i)
    BY <1>1
  <2>2. ASSUME overtaken'[i] = 1 /\ Spins(i)' /\ Waits(1 - i)'
        PROVE  memory'["turn"] = i
    BY <2>1, <2>2 DEF PetersonInv, OvertakenLast
  <2>3. ASSUME overtaken'[1 - i] = 1 /\ Spins(1 - i)' /\ Waits(i)'
        PROVE  memory'["turn"] = 1 - i
    BY <2>1, <2>3 DEF PetersonInv, OvertakenLast
  <2> QED
    BY <2>2, <2>3 DEF OvertakenLast
<1>5. CounterInv'
  <2>1. Counts(0)' = Counts(0) /\ Counts(1)' = Counts(1)
    BY <1>1 DEF Turns!Id
  <2> QED
    BY <1>1, <2>1 DEF PetersonInv, CounterInv
<1> QED
  BY <1>2, <1>3, <1>4, <1>5 DEF PetersonInv

\* Entering: the other one's flag is down, or the turn is given to who enters.
LEMMA EnterStep ==
  ASSUME PetersonInv, NEW i \in Turns!Id, Spins(i), Turns!Enter(i),
         memory[Turns!Flag(1 - i)] # 1 \/ memory["turn"] = i,
         UNCHANGED <<memory, buffer, round, temp>>
  PROVE  PetersonInv'
<1> USE Sides
<1> DEFINE j == 1 - i
<1>1. /\ pc' = [pc EXCEPT ![i] = "load"]
      /\ overtaken' = [overtaken EXCEPT ![j] = IF Spins(j) THEN @ + 1 ELSE @]
  BY DEF Turns!Enter, Turns!Goto, Spins
<1>2. /\ DOMAIN pc = Turns!Id /\ DOMAIN buffer = Turns!Id
      /\ pc'[i] = "load" /\ pc'[j] = pc[j]
  BY <1>1 DEF PetersonInv, PageTypes
<1>3. buffer[i] = <<>> /\ memory[Turns!Flag(i)] = 1
  BY Settled DEF PetersonInv, Spins
<1>4. ~Turns!InCS(j) /\ (Waits(j) => memory["turn"] = i)
  <2>1. CASE memory[Turns!Flag(j)] # 1
    BY <2>1, FlagDown DEF PetersonInv
  <2>2. CASE memory["turn"] = i
    <3>1. Turns!InCS(j) => (Waits(i) => memory["turn"] = j)
      BY DEF PetersonInv, TurnOrder
    <3> QED
      BY <2>2, <3>1 DEF Waits
  <2> QED
    BY <2>1, <2>2
<1>5. /\ Pending(i)' /\ Pending(j)' /\ Counts(i)' = Counts(i) /\ Counts(j)' = Counts(j)
      /\ Waits(j)' = Waits(j) /\ Spins(j)' = Spins(j)
      /\ Turns!InCS(j)' = Turns!InCS(j) /\ ~Waits(i)' /\ ~Spins(i)'
  <2>1. Pending(i)' /\ Pending(j)'
    BY <1>2, <1>3 DEF PetersonInv, PageTypes, Pending
  <2>2. Counts(i)' = Counts(i)
    BY <1>2 DEF Counts, Spins, Bit
  <2> QED
    BY <1>2, <2>1, <2>2 DEF Counts, Waits, Spins, Turns!InCS
<1>6. overtaken' \in [Turns!Id -> {0, 1}]
  <2>1. Spins(j) => overtaken[j] # 1
    BY <1>4 DEF PetersonInv, OvertakenLast, Waits
  <2> QED
    BY <1>1, <2>1 DEF PetersonInv, PageTypes
<1>7. PageTypes'
  BY <1>1, <1>2, <1>5, <1>6 DEF PetersonInv, PageTypes
<1>8. TurnOrder'
  BY <1>4, <1>5 DEF TurnOrder
<1>9. OvertakenLast'
  BY <1>5 DEF OvertakenLast
<1>10. CounterInv'
  <2>1. Counts(0)' = Counts(0) /\ Counts(1)' = Counts(1)
    BY <1>5 DEF Turns!Id
  <2> QED
    BY <1>2, <2>1 DEF PetersonInv, CounterInv
<1> QED
  BY <1>7, <1>8, <1>9, <1>10 DEF PetersonInv

\* Every statement of Peterson's algorithm keeps the invariant,
LEMMA StatementStep ==
  ASSUME PetersonInv, NEW i \in Turns!Id, Turns!Run(i)
  PROVE  PetersonInv'
<1> USE Sides DEF Turns!Goto, Turns!Store
<1>1. PageTypes /\ Pending(i)
  BY DEF PetersonInv, PageTypes
<1>2. /\ DOMAIN pc = Turns!Id /\ DOMAIN buffer = Turns!Id
      /\ round \in [Turns!Id -> Nat] /\ temp \in [Turns!Id -> Nat]
      /\ overtaken \in [Turns!Id -> {0, 1}] /\ memory \in [Turns!Address -> Nat]
  BY <1>1 DEF PageTypes
<1>3. CASE Turns!SetFlag(i)
  <2>1. /\ pc[i] = "flag" /\ pc'[i] = "turn" /\ pc'[1 - i] = pc[1 - i]
        /\ buffer'[i] = Append(buffer[i], SetStore(i)) /\ buffer'[1 - i] = buffer[1 - i]
        /\ DOMAIN pc' = DOMAIN pc /\ DOMAIN buffer' = DOMAIN buffer
        /\ UNCHANGED <<memory, round, temp, overtaken>>
    BY <1>2, <1>3 DEF Turns!SetFlag, SetStore
  <2>2. Pending(i)'
    <3>1. CASE buffer[i] = <<>> /\ memory[Turns!Flag(i)] = 0
      BY <2>1, <3>1, Appended DEF Pending
    <3>2. CASE buffer[i] = <<ClearStore(i)>> /\ memory[Turns!Flag(i)] = 1
      BY <2>1, <3>2, Appended DEF Pending
    <3> QED
      BY <1>1, <2>1, <3>1, <3>2 DEF Pending
  <2>3. Counts(i)' = Counts(i) /\ ~Waits(i)' /\ ~Spins(i)' /\ ~Turns!InCS(i)'
    BY <2>1 DEF Counts, Bit, Waits, Spins, Turns!InCS
  <2> QED
    BY <1>2, <2>1, <2>2, <2>3, QuietStep
<1>4. CASE Turns!SetTurn(i)
  <2>1. /\ pc[i] = "turn" /\ pc'[i] = "fence" /\ pc'[1 - i] = pc[1 - i]
        /\ buffer'[i] = Append(buffer[i], TurnStore(i)) /\ buffer'[1 - i] = buffer[1 - i]
        /\ DOMAIN pc' = DOMAIN pc /\ DOMAIN buffer' = DOMAIN buffer
        /\ UNCHANGED <<memory, round, temp, overtaken>>
    BY <1>2, <1>4 DEF Turns!SetTurn, TurnStore
  <2>2. Pending(i)' /\ buffer'[i] # <<>>
    <3>1. CASE buffer[i] = <<SetStore(i)>> /\ memory[Turns!Flag(i)] = 0
      <4>1. buffer'[i] = <<SetStore(i), TurnStore(i)>>
        BY <2>1, <3>1, Appended
      <4>2. pc'[i] = "fence" /\ memory'[Turns!Flag(i)] = 0
        BY <2>1, <3>1
      <4>3. Pending(i)'
        BY <4>1, <4>2 DEF Pending
      <4>4. buffer'[i] # <<>>
        BY <4>1, Fronts
      <4> QED
        BY <4>3, <4>4
    <3>2. CASE buffer[i] = <<ClearStore(i), SetStore(i)>> /\ memory[Turns!Flag(i)] = 1
      <4>1. buffer'[i] = <<ClearStore(i), SetStore(i), TurnStore(i)>>
        BY <2>1, <3>2, Appended
      <4>2. pc'[i] = "fence" /\ memory'[Turns!Flag(i)] = 1
        BY <2>1, <3>2
      <4>3. Pending(i)'
        BY <4>1, <4>2 DEF Pending
      <4>4. buffer'[i] # <<>>
        BY <4>1, Fronts
      <4> QED
        BY <4>3, <4>4
    <3>3. CASE buffer[i] = <<>> /\ memory[Turns!Flag(i)] = 1
      <4>1. buffer'[i] = <<TurnStore(i)>>
        BY <2>1, <3>3, Appended
      <4>2. pc'[i] = "fence" /\ memory'[Turns!Flag(i)] = 1
        BY <2>1, <3>3
      <4>3. Pending(i)'
        BY <4>1, <4>2 DEF Pending
      <4>4. buffer'[i] # <<>>
        BY <4>1, Fronts
      <4> QED
        BY <4>3, <4>4
    <3> QED
      BY <1>1, <2>1, <3>1, <3>2, <3>3 DEF Pending
  <2>3. Counts(i)' = Counts(i) /\ ~Waits(i)' /\ ~Spins(i)' /\ ~Turns!InCS(i)'
    BY <2>1, <2>2 DEF Counts, Bit, Waits, Spins, Turns!InCS
  <2> QED
    BY <1>2, <2>1, <2>2, <2>3, QuietStep
<1>5. CASE Turns!Fence(i)
  <2>1. /\ pc[i] = "fence" /\ pc'[i] = "spinflag" /\ pc'[1 - i] = pc[1 - i]
        /\ buffer[i] = <<>> /\ DOMAIN pc' = DOMAIN pc
        /\ overtaken' \in [Turns!Id -> {0, 1}] /\ overtaken'[i] = 0
        /\ overtaken'[1 - i] = overtaken[1 - i]
        /\ UNCHANGED <<memory, buffer, round, temp>>
    BY <1>2, <1>5 DEF Turns!Fence
  <2>2. Pending(i)'
    BY <1>1, <2>1, Settled DEF Pending
  <2>3. Counts(i)' = Counts(i) /\ Waits(i) /\ ~Turns!InCS(i)'
    BY <2>1 DEF Counts, Bit, Waits, Turns!InCS
  <2> QED
    BY <1>2, <2>1, <2>2, <2>3, QuietStep
<1>6. CASE Turns!SpinFlag(i)
  <2>1. /\ pc[i] = "spinflag" /\ buffer[i] = <<>> /\ memory[Turns!Flag(i)] = 1
        /\ UNCHANGED <<memory, buffer, round, temp>>
    BY <1>1, <1>6, Settled DEF Turns!SpinFlag
  <2>2. Turns!Load(i, Turns!Flag(1 - i)) = memory[Turns!Flag(1 - i)]
    BY <2>1, LoadsMemory
  <2>3. CASE memory[Turns!Flag(1 - i)] # 1
    <3>1. Turns!Enter(i)
      BY <1>6, <2>2, <2>3 DEF Turns!SpinFlag
    <3> QED
      BY <2>1, <2>3, <3>1, EnterStep DEF Spins
  <2>4. CASE memory[Turns!Flag(1 - i)] = 1
    <3>1. /\ pc'[i] = "spinturn" /\ pc'[1 - i] = pc[1 - i] /\ DOMAIN pc' = DOMAIN pc
          /\ UNCHANGED overtaken
      BY <1>2, <1>6, <2>2, <2>4 DEF Turns!SpinFlag
    <3>2. Pending(i)'
      BY <2>1, <3>1 DEF Pending
    <3>3. Counts(i)' = Counts(i) /\ Waits(i) /\ Spins(i) /\ ~Turns!InCS(i)'
      BY <2>1, <3>1 DEF Counts, Bit, Waits, Spins, Turns!InCS
    <3> QED
      BY <1>2, <2>1, <3>1, <3>2, <3>3, QuietStep
  <2> QED
    BY <2>3, <2>4
<1>7. CASE Turns!SpinTurn(i)
  <2>1. /\ pc[i] = "spinturn" /\ buffer[i] = <<>> /\ memory[Turns!Flag(i)] = 1
        /\ UNCHANGED <<memory, buffer, round, temp>>
    BY <1>1, <1>7, Settled DEF Turns!SpinTurn
  <2>2. Turns!Load(i, "turn") = memory["turn"]
    BY <2>1, LoadsMemory
  <2>3. CASE memory["turn"] # 1 - i
    <3>1. Turns!Enter(i) /\ memory["turn"] = i
      BY <1>1, <1>7, <2>2, <2>3 DEF Turns!SpinTurn, PageTypes
    <3> QED
      BY <2>1, <3>1, EnterStep DEF Spins
  <2>4. CASE memory["turn"] = 1 - i
    <3>1. /\ pc'[i] = "spinflag" /\ pc'[1 - i] = pc[1 - i] /\ DOMAIN pc' = DOMAIN pc
          /\ UNCHANGED overtaken
      BY <1>2, <1>7, <2>2, <2>4 DEF Turns!SpinTurn
    <3>2. Pending(i)'
      BY <2>1, <3>1 DEF Pending
    <3>3. Counts(i)' = Counts(i) /\ Waits(i) /\ Spins(i) /\ ~Turns!InCS(i)'
      BY <2>1, <3>1 DEF Counts, Bit, Waits, Spins, Turns!InCS
    <3> QED
      BY <1>2, <2>1, <3>1, <3>2, <3>3, QuietStep
  <2> QED
    BY <2>3, <2>4
<1>8. CASE Turns!ReadCounter(i)
  <2>1. /\ pc[i] = "load" /\ pc'[i] = "store" /\ pc'[1 - i] = pc[1 - i]
        /\ buffer[i] = <<>> /\ memory[Turns!Flag(i)] = 1 /\ DOMAIN pc' = DOMAIN pc
        /\ temp' = [temp EXCEPT ![i] = Turns!Load(i, "counter")]
        /\ UNCHANGED <<memory, buffer, round, overtaken>>
    BY <1>1, <1>2, <1>8, Settled DEF Turns!ReadCounter
  <2>2. temp' = [temp EXCEPT ![i] = memory["counter"]]
    <3>1. Turns!Load(i, "counter") = memory["counter"]
      BY <2>1, LoadsMemory
    <3>2. temp' = [temp EXCEPT ![i] = Turns!Load(i, "counter")]
      BY <2>1
    <3> QED
      BY ONLY <3>1, <3>2
  <2>3. temp' \in [Turns!Id -> Nat] /\ temp'[i] = memory["counter"] /\ temp'[1 - i] = temp[1 - i]
    BY <1>2, <2>2 DEF Turns!Address
  <2>4. Pending(i)'
    BY <2>1 DEF Pending
  <2>5. Counts(i)' = Counts(i) /\ Turns!InCS(i) /\ ~Waits(i)' /\ ~Spins(i)'
    BY <2>1 DEF Counts, Bit, Waits, Spins, Turns!InCS
  <2> QED
    BY <1>2, <2>1, <2>3, <2>4, <2>5, QuietStep
<1>9. CASE Turns!WriteCounter(i)
  <2>1. /\ pc[i] = "store" /\ pc'[i] = "fence2" /\ pc'[1 - i] = pc[1 - i]
        /\ buffer[i] = <<>> /\ memory[Turns!Flag(i)] = 1 /\ DOMAIN pc' = DOMAIN pc
        /\ buffer'[i] = Append(buffer[i], CountStore(temp[i] + 1))
        /\ buffer'[1 - i] = buffer[1 - i] /\ DOMAIN buffer' = DOMAIN buffer
        /\ UNCHANGED <<memory, round, temp, overtaken>>
    BY <1>1, <1>2, <1>9, Settled DEF Turns!WriteCounter, CountStore
  <2>2. temp[i] = memory["counter"]
    BY <2>1 DEF PetersonInv, CounterInv
  <2>3. buffer'[i] = <<CountStore(memory["counter"] + 1)>> /\ buffer'[i] # <<>>
    BY <2>1, <2>2, Appended, Fronts
  <2>4. Pending(i)'
    BY <2>1, <2>3 DEF Pending
  <2>5. Counts(i)' = Counts(i) /\ Turns!InCS(i) /\ ~Waits(i)' /\ ~Spins(i)'
    BY <2>1, <2>3 DEF Counts, Bit, Waits, Spins, Turns!InCS
  <2> QED
    BY <1>2, <2>1, <2>4, <2>5, QuietStep
<1>10. CASE Turns!Fence2(i)
  <2>1. /\ pc[i] = "fence2" /\ pc'[i] = "clear" /\ pc'[1 - i] = pc[1 - i]
        /\ buffer[i] = <<>> /\ memory[Turns!Flag(i)] = 1 /\ DOMAIN pc' = DOMAIN pc
        /\ UNCHANGED <<memory, buffer, round, temp, overtaken>>
    BY <1>1, <1>2, <1>10, Settled DEF Turns!Fence2
  <2>2. Pending(i)'
    BY <2>1 DEF Pending
  <2>3. Counts(i)' = Counts(i) /\ Turns!InCS(i) /\ ~Waits(i)' /\ ~Spins(i)'
    BY <2>1 DEF Counts, Bit, Waits, Spins, Turns!InCS
  <2> QED
    BY <1>2, <2>1, <2>2, <2>3, QuietStep
<1>11. CASE Turns!ClearFlag(i)
  <2>1. /\ pc[i] = "clear" /\ pc'[i] = "flag" /\ pc'[1 - i] = pc[1 - i]
        /\ buffer[i] = <<>> /\ memory[Turns!Flag(i)] = 1 /\ DOMAIN pc' = DOMAIN pc
        /\ buffer'[i] = Append(buffer[i], ClearStore(i))
        /\ buffer'[1 - i] = buffer[1 - i] /\ DOMAIN buffer' = DOMAIN buffer
        /\ round' \in [Turns!Id -> Nat] /\ round'[i] = round[i] + 1
        /\ round'[1 - i] = round[1 - i]
        /\ UNCHANGED <<memory, temp, overtaken>>
    BY <1>1, <1>2, <1>11, Settled DEF Turns!ClearFlag, ClearStore
  <2>2. Pending(i)'
    BY <2>1, Appended DEF Pending
  <2>3. Counts(i)' = Counts(i) /\ ~Turns!InCS(i)' /\ ~Waits(i)' /\ ~Spins(i)'
    BY <1>2, <2>1 DEF Counts, Bit, Waits, Spins, Turns!InCS
  <2> QED
    BY <1>2, <2>1, <2>2, <2>3, QuietStep
<1> QED
  BY <1>3, <1>4, <1>5, <1>6, <1>7, <1>8, <1>9, <1>10, <1>11 DEF Turns!Run

\* A store that reaches memory: a flag, the turn, or the counter.
LEMMA PetersonCommitStep ==
  ASSUME PetersonInv, NEW i \in Turns!Id, Turns!Commit(i)
  PROVE  PetersonInv'
<1> USE Sides
<1> DEFINE j == 1 - i
<1>1. PageTypes /\ TurnOrder /\ OvertakenLast /\ CounterInv
  BY DEF PetersonInv
<1>2. /\ UNCHANGED <<pc, round, temp, overtaken>>
      /\ buffer'[j] = buffer[j] /\ DOMAIN buffer' = DOMAIN buffer /\ Pending(i)'
  <2>1. UNCHANGED <<pc, round, temp, overtaken>>
    BY DEF Turns!Commit
  <2>2. j \in Turns!Id \ {i}
    OBVIOUS
  <2> QED
    BY <1>1, <2>1, <2>2, CommitCases
<1>3. /\ Spins(i)' = Spins(i) /\ Spins(j)' = Spins(j) /\ Waits(j)' = Waits(j)
      /\ Turns!InCS(i)' = Turns!InCS(i) /\ Turns!InCS(j)' = Turns!InCS(j)
      /\ Counts(j)' = Counts(j)
  BY <1>2 DEF Spins, Waits, Turns!InCS, Counts
<1>4. CASE /\ pc[i] \in {"flag", "turn", "fence"} /\ buffer[i] # <<>>
           /\ pc[i] = "fence" => buffer'[i] # <<>>
           /\ \E v \in {0, 1} : memory' = [memory EXCEPT ![Turns!Flag(i)] = v]
  <2>1. PICK v \in {0, 1} : memory' = [memory EXCEPT ![Turns!Flag(i)] = v]
    BY <1>4
  <2>2. /\ memory' \in [Turns!Address -> Nat]
        /\ memory'["turn"] = memory["turn"] /\ memory'["counter"] = memory["counter"]
        /\ memory'[Turns!Flag(j)] = memory[Turns!Flag(j)]
    BY <1>1, <2>1 DEF PageTypes, Turns!Address
  <2>3. Pending(j)'
    BY <1>1, <1>2, <2>2 DEF PageTypes, Pending
  <2>4. ~Waits(i)' /\ ~Spins(i) /\ Counts(i)' = Counts(i)
    BY <1>2, <1>4 DEF Waits, Spins, Counts
  <2>5. PageTypes'
    BY <1>1, <1>2, <2>2, <2>3 DEF PageTypes
  <2>6. TurnOrder' /\ OvertakenLast'
    BY <1>1, <1>2, <1>3, <2>2, <2>4 DEF TurnOrder, OvertakenLast
  <2>7. CounterInv'
    <3>1. Counts(0)' = Counts(0) /\ Counts(1)' = Counts(1)
      BY <1>3, <2>4 DEF Turns!Id
    <3> QED
      BY <1>1, <1>2, <2>2, <3>1 DEF CounterInv
  <2> QED
    BY <2>5, <2>6, <2>7 DEF PetersonInv
<1>5. CASE /\ pc[i] = "fence" /\ buffer[i] # <<>> /\ buffer'[i] = <<>>
           /\ memory' = [memory EXCEPT !["turn"] = j]
  <2>1. /\ memory' \in [Turns!Address -> Nat]
        /\ memory'["turn"] = j /\ memory'["counter"] = memory["counter"]
        /\ memory'[Turns!Flag(j)] = memory[Turns!Flag(j)]
    BY <1>1, <1>5 DEF PageTypes, Turns!Address, Turns!Id
  <2>2. Pending(j)'
    BY <1>1, <1>2, <2>1 DEF PageTypes, Pending
  <2>3. ~Turns!InCS(i) /\ ~Spins(i) /\ Counts(i)' = Counts(i)
    BY <1>2, <1>5 DEF Turns!InCS, Spins, Counts
  <2>4. PageTypes'
    BY <1>1, <1>2, <2>1, <2>2 DEF PageTypes
  <2>5. TurnOrder' /\ OvertakenLast'
    BY <1>1, <1>2, <1>3, <2>1, <2>3 DEF TurnOrder, OvertakenLast
  <2>6. CounterInv'
    <3>1. Counts(0)' = Counts(0) /\ Counts(1)' = Counts(1)
      BY <1>3, <2>3 DEF Turns!Id
    <3> QED
      BY <1>1, <1>2, <2>1, <3>1 DEF CounterInv
  <2> QED
    BY <2>4, <2>5, <2>6 DEF PetersonInv
<1>6. CASE /\ pc[i] = "fence2" /\ buffer[i] # <<>> /\ buffer'[i] = <<>>
           /\ memory' = [memory EXCEPT !["counter"] = @ + 1]
  <2>1. /\ memory' \in [Turns!Address -> Nat] /\ memory["counter"] \in Nat
        /\ memory'["turn"] = memory["turn"] /\ memory'["counter"] = memory["counter"] + 1
        /\ memory'[Turns!Flag(j)] = memory[Turns!Flag(j)]
    BY <1>1, <1>6 DEF PageTypes, Turns!Address
  <2>2. Turns!InCS(i) /\ ~Turns!InCS(j)
    BY <1>1, <1>6 DEF TurnOrder, Turns!InCS
  <2>3. Pending(j)'
    BY <1>1, <1>2, <2>1, <2>2 DEF PageTypes, Pending, Turns!InCS
  <2>4. ~Waits(i)' /\ ~Spins(i) /\ Counts(i)' = Counts(i) + 1
    BY <1>1, <1>2, <1>6 DEF Waits, Spins, Counts, Bit, PageTypes
  <2>5. PageTypes'
    BY <1>1, <1>2, <2>1, <2>3 DEF PageTypes
  <2>6. TurnOrder' /\ OvertakenLast'
    BY <1>1, <1>2, <1>3, <2>1, <2>4 DEF TurnOrder, OvertakenLast
  <2>7. CounterInv'
    <3>1. Counts(i) \in Nat /\ Counts(j) \in Nat
      BY <1>1 DEF PageTypes, Counts, Bit
    <3>2. Counts(0)' + Counts(1)' = Counts(0) + Counts(1) + 1
      BY <1>3, <2>4, <3>1 DEF Turns!Id
    <3>3. pc'[i] # "store" /\ pc'[j] # "store"
      BY <1>2, <1>6, <2>2 DEF Turns!InCS
    <3> QED
      BY <1>1, <2>1, <3>2, <3>3 DEF CounterInv
  <2> QED
    BY <2>5, <2>6, <2>7 DEF PetersonInv
<1> QED
  BY <1>1, <1>4, <1>5, <1>6, CommitCases

-------------------------------------------------------------------------------
(***************************************************************************)
(* The theorems                                                            *)
(***************************************************************************)
PetersonPart == program = "peterson" => PetersonInv

OrderPart == program \in Ordered => OrderInv

\* The inductive invariant: that of the program that runs, whichever it is.
ProgramsInv == PetersonPart /\ BufferPart /\ DataPart /\ OrderPart

\* which holds at the start
LEMMA PetersonStarts == Init => PetersonPart
<1> SUFFICES ASSUME Init, program = "peterson"
             PROVE  PetersonInv
  BY DEF PetersonPart
<1>1. Turns!Init
  BY DEF Init, Ordered
<1>2. /\ \A i \in Turns!Id : /\ pc[i] = "flag" /\ buffer[i] = <<>> /\ round[i] = 0
                             /\ temp[i] = 0 /\ overtaken[i] = 0
      /\ \A a \in Turns!Address : memory[a] = 0
      /\ memory \in [Turns!Address -> Nat]
      /\ DOMAIN buffer = Turns!Id /\ DOMAIN pc = Turns!Id
      /\ round \in [Turns!Id -> Nat] /\ temp \in [Turns!Id -> Nat]
      /\ overtaken \in [Turns!Id -> {0, 1}]
  BY <1>1 DEF Turns!Init
<1>3. PageTypes
  BY <1>2, Sides DEF PageTypes, Pending, Turns!Address, Turns!Id
<1>4. TurnOrder /\ OvertakenLast
  BY <1>2, Sides DEF TurnOrder, OvertakenLast, Turns!InCS, Spins
<1>5. CounterInv
  BY <1>2 DEF CounterInv, Counts, Bit, Turns!Id, Turns!Address
<1> QED
  BY <1>3, <1>4, <1>5 DEF PetersonInv

\* and which the other programs leave alone.
LEMMA PetersonStep == PetersonPart /\ [Next]_vars => PetersonPart'
<1> SUFFICES ASSUME PetersonPart, [Next]_vars, program' = "peterson"
             PROVE  PetersonInv'
  BY DEF PetersonPart
<1>1. CASE UNCHANGED vars
  <2>1. PetersonInv /\ UNCHANGED <<memory, buffer, pc, round, temp, overtaken>>
    BY <1>1 DEF PetersonPart, vars, pageVars
  <2> QED
    BY <2>1 DEF PetersonInv, PageTypes, TurnOrder, OvertakenLast, CounterInv, Pending,
                Waits, Spins, Counts, Turns!InCS
<1>2. CASE \E p \in Process : Run(p)
  <2>1. PICK p \in Process : Run(p)
    BY <1>2
  <2>2. program = "peterson" /\ p \in Turns!Id /\ Turns!Run(p)
    BY <2>1 DEF Run, Ordered
  <2> QED
    BY <2>2, StatementStep DEF PetersonPart
<1>3. CASE \E i \in Turns!Id : Commit(i)
  <2>1. PICK i \in Turns!Id : Commit(i)
    BY <1>3
  <2>2. program = "peterson" /\ Turns!Commit(i)
    BY <2>1 DEF Commit
  <2> QED
    BY <2>2, PetersonCommitStep DEF PetersonPart
<1> QED
  BY <1>1, <1>2, <1>3 DEF Next

\* What it says of the critical section, of the counter and of the order.
LEMMA PetersonSafe ==
  PetersonInv => Turns!MutualExclusion /\ Turns!CounterCorrect /\ Turns!OvertakenOnce
<1> SUFFICES ASSUME PetersonInv
             PROVE  Turns!MutualExclusion /\ Turns!CounterCorrect /\ Turns!OvertakenOnce
  OBVIOUS
<1>1. Turns!MutualExclusion
  BY DEF PetersonInv, TurnOrder, Turns!MutualExclusion, Turns!Id
<1>2. Turns!CounterCorrect
  <2>1. SUFFICES ASSUME \A i \in Turns!Id : pc[i] \notin {"store", "fence2"}
                 PROVE  memory["counter"] = Turns!Written(0) + Turns!Written(1)
    BY DEF Turns!CounterCorrect
  <2>2. \A i \in Turns!Id : Counts(i) = Turns!Written(i)
    BY <2>1 DEF Counts, Bit, Turns!Written
  <2> QED
    BY <2>2 DEF PetersonInv, CounterInv, Turns!Id
<1>3. Turns!OvertakenOnce
  BY DEF PetersonInv, PageTypes, Turns!OvertakenOnce
<1> QED
  BY <1>1, <1>2, <1>3

\* All programs begin in states of their invariants.
LEMMA ProgramsStart == Init => ProgramsInv
BY PetersonStarts, BufferStarts, DataStarts, OrderStarts DEF ProgramsInv, OrderPart

\* Every step of any of them keeps the invariants of all.
LEMMA ProgramsStep == ProgramsInv /\ [Next]_vars => ProgramsInv'
<1> SUFFICES ASSUME ProgramsInv, [Next]_vars
             PROVE  ProgramsInv'
  OBVIOUS
<1>1. OrderPart'
  <2>1. program' = program
    BY DEF Next, Run, Commit, vars
  <2> QED
    BY <2>1, OrderStep DEF ProgramsInv, OrderPart
<1> QED
  BY <1>1, PetersonStep, BufferStep, DataStep DEF ProgramsInv

\* So they hold of every reachable state.
LEMMA ProgramsAlways == Spec => []ProgramsInv
BY ProgramsStart, ProgramsStep, PTL DEF Spec

(***************************************************************************)
(* Whatever the numbers of rounds, slots, items, readers and writers: the  *)
(* two processes of peterson.c, whose stores reach memory late but in      *)
(* order, the two sides of the circular buffer of prodcons.c and           *)
(* synctest.c, and a writer of readwrite.c and everybody else, are never   *)
(* in their critical sections together.                                    *)
(***************************************************************************)
THEOREM CriticalSectionsExclusive == Spec => []MutualExclusion
<1>1. ProgramsInv => MutualExclusion
  BY PetersonSafe, BufferSafe, DataSafe DEF ProgramsInv, PetersonPart, MutualExclusion
<1> QED
  BY <1>1, ProgramsAlways, PTL

(***************************************************************************)
(* Peterson's algorithm loses no increment of the shared counter: when     *)
(* nobody is between its read and its second barrier, memory shows every   *)
(* increment made.                                                         *)
(***************************************************************************)
THEOREM NoIncrementLost == Spec => []CounterCorrect
<1>1. ProgramsInv => CounterCorrect
  BY PetersonSafe DEF ProgramsInv, PetersonPart, CounterCorrect
<1> QED
  BY <1>1, ProgramsAlways, PTL

(***************************************************************************)
(* Past its barrier a process of peterson.c is overtaken at most once, and *)
(* no reader of readwrite.c enters between a writer's passing of the       *)
(* turnstile and its write.                                                *)
(***************************************************************************)
THEOREM OvertakingBounded == Spec => []NotOvertaken
<1>1. ProgramsInv => NotOvertaken
  BY PetersonSafe, DataSafe DEF ProgramsInv, PetersonPart, NotOvertaken
<1> QED
  BY <1>1, ProgramsAlways, PTL

(***************************************************************************)
(* With the resources taken in ascending order no set of workers ever      *)
(* waits for itself, for any number of philosophers (dining.c), in the     *)
(* fixed case of resourceorder.c and in syncdeadlock.c.                    *)
(***************************************************************************)
THEOREM OrderPreventsDeadlock == Spec => []NoCircularWait
<1>1. ProgramsInv => NoCircularWait
  BY OrderSafe DEF ProgramsInv, OrderPart, NoCircularWait
<1> QED
  BY <1>1, ProgramsAlways, PTL

(***************************************************************************)
(* For every number of slots and items the circular buffer of prodcons.c   *)
(* and synctest.c implements the first-in first-out channel of Channel:    *)
(* every step of it sends the next item, receives the oldest one or leaves *)
(* the channel alone.                                                      *)
(***************************************************************************)
THEOREM BufferIsChannel == Spec => ImplementsChannel
<1>1. Init => Buffer!FIFO!Init
  <2> SUFFICES ASSUME Init
               PROVE  Buffer!FIFO!Init
    OBVIOUS
  <2>1. BufferPart /\ produced = 0 /\ consumed = 0 /\ item = 0
    BY BufferStarts DEF Init, NoBuffer, Buffer!BufferInit
  <2>2. Buffer!Stored = Items(0, 0)
    BY <2>1, StoredIsItems DEF Stock
  <2>3. Items(0, 0) = <<>>
    BY ItemsProperties
  <2> QED
    BY <2>1, <2>2, <2>3 DEF Buffer!FIFO!Init
<1> QED
  BY <1>1, ProgramsAlways, ChannelStep, PTL
  DEF Spec, ImplementsChannel, Buffer!ImplementsChannel, Buffer!FIFO!Spec, ProgramsInv
===============================================================================
