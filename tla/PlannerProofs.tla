---------------------------- MODULE PlannerProofs ----------------------------
(***************************************************************************)
(* The planner of one house code, for any number of addresses, any classes *)
(* of devices and any number of DIM levels.                                *)
(***************************************************************************)
EXTENDS Planner, FiniteSetTheorems, SequenceTheorems, TLAPS

-----------------------------------------------------------------------------
(* Finite sets of integers.                                                 *)

(* A non-empty set of finite subsets of S has a smallest member: induction  *)
(* over the subsets of a finite set.                                       *)
LEMMA SmallestSubset ==
    ASSUME NEW S, IsFiniteSet(S), NEW T \in SUBSET SUBSET S, T # {}
    PROVE  \E X \in T : \A Y \in T : ~(Y \subseteq X /\ Y # X)
  <1>1. T \subseteq FiniteSubsetsOf(S)
    BY FS_Subset DEF FiniteSubsetsOf
  <1>2. PICK X \in T : \A Y \in T : <<Y, X>> \notin StrictSubsetOrdering(S)
    BY <1>1, WFMin, FS_StrictSubsetOrderingWellFounded
  <1> QED
    BY <1>2 DEF StrictSubsetOrdering

LEMMA MinimumExists ==
    ASSUME NEW S, IsFiniteSet(S), \A x \in S : x \in Int, S # {}
    PROVE  Min(S) \in S /\ \A y \in S : Min(S) <= y
  <1> DEFINE T == {X \in SUBSET S : X # {} /\ ~\E x \in X : \A y \in X : x <= y}
  <1>1. SUFFICES T = {}
    <2>1. \E x \in S : \A y \in S : x <= y
      BY <1>1
    <2> QED
      BY <2>1 DEF Min
  <1>2. SUFFICES ASSUME T # {} PROVE FALSE
    OBVIOUS
  <1>3. PICK X \in T : \A Y \in T : ~(Y \subseteq X /\ Y # X)
    <2>1. T \in SUBSET SUBSET S /\ T # {}
      BY <1>2
    <2> HIDE DEF T
    <2> QED
      BY <2>1, SmallestSubset
  <1>4. PICK x \in X : TRUE
    BY <1>3
  <1>5. X \ {x} \notin T
    BY <1>3, <1>4
  <1>6. CASE X \ {x} = {}
    BY <1>3, <1>4, <1>6
  <1>7. CASE X \ {x} # {}
    <2>1. PICK z \in X \ {x} : \A y \in X \ {x} : z <= y
      BY <1>3, <1>5, <1>7
    <2>2. x \in Int /\ z \in Int /\ X \subseteq Int
      BY <1>3, <1>4, <2>1
    <2>3. CASE x <= z
      BY <1>3, <1>4, <2>1, <2>2, <2>3
    <2>4. CASE z <= x
      BY <1>3, <1>4, <2>1, <2>2, <2>4
    <2> QED
      BY <2>2, <2>3, <2>4
  <1> QED
    BY <1>6, <1>7

(* Induction up to n, by the smallest counterexample.                        *)
LEMMA InductionUpTo ==
    ASSUME NEW n \in Nat, NEW T, 0 \in T, \A i \in 0..(n - 1) : i \in T => i + 1 \in T
    PROVE  \A i \in 0..n : i \in T
  <1> DEFINE S == {i \in 0..n : i \notin T}
  <1>1. SUFFICES ASSUME S # {} PROVE FALSE
    OBVIOUS
  <1>2. IsFiniteSet(S) /\ \A x \in S : x \in Int
    <2>1. IsFiniteSet(0..n) /\ S \subseteq 0..n /\ \A x \in 0..n : x \in Int
      BY FS_Interval
    <2> HIDE DEF S
    <2> QED
      BY <2>1, FS_Subset
  <1>3. Min(S) \in S /\ \A y \in S : Min(S) <= y
    BY <1>1, <1>2, MinimumExists
  <1> DEFINE m == Min(S)
  <1>4. m \in 0..n /\ m \notin T /\ \A y \in S : m <= y
    BY <1>3
  <1> HIDE DEF m
  <1>5. m # 0 /\ m - 1 \in 0..(n - 1) /\ (m - 1) + 1 = m
    BY <1>4
  <1>6. m - 1 \notin S
    BY <1>4, <1>5
  <1>7. m - 1 \in T
    BY <1>5, <1>6
  <1> QED
    BY <1>4, <1>5, <1>7

(* A function on 0..n can be defined by what it is at 0 and by each of its    *)
(* steps.                                                                   *)
Iterates(h, n, X, x, G) == /\ h \in [0..n -> X] /\ h[0] = x
                           /\ \A i \in 1..n : h[i] = G[i][h[i - 1]]

LEMMA RecursionUpTo ==
    ASSUME NEW n \in Nat, NEW X, NEW x \in X, NEW G \in [1..n -> [X -> X]]
    PROVE  \E h : Iterates(h, n, X, x, G)
  <1> DEFINE Upto(i, h) == /\ h \in [0..i -> X] /\ h[0] = x
                           /\ \A j \in 1..i : h[j] = G[j][h[j - 1]]
             T == {i \in 0..n : \E h : Upto(i, h)}
  <1>1. 0 \in T
    <2>1. Upto(0, [i \in 0..0 |-> x])
      OBVIOUS
    <2>2. \E h : Upto(0, h)
      BY <2>1
    <2>3. 0 \in 0..n
      OBVIOUS
    <2> HIDE DEF Upto
    <2> QED
      BY <2>2, <2>3
  <1>2. ASSUME NEW i \in 0..(n - 1), i \in T PROVE i + 1 \in T
    <2>1. PICK h : Upto(i, h)
      BY <1>2
    <2> DEFINE last == G[i + 1][h[i]]
               g == [j \in 0..(i + 1) |-> IF j = i + 1 THEN last ELSE h[j]]
    <2>2. i \in 0..i /\ i + 1 \in 1..n /\ i \in Nat /\ i + 1 \in 0..n
      OBVIOUS
    <2>3. last \in X
      BY <2>1, <2>2
    <2> HIDE DEF last
    <2>4. /\ \A j \in 0..i : j # i + 1 /\ j \in 0..(i + 1)
          /\ \A j \in 0..(i + 1) : j \in 0..i \/ j = i + 1
          /\ i + 1 \in 0..(i + 1) /\ 0 \in 0..i
      BY <2>2
    <2>5. (\A j \in 0..i : g[j] = h[j]) /\ g[i + 1] = last
      BY <2>4
    <2>6. g \in [0..(i + 1) -> X] /\ g[0] = x
      BY <2>1, <2>3, <2>4, <2>5
    <2>7. ASSUME NEW j \in 1..(i + 1) PROVE g[j] = G[j][g[j - 1]]
      <3>1. CASE j = i + 1
        <4>1. j - 1 = i
          BY <2>2, <3>1
        <4> QED
          BY <2>2, <2>5, <3>1, <4>1 DEF last
      <3>2. CASE j # i + 1
        <4>1. j \in 1..i /\ j \in 0..i /\ j - 1 \in 0..i
          BY <2>2, <3>2
        <4> QED
          BY <2>1, <2>5, <4>1
      <3> QED
        BY <3>1, <3>2
    <2> HIDE DEF g
    <2>8. Upto(i + 1, g)
      BY <2>6, <2>7
    <2> QED
      BY <2>2, <2>8
  <1>3. n \in T
    <2>1. n \in 0..n
      OBVIOUS
    <2> HIDE DEF T
    <2> QED
      BY <1>1, <1>2, <2>1, InductionUpTo
  <1> QED
    BY <1>3 DEF Iterates

(* Every i-th of a set is there.                                            *)
HasNth(X, i) == \E u \in X : Cardinality({v \in X : v < u}) = i - 1
Ranked(X) == \A i \in 1..Cardinality(X) : HasNth(X, i)

LEMMA RankedWithSmaller ==
    ASSUME NEW X, IsFiniteSet(X), \A y \in X : y \in Int,
           NEW x \in X, \A y \in X : x <= y, Ranked(X \ {x})
    PROVE  Ranked(X)
  <1> DEFINE Y == X \ {x}
  <1>1. IsFiniteSet(Y) /\ Cardinality(Y) = Cardinality(X) - 1 /\ Cardinality(X) \in Nat
    BY FS_RemoveElement, FS_CardinalityType
  <1>2. SUFFICES ASSUME NEW i \in 1..Cardinality(X) PROVE HasNth(X, i)
    BY DEF Ranked
  <1>3. CASE i = 1
    <2>1. {v \in X : v < x} = {}
      OBVIOUS
    <2>2. Cardinality({v \in X : v < x}) = i - 1
      BY <1>3, <2>1, FS_EmptySet
    <2> QED
      BY <2>2 DEF HasNth
  <1>4. CASE i # 1
    <2>1. i - 1 \in 1..Cardinality(Y)
      BY <1>1, <1>4
    <2>2. PICK u \in Y : Cardinality({v \in Y : v < u}) = (i - 1) - 1
      BY <2>1 DEF Ranked, HasNth
    <2> DEFINE below == {v \in Y : v < u}
    <2>3. {v \in X : v < u} = below \cup {x}
      BY <2>2
    <2>4. x \notin below /\ below \subseteq Y
      OBVIOUS
    <2>5. Cardinality(below) = i - 2
      BY <1>1, <1>2, <2>2
    <2> HIDE DEF below, Y
    <2>6. IsFiniteSet(below)
      BY <1>1, <2>4, FS_Subset
    <2>7. Cardinality(below \cup {x}) = Cardinality(below) + 1
      BY <2>4, <2>6, FS_AddElement
    <2>8. u \in X
      BY <2>2 DEF Y
    <2>9. (i - 2) + 1 = i - 1
      BY <1>2
    <2>10. Cardinality({v \in X : v < u}) = i - 1
      BY <2>3, <2>5, <2>7, <2>9
    <2> QED
      BY <2>8, <2>10 DEF HasNth
  <1> QED
    BY <1>3, <1>4

(* The i-th of a finite set of integers is one of them.                     *)
LEMMA NthIsMember ==
    ASSUME NEW S, IsFiniteSet(S), \A x \in S : x \in Int, NEW i \in 1..Cardinality(S)
    PROVE  Nth(S, i) \in S
  <1> DEFINE T == {X \in SUBSET S : ~Ranked(X)}
  <1>1. SUFFICES T = {}
    <2>1. HasNth(S, i)
      BY <1>1 DEF Ranked
    <2> QED
      BY <2>1 DEF HasNth, Nth
  <1>2. SUFFICES ASSUME T # {} PROVE FALSE
    OBVIOUS
  <1>3. PICK X \in T : \A Y \in T : ~(Y \subseteq X /\ Y # X)
    <2>1. T \in SUBSET SUBSET S /\ T # {}
      BY <1>2
    <2> HIDE DEF T
    <2> QED
      BY <2>1, SmallestSubset
  <1>4. X \subseteq S /\ IsFiniteSet(X) /\ \A x \in X : x \in Int
    BY <1>3, FS_Subset
  <1>5. ~Ranked(X)
    BY <1>3
  <1>6. X # {}
    <2>1. Cardinality({}) = 0
      BY FS_EmptySet
    <2>2. Ranked({})
      BY <2>1 DEF Ranked
    <2> QED
      BY <1>5, <2>2
  <1>7. PICK x \in X : \A y \in X : x <= y
    BY <1>4, <1>6, MinimumExists
  <1>8. Ranked(X \ {x})
    BY <1>3, <1>4, <1>7
  <1> QED
    BY <1>4, <1>5, <1>7, <1>8, RankedWithSmaller

-----------------------------------------------------------------------------
(* Plans.                                                                   *)

LEMMA UnitsAreFinite ==
    ASSUME NEW S \in SUBSET Units
    PROVE  /\ IsFiniteSet(S) /\ \A u \in S : u \in Int
           /\ Cardinality(S) \in Nat /\ Cardinality(S) <= NumUnits
  <1>1. NumUnits \in Nat /\ NumUnits > 0
    BY PlannerAssumption DEF PlannerAssumption
  <1>2. IsFiniteSet(0..(NumUnits - 1)) /\ Cardinality(0..(NumUnits - 1)) = NumUnits
    BY <1>1, FS_Interval
  <1>3. IsFiniteSet(Units) /\ Cardinality(Units) = NumUnits
    BY <1>2 DEF Units
  <1>4. IsFiniteSet(S) /\ Cardinality(S) <= NumUnits /\ Cardinality(S) \in Nat
    BY <1>3, FS_Subset, FS_CardinalityType
  <1> QED
    BY <1>1, <1>4 DEF Units

LEMMA OrderType ==
    ASSUME NEW S \in SUBSET Units, NEW f \in Functions, NEW n \in Nat
    PROVE  /\ Order(S, f, n) \in Seq(Messages)
           /\ Len(Order(S, f, n)) = Cardinality(S) + n
  <1> DEFINE addresses == [i \in 1..Cardinality(S) |-> Address(Nth(S, i))]
             functions == [i \in 1..n |-> Command(f)]
  <1>1. addresses \in [1..Cardinality(S) -> Messages]
    BY UnitsAreFinite, NthIsMember DEF Messages
  <1>2. functions \in [1..n -> Messages]
    BY DEF Messages
  <1>3. addresses \in Seq(Messages) /\ Len(addresses) = Cardinality(S)
    BY <1>1, UnitsAreFinite
  <1>4. functions \in Seq(Messages) /\ Len(functions) = n
    BY <1>2
  <1>5. Order(S, f, n) = addresses \o functions
    BY DEF Order
  <1> HIDE DEF addresses, functions
  <1> QED
    BY <1>3, <1>4, <1>5, ConcatProperties

\* Unit u is among the first n messages of q.
Addressed(q, n, u) == \E i \in 1..n : q[i] = Address(u)

(* The messages of an order: the members of S, each at its rank, then f.     *)
LEMMA OrderMessages ==
    ASSUME NEW S \in SUBSET Units, NEW f \in Functions, NEW n \in Nat
    PROVE  LET c == Cardinality(S)
               q == Order(S, f, n)
           IN  /\ c \in Nat /\ q \in Seq(Messages) /\ Len(q) = c + n
               /\ \A i \in 1..c : Nth(S, i) \in S /\ q[i] = Address(Nth(S, i))
               /\ \A i \in (c + 1)..(c + n) : q[i] = Command(f)
  <1> DEFINE c == Cardinality(S)
             q == Order(S, f, n)
             addresses == [i \in 1..c |-> Address(Nth(S, i))]
             functions == [i \in 1..n |-> Command(f)]
  <1>1. c \in Nat /\ IsFiniteSet(S) /\ \A u \in S : u \in Int
    BY UnitsAreFinite
  <1>2. q \in Seq(Messages) /\ Len(q) = c + n
    BY OrderType
  <1>3. \A i \in 1..c : Nth(S, i) \in S
    BY <1>1, NthIsMember
  <1>4. addresses \in [1..c -> Messages] /\ functions \in [1..n -> Messages]
    BY <1>3 DEF Messages
  <1>5. /\ addresses \in Seq(Messages) /\ Len(addresses) = c
        /\ functions \in Seq(Messages) /\ Len(functions) = n
    BY <1>1, <1>4
  <1>6. q = addresses \o functions
    BY DEF Order
  <1>7. /\ \A i \in 1..c : addresses[i] = Address(Nth(S, i))
        /\ \A i \in 1..n : functions[i] = Command(f)
    OBVIOUS
  <1> HIDE DEF addresses, functions, c, q
  <1>8. ASSUME NEW i \in 1..c PROVE q[i] = addresses[i]
    BY <1>1, <1>5, <1>6, ConcatProperties
  <1>9. ASSUME NEW i \in (c + 1)..(c + n) PROVE q[i] = functions[i - c] /\ i - c \in 1..n
    <2>1. i \in 1..(c + n) /\ ~(i <= c) /\ i - c \in 1..n
      BY <1>1
    <2> QED
      BY <1>5, <1>6, <2>1, ConcatProperties
  <1>10. /\ c \in Nat /\ q \in Seq(Messages) /\ Len(q) = c + n
         /\ \A i \in 1..c : Nth(S, i) \in S /\ q[i] = Address(Nth(S, i))
         /\ \A i \in (c + 1)..(c + n) : q[i] = Command(f)
    BY <1>1, <1>2, <1>3, <1>7, <1>8, <1>9
  <1> QED
    BY <1>10 DEF c, q

\* Every member of S has a rank of its own.
LEMMA NthOfRank ==
    ASSUME NEW S \in SUBSET Units, NEW u \in S
    PROVE  \E i \in 1..Cardinality(S) : Nth(S, i) = u
  <1> DEFINE below(w) == {v \in S : v < w}
             i == Cardinality(below(u)) + 1
  <1>1. IsFiniteSet(S) /\ Cardinality(S) \in Nat /\ \A v \in S : v \in Int
    BY UnitsAreFinite
  <1>2. ASSUME NEW w \in S, NEW T, IsFiniteSet(T), below(w) \subseteq T, w \in T
        PROVE  Cardinality(below(w)) < Cardinality(T)
    <2>1. below(w) # T
      BY <1>1, <1>2
    <2> HIDE DEF below
    <2>2. Cardinality(below(w)) <= Cardinality(T) /\ Cardinality(below(w)) # Cardinality(T)
      BY <1>2, <2>1, FS_Subset
    <2>3. Cardinality(T) \in Nat /\ Cardinality(below(w)) \in Nat
      BY <1>2, FS_Subset, FS_CardinalityType
    <2> QED
      BY <2>2, <2>3
  <1>3. i \in 1..Cardinality(S)
    <2>1. Cardinality(below(u)) < Cardinality(S)
      BY <1>1, <1>2
    <2>2. IsFiniteSet(below(u))
      BY <1>1, FS_Subset
    <2>3. Cardinality(below(u)) \in Nat
      BY <2>2, FS_CardinalityType
    <2> QED
      BY <1>1, <2>1, <2>3
  <1> DEFINE w == Nth(S, i)
  <1>4. Cardinality(below(u)) \in Int /\ Cardinality(below(u)) = i - 1
    <2>1. IsFiniteSet(below(u))
      BY <1>1, FS_Subset
    <2>2. Cardinality(below(u)) \in Nat
      BY <2>1, FS_CardinalityType
    <2> QED
      BY <2>2
  <1>5. w \in S /\ Cardinality(below(w)) = Cardinality(below(u))
    <2>1. \E x \in S : Cardinality({v \in S : v < x}) = i - 1
      BY <1>4
    <2>2. w \in S /\ Cardinality({v \in S : v < w}) = i - 1
      BY <2>1 DEF Nth
    <2> QED
      BY <1>4, <2>2
  <1> HIDE DEF i, w
  <1>6. ~(w < u)
    <2>1. SUFFICES ASSUME w < u PROVE FALSE
      OBVIOUS
    <2>2. below(w) \subseteq below(u) /\ w \in below(u)
      BY <1>1, <1>5, <2>1
    <2>3. IsFiniteSet(below(u))
      BY <1>1, FS_Subset
    <2>4. Cardinality(below(w)) < Cardinality(below(u))
      BY <1>2, <1>5, <2>2, <2>3
    <2> QED
      BY <1>4, <1>5, <2>4
  <1>7. ~(u < w)
    <2>1. SUFFICES ASSUME u < w PROVE FALSE
      OBVIOUS
    <2>2. below(u) \subseteq below(w) /\ u \in below(w)
      BY <1>1, <1>5, <2>1
    <2>3. IsFiniteSet(below(w))
      BY <1>1, FS_Subset
    <2>4. Cardinality(below(u)) < Cardinality(below(w))
      BY <1>2, <2>2, <2>3
    <2> QED
      BY <1>4, <1>5, <2>4
  <1>8. w = u
    BY <1>1, <1>5, <1>6, <1>7
  <1> QED
    BY <1>3, <1>8 DEF w

(* An order addresses the members of S and nobody else.                      *)
LEMMA OrderAddresses ==
    ASSUME NEW S \in SUBSET Units, NEW f \in Functions, NEW n \in Nat, NEW u \in Units
    PROVE  Addressed(Order(S, f, n), Cardinality(S), u) <=> u \in S
  <1>1. \A i \in 1..Cardinality(S) :
            Nth(S, i) \in S /\ Order(S, f, n)[i] = Address(Nth(S, i))
    BY OrderMessages
  <1>2. \A v \in S : Address(v) = Address(u) => v = u
    BY DEF Address
  <1>3. u \in S => \E i \in 1..Cardinality(S) : Nth(S, i) = u
    BY NthOfRank
  <1> QED
    BY <1>1, <1>2, <1>3 DEF Addressed

(* What fits the queue.                                                     *)
IsPlan(p) == /\ p \in Seq(Messages)
             /\ Len(p) <= NumUnits + MaxDim \/ Len(p) = AllOffRepeatCount

LEMMA OrderIsPlan ==
    ASSUME NEW S \in SUBSET Units, NEW f \in Functions, NEW n \in 1..MaxDim
    PROVE  IsPlan(Order(S, f, n)) /\ Order(S, f, n) # <<>>
  <1>1. n \in Nat /\ n <= MaxDim /\ 1 <= n /\ NumUnits \in Nat /\ MaxDim \in Nat
    BY PlannerAssumption, MaxDimAssumption DEF PlannerAssumption, MaxDimAssumption
  <1>2. Order(S, f, n) \in Seq(Messages) /\ Len(Order(S, f, n)) = Cardinality(S) + n
    BY <1>1, OrderType
  <1>3. Cardinality(S) \in Nat /\ Cardinality(S) <= NumUnits
    BY UnitsAreFinite
  <1>4. Len(Order(S, f, n)) <= NumUnits + MaxDim /\ Len(Order(S, f, n)) > 0
    BY <1>1, <1>2, <1>3
  <1> QED
    BY <1>2, <1>4 DEF IsPlan

LEMMA NothingIsPlan == IsPlan(<<>>)
  BY PlannerAssumption, MaxDimAssumption DEF PlannerAssumption, MaxDimAssumption, IsPlan

LEMMA LevelsArePlan ==
    ASSUME NEW f \in Functions, NEW levels \in [Units -> Int]
    PROVE  /\ IsPlan(UpdateLevels(f, levels))
           /\ UpdateLevels(f, levels) = <<>> => \A u \in Units : levels[u] \notin 1..MaxDim
  <1> DEFINE steps == {levels[u] : u \in Units} \cap 1..MaxDim
             S == {u \in Units : levels[u] >= Min(steps)}
  <1>1. CASE steps = {}
    <2>1. UpdateLevels(f, levels) = <<>>
      BY <1>1 DEF UpdateLevels
    <2> QED
      BY <1>1, <2>1, NothingIsPlan
  <1>2. CASE steps # {}
    <2>1. IsFiniteSet(1..MaxDim) /\ steps \subseteq 1..MaxDim
      BY FS_Interval, MaxDimAssumption DEF MaxDimAssumption
    <2>2. IsFiniteSet(steps) /\ \A x \in steps : x \in Int
      BY <2>1, FS_Subset
    <2>3. UpdateLevels(f, levels) = Order(S, f, Min(steps))
      BY <1>2 DEF UpdateLevels
    <2> HIDE DEF steps
    <2>4. Min(steps) \in 1..MaxDim
      BY <1>2, <2>1, <2>2, MinimumExists
    <2>5. S \in SUBSET Units
      OBVIOUS
    <2> HIDE DEF S
    <2> QED
      BY <2>3, <2>4, <2>5, OrderIsPlan
  <1> QED
    BY <1>1, <1>2

LEMMA DimLevelsType ==
    ASSUME NEW D \in [Units -> Devices], NEW u \in Units
    PROVE  DimLevels(D, u) \in Int
  BY MaxDimAssumption DEF MaxDimAssumption, DimLevels, Devices, States, Off, RefreshWanted

LEMMA DimsArePlan ==
    ASSUME NEW D \in [Units -> Devices]
    PROVE  /\ IsPlan(UpdateDim(D))
           /\ UpdateDim(D) = <<>> => \A u \in Units : DimLevels(D, u) \notin 1..MaxDim
           /\ IsPlan(UpdateBright(D))
           /\ UpdateBright(D) = <<>> => \A u \in Units : -DimLevels(D, u) \notin 1..MaxDim
  <1>1. /\ [u \in Units |-> DimLevels(D, u)] \in [Units -> Int]
        /\ [u \in Units |-> -DimLevels(D, u)] \in [Units -> Int]
    BY DimLevelsType
  <1>2. "Dim" \in Functions /\ "Bright" \in Functions
    BY DEF Functions
  <1> QED
    BY <1>1, <1>2, LevelsArePlan DEF UpdateDim, UpdateBright

LEMMA AllOffIsPlan ==
    ASSUME NEW D PROVE IsPlan(UpdateAllUnitsOff(D))
  <1>1. "AllUnitsOff" \in Functions /\ AllOffRepeatCount \in Nat
    BY DEF Functions, AllOffRepeatCount
  <1>2. /\ Order({}, "AllUnitsOff", AllOffRepeatCount) \in Seq(Messages)
        /\ Len(Order({}, "AllUnitsOff", AllOffRepeatCount)) = Cardinality({}) + AllOffRepeatCount
    BY <1>1, OrderType
  <1>3. IsPlan(Order({}, "AllUnitsOff", AllOffRepeatCount))
    BY <1>1, <1>2, FS_EmptySet DEF IsPlan
  <1> QED
    BY <1>3, NothingIsPlan DEF UpdateAllUnitsOff

(* A plan fits the queue, and the planner makes none only when there is      *)
(* nothing that it could send.                                             *)
LEMMA PlanIsPlan ==
    ASSUME NEW D \in [Units -> Devices]
    PROVE  /\ IsPlan(Plan(D))
           /\ Plan(D) = <<>> => /\ UpdateBrightUnknown(D) = <<>>
                                /\ UpdateOn(D) = <<>> /\ UpdateOff(D) = <<>>
                                /\ UpdateDim(D) = <<>> /\ UpdateBright(D) = <<>>
  <1>1. 1 \in 1..MaxDim /\ MaxDim \in 1..MaxDim
    BY MaxDimAssumption DEF MaxDimAssumption
  <1>2. {"AllLightsOn", "On", "Off", "Bright"} \subseteq Functions
    BY DEF Functions
  <1>3. IsPlan(UpdateBrightUnknown(D)) /\ IsPlan(UpdateOn(D)) /\ IsPlan(UpdateOff(D))
    BY <1>1, <1>2, OrderIsPlan, NothingIsPlan DEF UpdateBrightUnknown, UpdateOn, UpdateOff
  <1>4. IsPlan(UpdateAllLightsOn(D))
    BY <1>1, <1>2, OrderIsPlan, NothingIsPlan DEF UpdateAllLightsOn
  <1>5. IsPlan(UpdateAllUnitsOff(D)) /\ IsPlan(UpdateDim(D)) /\ IsPlan(UpdateBright(D))
    BY AllOffIsPlan, DimsArePlan
  <1> QED
    BY <1>3, <1>4, <1>5, Zenon DEF Plan, OrElse

\* The planner misses no device: when it plans nothing there is nothing left
\* to send to any of them (housecode.cpp, mUpdateDevices).
THEOREM EmptyPlanMissesNobody ==
    ASSUME NEW D \in [Units -> Devices],
           \A u \in Units : IsReal(u) => D[u].wanted \in WishesOf(Kind[u]),
           Plan(D) = <<>>
    PROVE  \A u \in Units : NothingToSend(D, u)
  <1>1. SUFFICES ASSUME NEW u \in Units, IsReal(u), D[u].state # D[u].wanted,
                        ~AssumedOk(D, u), ~OutOfReach(D, u)
                 PROVE  FALSE
    BY DEF NothingToSend, Settled
  <1>2. /\ UpdateBrightUnknown(D) = <<>> /\ UpdateOn(D) = <<>> /\ UpdateOff(D) = <<>>
        /\ UpdateDim(D) = <<>> /\ UpdateBright(D) = <<>>
    BY PlanIsPlan
  <1>3. D[u].state \in States /\ D[u].wanted \in WishesOf(Kind[u])
    BY <1>1 DEF Devices
  <1>4. MaxDim \in Nat /\ MaxDim >= 1 /\ 1 \in 1..MaxDim /\ MaxDim \in 1..MaxDim
    BY MaxDimAssumption DEF MaxDimAssumption
  <1>5. {"On", "Off", "Bright"} \subseteq Functions
    BY DEF Functions
  <1>6. D[u].wanted # Off
    BY <1>1, <1>2, <1>4, <1>5, OrderIsPlan DEF UpdateOff
  <1>7. CASE D[u].wanted = On /\ ~StateDimmed(D, u)
    <2>1. StateChangeNeeded(D, u, On)
      BY <1>1, <1>7 DEF StateChangeNeeded
    <2> QED
      BY <1>2, <1>4, <1>5, <1>7, <2>1, OrderIsPlan DEF UpdateOn
  <1>8. CASE D[u].wanted = On /\ StateDimmed(D, u)
    <2>1. -DimLevels(D, u) \in 1..MaxDim
      BY <1>4, <1>8 DEF StateDimmed, DimLevels, Dim, Darkest, On, Off, Unknown, RefreshWanted
    <2> QED
      BY <1>2, <2>1, DimsArePlan
  <1>9. CASE D[u].wanted # On
    <2>1. IsLamp(u) /\ D[u].wanted \in Dim(1)..Darkest
      BY <1>3, <1>4, <1>6, <1>9 DEF WishesOf, Wishes, IsLamp, Off, On, Dim, Darkest
    <2>2. D[u].state # Unknown
      BY <1>2, <1>4, <1>5, <1>6, <2>1, OrderIsPlan DEF UpdateBrightUnknown
    <2>3. D[u].state # RefreshWanted
      BY <1>1, <2>1 DEF AssumedOk
    <2>4. DimLevels(D, u) = D[u].wanted - D[u].state
      BY <1>6, <2>1, <2>2, <2>3 DEF DimLevels
    <2>5. D[u].state \in Off..Darkest
      BY <1>3, <1>4, <2>2, <2>3 DEF States, Off, Darkest, Dim, Unknown, RefreshWanted
    <2>6. ~(D[u].state = Off /\ D[u].wanted = Darkest)
      BY <1>1, <2>1 DEF OutOfReach
    <2>7. DimLevels(D, u) \in 1..MaxDim \/ -DimLevels(D, u) \in 1..MaxDim
      BY <1>1, <1>4, <2>1, <2>4, <2>5, <2>6 DEF Off, Dim, Darkest
    <2> QED
      BY <1>2, <2>7, DimsArePlan
  <1> QED
    BY <1>7, <1>8, <1>9

-----------------------------------------------------------------------------
(* What the devices make of a message.                                      *)

LEMMA DeviceConstants ==
    /\ MaxDim \in Nat /\ MaxDim >= 1
    /\ Off = 0 /\ On = 1 /\ Dim(1) = 2 /\ Darkest = MaxDim + 1
    /\ Unknown = MaxDim + 2 /\ RefreshWanted = MaxDim + 3
    /\ States = 0..(MaxDim + 3) /\ Wishes = 0..(MaxDim + 1) /\ Lit = 1..(MaxDim + 1)
  BY MaxDimAssumption DEF MaxDimAssumption, Off, On, Dim, Darkest, Unknown, RefreshWanted,
     States, Wishes, Lit

LEMMA TargetIsWish ==
    ASSUME NEW k \in Kinds, NEW e \in Devices, NEW f \in Functions, Moves(k, e, f)
    PROVE  Target(e, f) \in WishesOf(k)
  <1>1. e.state \in States
    BY DEF Devices
  <1>2. Off \in WishesOf(k) /\ On \in WishesOf(k)
    BY DeviceConstants DEF WishesOf
  <1>3. CASE f \in {"AllUnitsOff", "AllLightsOn", "On", "Off"}
    BY <1>2, <1>3 DEF Target
  <1>4. CASE f = "Dim"
    <2>1. k = "lamp" /\ e.state \in {Off, Unknown} \cup On..(Darkest - 1)
      BY <1>4 DEF Moves
    <2> QED
      BY <1>1, <1>2, <1>4, <2>1, DeviceConstants DEF Target, WishesOf
  <1>5. CASE f = "Bright"
    <2>1. k = "lamp" /\ e.state \in {Off, Unknown} \cup Dim(1)..Darkest
      BY <1>5 DEF Moves
    <2> QED
      BY <1>1, <1>2, <1>5, <2>1, DeviceConstants DEF Target, WishesOf
  <1> QED
    BY <1>3, <1>4, <1>5 DEF Functions

LEMMA WishesAreStates == \A k \in Kinds : WishesOf(k) \subseteq States
  BY DeviceConstants DEF WishesOf

LEMMA FunctionType ==
    ASSUME NEW k \in Kinds, NEW e \in Devices, NEW f \in Functions, NEW external \in BOOLEAN
    PROVE  /\ Function(k, e, f, external) \in Devices
           /\ e.wanted \in WishesOf(k) => Function(k, e, f, external).wanted \in WishesOf(k)
  <1>1. Moves(k, e, f) => Target(e, f) \in WishesOf(k) /\ Target(e, f) \in States
    BY TargetIsWish, WishesAreStates
  <1>2. e.state \in States /\ e.wanted \in States /\ e.selected \in Selected /\ Off \in States
    BY DeviceConstants DEF Devices
  <1>3. Shows(k, e, f) \in States
    BY <1>1, <1>2 DEF Shows
  <1>4. SelectedAfter(k, e, f) \in Selected
    BY <1>2 DEF SelectedAfter, Selected
  <1> QED
    BY <1>1, <1>2, <1>3, <1>4 DEF Function, Devices

(* Real devices are wanted to be what their class can be.                   *)
WishesOK(D) == \A u \in Units : IsReal(u) => D[u].wanted \in WishesOf(Kind[u])

LEMMA KindType == \A u \in Units : Kind[u] \in Kinds
  BY PlannerAssumption DEF PlannerAssumption

LEMMA MessageCases ==
    ASSUME NEW m \in Messages
    PROVE  \/ m.type = "address" /\ \A u \in Units : (m.unit = u) \in BOOLEAN
           \/ m.type = "function" /\ m.function \in Functions /\ m = Command(m.function)
  BY DEF Messages, Address, Command

LEMMA HearType ==
    ASSUME NEW D \in [Units -> Devices], NEW m \in Messages, NEW external \in BOOLEAN
    PROVE  /\ Hear(D, m, external) \in [Units -> Devices]
           /\ WishesOK(D) => WishesOK(Hear(D, m, external))
  <1>1. CASE m.type = "address"
    <2>1. Hear(D, m, external) = [u \in Units |-> Select(Kind[u], D[u], m.unit = u)]
      BY <1>1 DEF Hear
    <2>2. ASSUME NEW u \in Units
          PROVE  /\ Hear(D, m, external)[u] \in Devices
                 /\ Hear(D, m, external)[u].wanted = D[u].wanted
      <3>1. Kind[u] \in Kinds /\ D[u] \in Devices
        BY KindType
      <3> QED
        BY <2>1, <3>1 DEF Select, Devices, Selected
    <2> QED
      BY <2>1, <2>2 DEF WishesOK
  <1>2. CASE m.type = "function" /\ m.function \in Functions
    <2>1. Hear(D, m, external) = [u \in Units |-> Function(Kind[u], D[u], m.function, external)]
      BY <1>2 DEF Hear
    <2> QED
      BY <1>2, <2>1, FunctionType, KindType DEF WishesOK
  <1> QED
    BY <1>1, <1>2, MessageCases

LEMMA FunctionKeepsNothingToSend ==
    ASSUME NEW D \in [Units -> Devices], NEW u \in Units, NEW f \in Functions,
           NothingToSend(D, u),
           ~(f = "AllLightsOn" /\ Kind[u] = "applianceLamp" /\ Moves(Kind[u], D[u], f)),
           NEW E, E[u] = Function(Kind[u], D[u], f, TRUE)
    PROVE  NothingToSend(E, u)
  <1> DEFINE k == Kind[u]
             e == D[u]
  <1>1. CASE ~IsReal(u)
    BY <1>1 DEF NothingToSend, Settled
  <1>2. CASE IsReal(u) /\ Moves(k, e, f)
    <2>1. Shows(k, e, f) = Target(e, f)
      BY <1>2 DEF Shows
    <2>2. E[u].state = Target(e, f) /\ E[u].wanted = Target(e, f)
      BY <1>2, <2>1 DEF Function
    <2> QED
      BY <2>2 DEF NothingToSend, Settled
  <1>3. CASE IsReal(u) /\ ~Moves(k, e, f)
    <2>1. E[u].wanted = e.wanted
      BY <1>3 DEF Function
    <2>2. k # "pir"
      BY <1>3 DEF IsReal, Real
    <2>3. E[u].state \in {e.state, e.wanted}
      BY <1>3, <2>2 DEF Function, Shows
    <2>4. CASE E[u].state = e.state
      BY <2>1, <2>4 DEF NothingToSend, Settled, AssumedOk, OutOfReach
    <2>5. CASE E[u].state = e.wanted
      BY <2>1, <2>5 DEF NothingToSend, Settled
    <2> QED
      BY <2>3, <2>4, <2>5
  <1> QED
    BY <1>1, <1>2, <1>3

\* Only real devices have a wish.
LEMMA HearKeepsOthersUnwanted ==
    ASSUME NEW D \in [Units -> Devices], NEW m \in Messages, NEW external \in BOOLEAN,
           NEW u \in Units, ~IsReal(u)
    PROVE  Hear(D, m, external)[u].wanted = D[u].wanted
  <1>1. CASE m.type = "address"
    <2>1. Hear(D, m, external)[u] = Select(Kind[u], D[u], m.unit = u)
      BY <1>1 DEF Hear
    <2> QED
      BY <2>1, KindType DEF Select, Devices
  <1>2. CASE m.type = "function" /\ m.function \in Functions
    <2>1. Hear(D, m, external)[u] = Function(Kind[u], D[u], m.function, external)
      BY <1>2 DEF Hear
    <2>2. ~Moves(Kind[u], D[u], m.function)
      BY <1>2 DEF Moves, IsReal, Real, Functions
    <2> QED
      BY <2>1, <2>2 DEF Function
  <1> QED
    BY <1>1, <1>2, MessageCases

\* Somebody else's message, whatever it is, leaves nothing to send where there
\* was nothing to send, but for the appliance lamps it makes wanted on: people
\* are obeyed, not corrected (device.cpp, bExternal).
THEOREM PeopleLeaveNothingToSend ==
    ASSUME NEW D \in [Units -> Devices], NEW m \in Messages,
           \A u \in Units : NothingToSend(D, u),
           ~ApplianceLampsWanted(D, m)
    PROVE  \A u \in Units : NothingToSend(Hear(D, m, TRUE), u)
  <1>1. SUFFICES ASSUME NEW u \in Units PROVE NothingToSend(Hear(D, m, TRUE), u)
    OBVIOUS
  <1>2. CASE m.type = "address"
    <2>1. Hear(D, m, TRUE)[u] = Select(Kind[u], D[u], m.unit = u)
      BY <1>2 DEF Hear
    <2>2. Kind[u] \in Kinds /\ D[u] \in Devices
      BY KindType
    <2>3. Hear(D, m, TRUE)[u].state = D[u].state /\ Hear(D, m, TRUE)[u].wanted = D[u].wanted
      BY <2>1, <2>2 DEF Select, Devices, Selected
    <2> QED
      BY <2>3 DEF NothingToSend, Settled, AssumedOk, OutOfReach
  <1>3. CASE m.type = "function" /\ m.function \in Functions /\ m = Command(m.function)
    <2>1. Hear(D, m, TRUE)[u] = Function(Kind[u], D[u], m.function, TRUE)
      BY <1>3 DEF Hear
    <2>2. ~(/\ m.function = "AllLightsOn" /\ Kind[u] = "applianceLamp"
            /\ Moves(Kind[u], D[u], m.function))
      BY <1>3 DEF ApplianceLampsWanted
    <2> QED
      BY <1>3, <2>1, <2>2, FunctionKeepsNothingToSend
  <1> QED
    BY <1>2, <1>3, MessageCases

-----------------------------------------------------------------------------
(* The shape of a plan.                                                     *)

(* c addresses of real units, then the function f to the end; what is        *)
(* repeated, and what needs no address, depends on f.                        *)
Orderly(q, c, f) ==
    /\ q \in Seq(Messages) /\ c \in 0..(Len(q) - 1) /\ f \in Functions
    /\ \A i \in 1..c : \E u \in Units : IsReal(u) /\ q[i] = Address(u)
    /\ \A i \in (c + 1)..Len(q) : q[i] = Command(f)
    /\ f \in {"On", "Off"} => c >= 1 /\ Len(q) = c + 1
    /\ f \in {"AllUnitsOff", "AllLightsOn"} => c = 0
    /\ f = "AllLightsOn" => Len(q) = 1

IsOrderly(q) == \E c \in Nat, f \in Functions : Orderly(q, c, f)

LEMMA OrderIsOrderly ==
    ASSUME NEW S \in SUBSET Units, NEW f \in Functions, NEW n \in Nat, n >= 1,
           \A u \in S : IsReal(u),
           f \in {"On", "Off"} => S # {} /\ n = 1,
           f \in {"AllUnitsOff", "AllLightsOn"} => S = {},
           f = "AllLightsOn" => n = 1
    PROVE  IsOrderly(Order(S, f, n))
  <1> DEFINE c == Cardinality(S)
             q == Order(S, f, n)
  <1>1. /\ c \in Nat /\ q \in Seq(Messages) /\ Len(q) = c + n
        /\ \A i \in 1..c : Nth(S, i) \in S /\ q[i] = Address(Nth(S, i))
        /\ \A i \in (c + 1)..(c + n) : q[i] = Command(f)
    BY OrderMessages
  <1>2. c >= 1 <=> S # {}
    BY UnitsAreFinite, FS_EmptySet
  <1> HIDE DEF c, q
  <1>3. Orderly(q, c, f)
    BY <1>1, <1>2 DEF Orderly
  <1> QED
    BY <1>1, <1>3 DEF IsOrderly, q

LEMMA LevelsAreOrderly ==
    ASSUME NEW f \in {"Dim", "Bright"}, NEW levels \in [Units -> Int],
           \A u \in Units : levels[u] # 0 => IsReal(u),
           UpdateLevels(f, levels) # <<>>
    PROVE  IsOrderly(UpdateLevels(f, levels))
  <1> DEFINE steps == {levels[u] : u \in Units} \cap 1..MaxDim
             S == {u \in Units : levels[u] >= Min(steps)}
  <1>1. steps # {} /\ UpdateLevels(f, levels) = Order(S, f, Min(steps))
    BY DEF UpdateLevels
  <1>2. IsFiniteSet(1..MaxDim) /\ steps \subseteq 1..MaxDim
    BY FS_Interval, MaxDimAssumption DEF MaxDimAssumption
  <1>3. IsFiniteSet(steps) /\ \A x \in steps : x \in Int
    BY <1>2, FS_Subset
  <1> HIDE DEF steps
  <1>4. Min(steps) \in 1..MaxDim /\ Min(steps) \in Nat /\ Min(steps) >= 1
    <2>1. Min(steps) \in steps
      BY <1>1, <1>3, MinimumExists
    <2>2. Min(steps) \in 1..MaxDim
      BY <1>2, <2>1
    <2>3. \A n \in 1..MaxDim : n \in Nat /\ n >= 1
      BY MaxDimAssumption DEF MaxDimAssumption
    <2> QED
      BY <2>2, <2>3
  <1>5. S \in SUBSET Units /\ \A u \in S : IsReal(u)
    BY <1>4
  <1>6. f \in Functions
    BY DEF Functions
  <1> HIDE DEF S
  <1> QED
    BY <1>1, <1>4, <1>5, <1>6, OrderIsOrderly

(* A plan is addresses of real units and then one function: what housecode.cpp*)
(* puts on the queue is never mixed.                                        *)
LEMMA PlanIsOrderly ==
    ASSUME NEW D \in [Units -> Devices], Plan(D) # <<>>
    PROVE  IsOrderly(Plan(D))
  <1>1. MaxDim \in Nat /\ MaxDim >= 1 /\ AllOffRepeatCount \in Nat /\ AllOffRepeatCount >= 1
    BY MaxDimAssumption DEF MaxDimAssumption, AllOffRepeatCount
  <1>2. {"AllUnitsOff", "AllLightsOn", "On", "Off", "Dim", "Bright"} \subseteq Functions
    BY DEF Functions
  <1>3. \A u \in Units : IsLamp(u) => IsReal(u)
    BY DEF IsLamp, IsReal, Real
  <1>4. UpdateAllUnitsOff(D) # <<>> => IsOrderly(UpdateAllUnitsOff(D))
    BY <1>1, <1>2, OrderIsOrderly DEF UpdateAllUnitsOff
  <1>5. UpdateBrightUnknown(D) # <<>> => IsOrderly(UpdateBrightUnknown(D))
    BY <1>1, <1>2, <1>3, OrderIsOrderly DEF UpdateBrightUnknown
  <1>6. UpdateAllLightsOn(D) # <<>> => IsOrderly(UpdateAllLightsOn(D))
    BY <1>1, <1>2, OrderIsOrderly DEF UpdateAllLightsOn
  <1>7. UpdateOn(D) # <<>> => IsOrderly(UpdateOn(D))
    <2> DEFINE S == {u \in Units : StateChangeNeeded(D, u, On) /\ ~StateDimmed(D, u)}
    <2>1. \A u \in S : IsReal(u)
      BY DEF StateChangeNeeded
    <2>2. S # {} => IsOrderly(Order(S, "On", 1))
      BY <1>1, <1>2, <2>1, OrderIsOrderly
    <2> QED
      BY <2>2 DEF UpdateOn
  <1>8. UpdateOff(D) # <<>> => IsOrderly(UpdateOff(D))
    BY <1>1, <1>2, OrderIsOrderly DEF UpdateOff
  <1>9. ASSUME NEW u \in Units, DimLevels(D, u) # 0 \/ -DimLevels(D, u) # 0
        PROVE  IsReal(u)
    <2>1. DimLevels(D, u) # 0
      BY <1>9, DimLevelsType
    <2> QED
      BY <1>3, <2>1 DEF DimLevels
  <1>10. /\ [u \in Units |-> DimLevels(D, u)] \in [Units -> Int]
         /\ [u \in Units |-> -DimLevels(D, u)] \in [Units -> Int]
    BY DimLevelsType
  <1>11. UpdateDim(D) # <<>> => IsOrderly(UpdateDim(D))
    BY <1>9, <1>10, LevelsAreOrderly DEF UpdateDim
  <1>12. UpdateBright(D) # <<>> => IsOrderly(UpdateBright(D))
    BY <1>9, <1>10, LevelsAreOrderly DEF UpdateBright
  <1> QED
    BY <1>4, <1>5, <1>6, <1>7, <1>8, <1>11, <1>12, Zenon DEF Plan, OrElse

-----------------------------------------------------------------------------
(* What one message, and then a whole plan, makes of the devices.           *)

\* What ON, OFF and AllLightsOn make of a device that obeys.
Goal(f) == IF f \in {"On", "AllLightsOn"} THEN On ELSE Off

(* Unit u, showing d, shows e when it has heard m.                           *)
Hears(u, m, d, e) ==
    /\ m = Address(u) => e = [d EXCEPT !.selected = "on"]
    /\ \A v \in Units \ {u} : m = Address(v) =>
           e = [d EXCEPT !.selected = IF @ = "used" THEN "off" ELSE @]
    /\ \A f \in Functions : m = Command(f) => e = Function(Kind[u], d, f, FALSE)

LEMMA HearIsHears ==
    ASSUME NEW D \in [Units -> Devices], NEW m \in Messages, NEW u \in Units, IsReal(u)
    PROVE  Hears(u, m, D[u], Hear(D, m, FALSE)[u])
  <1>1. D[u] \in Devices /\ Kind[u] # "null"
    BY DEF IsReal, Real
  <1>2. ASSUME NEW v \in Units, m = Address(v)
        PROVE  Hear(D, m, FALSE)[u] = Select(Kind[u], D[u], v = u)
    BY <1>2 DEF Hear, Address
  <1>3. ASSUME NEW f \in Functions, m = Command(f)
        PROVE  Hear(D, m, FALSE)[u] = Function(Kind[u], D[u], f, FALSE)
    BY <1>3 DEF Hear, Command
  <1>4. m = Address(u) => Hear(D, m, FALSE)[u] = [D[u] EXCEPT !.selected = "on"]
    BY <1>1, <1>2 DEF Select
  <1>5. ASSUME NEW v \in Units \ {u}, m = Address(v)
        PROVE  Hear(D, m, FALSE)[u]
                   = [D[u] EXCEPT !.selected = IF @ = "used" THEN "off" ELSE @]
    BY <1>1, <1>2, <1>5 DEF Select, Devices, Selected
  <1> QED
    BY <1>3, <1>4, <1>5 DEF Hears

LEMMA HeardOnOff ==
    ASSUME NEW k \in Real, NEW d \in Devices, NEW f \in {"On", "Off"}
    PROVE  /\ Function(k, d, f, FALSE).state = IF d.selected = "off" THEN d.state ELSE Goal(f)
           /\ Function(k, d, f, FALSE).selected = IF d.selected = "off" THEN "off" ELSE "used"
  BY DEF Function, Shows, Moves, Target, SelectedAfter, IsSelected, Goal, Real

LEMMA HeardAllOff ==
    ASSUME NEW k \in Real, NEW d \in Devices
    PROVE  /\ Function(k, d, "AllUnitsOff", FALSE).state = Off
           /\ Function(k, d, "AllUnitsOff", FALSE).selected = "off"
  BY DEF Function, Shows, Moves, Target, SelectedAfter, Real

\* An address moves nothing; the others give up a selection that was used.
LEMMA HeardAddress ==
    ASSUME NEW u \in Units, NEW v \in Units, NEW m \in Messages, m = Address(v),
           NEW d \in Devices, NEW e, Hears(u, m, d, e)
    PROVE  /\ e.state = d.state
           /\ v = u => e.selected = "on" /\ m = Address(u)
           /\ v # u => /\ e.selected = IF d.selected = "used" THEN "off" ELSE d.selected
                      /\ m # Address(u)
  <1>1. v # u => m # Address(u)
    BY DEF Address
  <1>2. CASE v = u
    BY <1>2 DEF Hears, Devices
  <1>3. CASE v # u
    BY <1>1, <1>3 DEF Hears, Devices
  <1> QED
    BY <1>2, <1>3

LEMMA HeardAllOn ==
    ASSUME NEW k \in Real, NEW d \in Devices
    PROVE  /\ Function(k, d, "AllLightsOn", FALSE).state =
                  IF k = "lamp" /\ d.state \in {Off, Unknown, RefreshWanted} THEN On ELSE d.state
           /\ Function(k, d, "AllLightsOn", FALSE).selected = d.selected
  BY DEF Function, Shows, Moves, Target, SelectedAfter, Real

\* A lamp that is selected and shows a known level takes one step.
LEMMA HeardStep ==
    ASSUME NEW d \in Devices, d.selected # "off"
    PROVE  /\ d.state \in Off..(Darkest - 1)
                  => Function("lamp", d, "Dim", FALSE).state = d.state + 1
           /\ d.state \in Dim(1)..Darkest
                  => Function("lamp", d, "Bright", FALSE).state = d.state - 1
           /\ d.state \in {On, Unknown}
                  => Function("lamp", d, "Bright", FALSE).state = On
           /\ Function("lamp", d, "Dim", FALSE).selected = "used"
           /\ Function("lamp", d, "Bright", FALSE).selected = "used"
  <1>1. d.state \in Int /\ d.state \in States
    BY DeviceConstants DEF Devices
  <1>2. d.state \in Off..(Darkest - 1) => d.state = Off \/ d.state \in On..(Darkest - 1)
    BY <1>1, DeviceConstants
  <1>3. Off + 1 = On /\ Off \notin Dim(1)..Darkest /\ Unknown \notin Dim(1)..Darkest
        /\ Off \notin On..(Darkest - 1) /\ Unknown \notin On..(Darkest - 1)
        /\ On \notin Dim(1)..Darkest /\ On \notin {Off, Unknown, RefreshWanted}
    BY DeviceConstants
  <1>4. ASSUME d.state \in Off..(Darkest - 1)
        PROVE  Function("lamp", d, "Dim", FALSE).state = d.state + 1
    BY <1>2, <1>3, <1>4 DEF Function, Shows, Moves, Target, IsSelected
  <1>5. ASSUME d.state \in Dim(1)..Darkest
        PROVE  Function("lamp", d, "Bright", FALSE).state = d.state - 1
    BY <1>3, <1>5 DEF Function, Shows, Moves, Target, IsSelected
  <1>6. ASSUME d.state \in {On, Unknown}
        PROVE  Function("lamp", d, "Bright", FALSE).state = On
    BY <1>3, <1>6 DEF Function, Shows, Moves, Target, IsSelected
  <1>7. /\ Function("lamp", d, "Dim", FALSE).selected = "used"
        /\ Function("lamp", d, "Bright", FALSE).selected = "used"
    BY DEF Function, SelectedAfter, IsSelected, Real
  <1> QED
    BY <1>4, <1>5, <1>6, <1>7

\* A device that is not selected ignores what is meant for selected ones.
LEMMA HeardByOthers ==
    ASSUME NEW k \in Real, NEW d \in Devices, NEW f \in {"On", "Off", "Dim", "Bright"},
           d.selected = "off"
    PROVE  /\ Function(k, d, f, FALSE).state = d.state
           /\ Function(k, d, f, FALSE).selected = "off"
  BY DEF Function, Shows, Moves, SelectedAfter, IsSelected, Real

LEMMA HearKeepsWishes ==
    ASSUME NEW D \in [Units -> Devices], NEW m \in Messages, NEW u \in Units, IsReal(u)
    PROVE  Hear(D, m, FALSE)[u].wanted = D[u].wanted
  <1>1. Hears(u, m, D[u], Hear(D, m, FALSE)[u])
    BY HearIsHears
  <1>2. D[u] \in Devices
    OBVIOUS
  <1>4. CASE \E v \in Units : m = Address(v)
    <2>1. PICK v \in Units : m = Address(v)
      BY <1>4
    <2>2. CASE v = u
      BY <1>1, <1>2, <2>1, <2>2 DEF Hears, Devices
    <2>3. CASE v # u
      BY <1>1, <1>2, <2>1, <2>3 DEF Hears, Devices
    <2> QED
      BY <2>2, <2>3
  <1>5. CASE \E f \in Functions : m = Command(f)
    <2>1. PICK f \in Functions : m = Command(f)
      BY <1>5
    <2>2. Hear(D, m, FALSE)[u] = Function(Kind[u], D[u], f, FALSE)
      BY <1>1, <2>1 DEF Hears
    <2>3. Function(Kind[u], D[u], f, FALSE).wanted = D[u].wanted
      BY DEF Function
    <2> QED
      BY <2>2, <2>3, Zenon
  <1> QED
    BY <1>4, <1>5 DEF Messages

(* The devices after each of the messages p.                                 *)
Heard(h, D, p) ==
    /\ h \in [0..Len(p) -> [Units -> Devices]]
    /\ h[0] = D
    /\ \A i \in 1..Len(p) : h[i] = Hear(h[i - 1], p[i], FALSE)

LEMMA HearAllIsHeard ==
    ASSUME NEW D \in [Units -> Devices], NEW p \in Seq(Messages)
    PROVE  \E h : Heard(h, D, p) /\ HearAll(D, p) = h[Len(p)]
  <1> DEFINE n == Len(p)
             X == [Units -> Devices]
             G == [i \in 1..n |-> [B \in X |-> Hear(B, p[i], FALSE)]]
             after == CHOOSE f : f = [i \in 0..n |-> IF i = 0 THEN D ELSE Hear(f[i - 1], p[i], FALSE)]
  <1>1. n \in Nat /\ \A i \in 1..n : p[i] \in Messages
    OBVIOUS
  <1>2. HearAll(D, p) = after[n]
    BY DEF HearAll
  <1> HIDE DEF n
  <1>3. G \in [1..n -> [X -> X]]
    BY <1>1, HearType
  <1>4. \A i \in 1..n, B \in X : G[i][B] = Hear(B, p[i], FALSE)
    OBVIOUS
  <1>5. \A i \in 1..n : i # 0 /\ i \in 0..n /\ i - 1 \in 0..n
    BY <1>1
  <1> HIDE DEF G
  <1>a. PICK h : Iterates(h, n, X, D, G)
    <2>1. D \in X /\ n \in Nat
      BY <1>1
    <2> HIDE DEF X
    <2> QED
      BY <1>3, <2>1, RecursionUpTo
  <1>6. h \in [0..n -> X] /\ h[0] = D /\ \A i \in 1..n : h[i] = G[i][h[i - 1]]
    BY <1>a DEF Iterates
  <1>7. \A i \in 1..n : h[i] = Hear(h[i - 1], p[i], FALSE)
    BY <1>4, <1>5, <1>6
  <1>8. h = [i \in 0..n |-> IF i = 0 THEN D ELSE Hear(h[i - 1], p[i], FALSE)]
    <2>1. \A i \in 0..n : i # 0 => i \in 1..n
      BY <1>1
    <2> QED
      BY <1>6, <1>7, <2>1
  <1>9. after = [i \in 0..n |-> IF i = 0 THEN D ELSE Hear(after[i - 1], p[i], FALSE)]
    BY <1>8
  <1> HIDE DEF after
  <1>10. after[0] = D /\ \A i \in 1..n : after[i] = Hear(after[i - 1], p[i], FALSE)
    <2>1. 0 \in 0..n
      BY <1>1
    <2> QED
      BY <1>5, <1>9, <2>1
  <1> DEFINE T == {i \in 0..n : after[i] \in X}
  <1>11. 0 \in T
    BY <1>1, <1>10
  <1>12. ASSUME NEW i \in 0..(n - 1), i \in T PROVE i + 1 \in T
    <2>1. i + 1 \in 1..n /\ i + 1 \in 0..n /\ (i + 1) - 1 = i
      BY <1>1
    <2>2. after[i + 1] = Hear(after[i], p[i + 1], FALSE)
      BY <1>10, <2>1
    <2> QED
      BY <1>1, <1>12, <2>1, <2>2, HearType
  <1>13. \A i \in 0..n : i \in T
    <2> HIDE DEF T
    <2> QED
      BY <1>1, <1>11, <1>12, InductionUpTo
  <1>14. after \in [0..n -> X]
    BY <1>9, <1>13
  <1>15. Heard(after, D, p)
    BY <1>10, <1>14 DEF Heard, n
  <1> QED
    BY <1>2, <1>15 DEF n

-----------------------------------------------------------------------------
(* What a real unit u makes of an order, message by message: h[i] is the     *)
(* house after the first i of them.                                         *)

\* The order's addresses select its members and nobody else.
LEMMA AddressesHeard ==
    ASSUME NEW D \in [Units -> Devices], NEW S \in SUBSET Units, NEW f \in Functions,
           NEW n \in Nat, NEW h, Heard(h, D, Order(S, f, n)),
           NEW u \in Units, IsReal(u), D[u].selected # "on"
    PROVE  LET e == h[Cardinality(S)][u]
           IN  /\ e \in Devices /\ e.state = D[u].state
               /\ u \in S => e.selected = "on"
               /\ u \notin S /\ S # {} => e.selected = "off"
  <1> DEFINE c == Cardinality(S)
             q == Order(S, f, n)
  <1>1. /\ c \in Nat /\ q \in Seq(Messages) /\ Len(q) = c + n
        /\ \A i \in 1..c : \E v \in Units : q[i] = Address(v)
    <2>1. \A i \in 1..c : Nth(S, i) \in S /\ q[i] = Address(Nth(S, i))
      BY OrderMessages
    <2>2. c \in Nat /\ q \in Seq(Messages) /\ Len(q) = c + n
      BY OrderMessages
    <2> QED
      BY <2>1, <2>2
  <1>2. Addressed(q, c, u) <=> u \in S
    BY OrderAddresses
  <1>3. /\ h \in [0..Len(q) -> [Units -> Devices]] /\ h[0] = D
        /\ \A i \in 1..Len(q) : h[i] = Hear(h[i - 1], q[i], FALSE)
    BY DEF Heard
  <1>4. c = 0 <=> S = {}
    BY UnitsAreFinite, FS_EmptySet
  <1> HIDE DEF c, q
  <1> DEFINE Now(i) == /\ h[i][u].state = D[u].state
                       /\ Addressed(q, i, u) => h[i][u].selected = "on"
                       /\ ~Addressed(q, i, u) => h[i][u].selected # "on"
                       /\ ~Addressed(q, i, u) /\ i # 0 => h[i][u].selected = "off"
             T == {i \in 0..c : Now(i)}
  <1>5. 0 \in T
    BY <1>1, <1>3 DEF Addressed
  <1>6. ASSUME NEW i \in 0..(c - 1), i \in T PROVE i + 1 \in T
    <2>1. /\ i \in Nat /\ i + 1 \in 1..c /\ i + 1 \in 0..c /\ i + 1 \in 1..Len(q)
          /\ i \in 0..Len(q) /\ i + 1 \in 0..Len(q) /\ (i + 1) - 1 = i /\ i + 1 # 0
      BY <1>1
    <2>2. PICK v \in Units : q[i + 1] = Address(v)
      BY <1>1, <2>1
    <2> DEFINE d == h[i][u]
               e == h[i + 1][u]
               m == q[i + 1]
    <2>3. m \in Messages /\ d \in Devices /\ e = Hear(h[i], m, FALSE)[u]
      <3>1. q[i + 1] \in Messages
        BY <1>1, <2>1
      <3>2. h[i] \in [Units -> Devices] /\ h[i + 1] = Hear(h[i], q[i + 1], FALSE)
        BY <1>3, <2>1
      <3> QED
        BY <3>1, <3>2
    <2>4. Hears(u, m, d, e)
      <3>1. h[i] \in [Units -> Devices]
        BY <1>3, <2>1
      <3> QED
        BY <2>3, <3>1, HearIsHears
    <2>5. Now(i)
      BY <1>6
    <2>6. d.selected \in {"on", "off", "used"}
      BY <2>3 DEF Devices, Selected
    <2>7. Addressed(q, i + 1, u) <=> Addressed(q, i, u) \/ m = Address(u)
      BY <2>1 DEF Addressed
    <2>a. m = Address(v) /\ m \in Messages /\ d \in Devices
      BY <2>2, <2>3
    <2> HIDE DEF d, e, m
    <2>8. /\ e.state = d.state
          /\ v = u => e.selected = "on" /\ m = Address(u)
          /\ v # u => /\ e.selected = IF d.selected = "used" THEN "off" ELSE d.selected
                      /\ m # Address(u)
      BY <2>4, <2>a, HeardAddress
    <2>9. Now(i + 1)
      BY <2>1, <2>5, <2>6, <2>7, <2>8 DEF d, e
    <2> HIDE DEF Now
    <2> QED
      BY <2>1, <2>9
  <1> HIDE DEF T
  <1>7. \A i \in 0..c : i \in T
    BY <1>1, <1>5, <1>6, InductionUpTo
  <1>8. Now(c) /\ c \in 0..Len(q)
    BY <1>1, <1>7 DEF T
  <1>9. h[c][u] \in Devices
    BY <1>3, <1>8
  <1> QED
    BY <1>2, <1>4, <1>8, <1>9 DEF c, q

\* Nothing the house sends itself changes what is wanted.
LEMMA HearAllKeepsWishes ==
    ASSUME NEW D \in [Units -> Devices], NEW p \in Seq(Messages), NEW u \in Units, IsReal(u)
    PROVE  /\ HearAll(D, p) \in [Units -> Devices]
           /\ HearAll(D, p)[u].wanted = D[u].wanted
  <1>1. PICK h : Heard(h, D, p) /\ HearAll(D, p) = h[Len(p)]
    BY HearAllIsHeard
  <1> DEFINE n == Len(p)
             T == {i \in 0..n : h[i][u].wanted = D[u].wanted}
  <1>2. n \in Nat /\ \A i \in 1..n : p[i] \in Messages
    OBVIOUS
  <1>3. /\ h \in [0..n -> [Units -> Devices]] /\ h[0] = D
        /\ \A i \in 1..n : h[i] = Hear(h[i - 1], p[i], FALSE)
    BY <1>1 DEF Heard
  <1> HIDE DEF n
  <1>4. 0 \in T
    BY <1>2, <1>3
  <1>5. ASSUME NEW i \in 0..(n - 1), i \in T PROVE i + 1 \in T
    <2>1. i \in 0..n /\ i + 1 \in 1..n /\ i + 1 \in 0..n /\ (i + 1) - 1 = i
      BY <1>2
    <2>2. h[i] \in [Units -> Devices] /\ h[i + 1] = Hear(h[i], p[i + 1], FALSE)
      BY <1>3, <2>1
    <2>3. h[i + 1][u].wanted = h[i][u].wanted
      BY <1>2, <2>1, <2>2, HearKeepsWishes
    <2> QED
      BY <1>5, <2>1, <2>3
  <1> HIDE DEF T
  <1>6. \A i \in 0..n : i \in T
    BY <1>2, <1>4, <1>5, InductionUpTo
  <1>7. n \in 0..n
    BY <1>2
  <1> QED
    BY <1>1, <1>3, <1>6, <1>7 DEF T, n

\* A device of class k after each of n functions f.
Repeats(e, k, f, n) == /\ e \in [0..n -> Devices]
                       /\ \A i \in 1..n : e[i] = Function(k, e[i - 1], f, FALSE)

\* e is what unit u makes of an order, from when its addresses have been heard.
FollowsOrder(e, D, S, f, n, u) ==
    /\ Repeats(e, Kind[u], f, n)
    /\ e[0].state = D[u].state
    /\ u \in S => e[0].selected = "on"
    /\ u \notin S /\ S # {} => e[0].selected = "off"
    /\ HearAll(D, Order(S, f, n))[u] = e[n]

(* A real unit hears an order: it is selected when it is one of the members, *)
(* and hears the function as often as the order repeats it.                 *)
LEMMA OrderHeard ==
    ASSUME NEW D \in [Units -> Devices], NEW S \in SUBSET Units, NEW f \in Functions,
           NEW n \in Nat, NEW u \in Units, IsReal(u), D[u].selected # "on"
    PROVE  \E e : FollowsOrder(e, D, S, f, n, u)
  <1> DEFINE c == Cardinality(S)
             q == Order(S, f, n)
  <1>1. /\ c \in Nat /\ q \in Seq(Messages) /\ Len(q) = c + n
        /\ \A i \in (c + 1)..(c + n) : q[i] = Command(f)
    BY OrderMessages
  <1>2. PICK h : Heard(h, D, q) /\ HearAll(D, q) = h[Len(q)]
    BY <1>1, HearAllIsHeard
  <1>3. /\ h[c][u].state = D[u].state
        /\ u \in S => h[c][u].selected = "on"
        /\ u \notin S /\ S # {} => h[c][u].selected = "off"
    BY <1>2, AddressesHeard
  <1>4. /\ h \in [0..Len(q) -> [Units -> Devices]]
        /\ \A i \in 1..Len(q) : h[i] = Hear(h[i - 1], q[i], FALSE)
    BY <1>2 DEF Heard
  <1> HIDE DEF c, q
  <1> DEFINE e == [i \in 0..n |-> h[c + i][u]]
  <1>5. \A i \in 0..n : c + i \in 0..Len(q) /\ h[c + i] \in [Units -> Devices]
    BY <1>1, <1>4
  <1>6. e \in [0..n -> Devices]
    BY <1>5
  <1>7. ASSUME NEW i \in 1..n PROVE e[i] = Function(Kind[u], e[i - 1], f, FALSE)
    <2>1. /\ c + i \in 1..Len(q) /\ c + i \in (c + 1)..(c + n) /\ i - 1 \in 0..n /\ i \in 0..n
          /\ c + (i - 1) = (c + i) - 1
      BY <1>1
    <2>2. h[c + i] = Hear(h[c + (i - 1)], Command(f), FALSE)
      <3>1. h[c + i] = Hear(h[(c + i) - 1], q[c + i], FALSE) /\ q[c + i] = Command(f)
        BY <1>1, <1>4, <2>1
      <3> QED
        BY <2>1, <3>1
    <2>3. h[c + i][u] = Function(Kind[u], h[c + (i - 1)][u], f, FALSE)
      BY <2>2 DEF Hear, Command
    <2> QED
      BY <2>1, <2>3
  <1>8. Repeats(e, Kind[u], f, n)
    BY <1>6, <1>7 DEF Repeats
  <1>9. e[0] = h[c][u] /\ e[n] = h[Len(q)][u]
    <2>1. 0 \in 0..n /\ n \in 0..n /\ c + 0 = c
      BY <1>1
    <2> QED
      BY <1>1, <2>1
  <1> HIDE DEF e
  <1>10. HearAll(D, q)[u] = e[n]
    BY <1>2, <1>9
  <1>11. FollowsOrder(e, D, S, f, n, u)
    BY <1>3, <1>8, <1>9, <1>10 DEF q, FollowsOrder
  <1> QED
    BY <1>11

LEMMA StillRepeats ==
    ASSUME NEW k \in Real, NEW f \in {"On", "Off", "Dim", "Bright"}, NEW n \in Nat,
           NEW e, Repeats(e, k, f, n), e[0].selected = "off"
    PROVE  e[n].state = e[0].state
  <1> DEFINE T == {i \in 0..n : e[i].state = e[0].state /\ e[i].selected = "off"}
  <1>1. 0 \in T
    OBVIOUS
  <1>2. ASSUME NEW i \in 0..(n - 1), i \in T PROVE i + 1 \in T
    <2>1. i \in 0..n /\ i + 1 \in 1..n /\ i + 1 \in 0..n /\ (i + 1) - 1 = i
      OBVIOUS
    <2>2. e[i + 1] = Function(k, e[i], f, FALSE) /\ e[i] \in Devices
      BY <2>1 DEF Repeats
    <2>3. e[i].selected = "off" /\ e[i].state = e[0].state
      BY <1>2
    <2>4. e[i + 1].state = e[i].state /\ e[i + 1].selected = "off"
      <3> DEFINE d == e[i]
      <3>1. d \in Devices /\ d.selected = "off" /\ e[i + 1] = Function(k, d, f, FALSE)
        BY <2>2, <2>3
      <3> HIDE DEF d
      <3>2. Function(k, d, f, FALSE).state = d.state /\ Function(k, d, f, FALSE).selected = "off"
        BY <3>1, HeardByOthers
      <3> QED
        BY <3>1, <3>2 DEF d
    <2> QED
      BY <2>1, <2>3, <2>4
  <1> HIDE DEF T
  <1>3. \A i \in 0..n : i \in T
    BY <1>1, <1>2, InductionUpTo
  <1> QED
    BY <1>3 DEF T

LEMMA LevelsRepeat ==
    ASSUME NEW n \in Nat, n >= 1, NEW f \in {"Dim", "Bright"},
           NEW e, Repeats(e, "lamp", f, n), e[0].selected = "on"
    PROVE  /\ f = "Dim" /\ e[0].state \in Off..Darkest /\ e[0].state + n <= Darkest
                  => e[n].state = e[0].state + n
           /\ f = "Bright" /\ e[0].state \in On..Darkest /\ e[0].state - n >= On
                  => e[n].state = e[0].state - n
           /\ f = "Bright" /\ e[0].state = Unknown => e[n].state = On
  <1> DEFINE s == e[0].state
             Dims(i) == f = "Dim" /\ s \in Off..Darkest /\ s + n <= Darkest
                            => e[i].state = s + i
             Brights(i) == f = "Bright" /\ s \in On..Darkest /\ s - n >= On
                               => e[i].state = s - i
             Lights(i) == f = "Bright" /\ s = Unknown
                               => e[i].state = IF i = 0 THEN Unknown ELSE On
             T == {i \in 0..n : /\ e[i].selected # "off"
                                /\ Dims(i) /\ Brights(i) /\ Lights(i)}
  <1>0. s \in Int
    BY DeviceConstants DEF Repeats, Devices
  <1> HIDE DEF s
  <1>1. 0 \in T
    BY <1>0 DEF s
  <1>2. ASSUME NEW i \in 0..(n - 1), i \in T PROVE i + 1 \in T
    <2>1. i \in 0..n /\ i + 1 \in 1..n /\ i + 1 \in 0..n /\ (i + 1) - 1 = i /\ i + 1 # 0
      OBVIOUS
    <2> DEFINE d == e[i]
               a == e[i + 1]
    <2>2. a = Function("lamp", d, f, FALSE) /\ d \in Devices
      BY <2>1 DEF Repeats
    <2>3. d.selected # "off" /\ Dims(i) /\ Brights(i) /\ Lights(i)
      BY <1>2
    <2>4. a.selected = "used"
      BY <2>2, <2>3, HeardStep
    <2>5. Dims(i + 1)
      <3>1. SUFFICES ASSUME f = "Dim", s \in Off..Darkest, s + n <= Darkest
                     PROVE  a.state = s + (i + 1)
        OBVIOUS
      <3>2. d.state = s + i
        BY <2>3, <3>1
      <3>3. s + i \in Off..(Darkest - 1)
        BY <1>0, <3>1, DeviceConstants
      <3>4. a.state = d.state + 1
        BY <2>2, <2>3, <3>1, <3>2, <3>3, HeardStep
      <3> QED
        BY <1>0, <3>2, <3>4
    <2>6. Brights(i + 1)
      <3>1. SUFFICES ASSUME f = "Bright", s \in On..Darkest, s - n >= On
                     PROVE  a.state = s - (i + 1)
        OBVIOUS
      <3>2. d.state = s - i
        BY <2>3, <3>1
      <3>3. s - i \in Dim(1)..Darkest
        BY <1>0, <3>1, DeviceConstants
      <3>4. a.state = d.state - 1
        BY <2>2, <2>3, <3>1, <3>2, <3>3, HeardStep
      <3> QED
        BY <1>0, <3>2, <3>4
    <2>7. Lights(i + 1)
      <3>1. SUFFICES ASSUME f = "Bright", s = Unknown PROVE a.state = On
        BY <2>1
      <3>2. d.state \in {On, Unknown}
        BY <2>3, <3>1
      <3> QED
        BY <2>2, <2>3, <3>1, <3>2, HeardStep
    <2> HIDE DEF Dims, Brights, Lights
    <2> QED
      BY <2>1, <2>4, <2>5, <2>6, <2>7
  <1> HIDE DEF T
  <1>3. \A i \in 0..n : i \in T
    BY <1>1, <1>2, InductionUpTo
  <1>4. Dims(n) /\ Brights(n) /\ Lights(n)
    BY <1>3 DEF T
  <1> QED
    BY <1>4 DEF s

\* What the planner orders: n times f, for the units S where f needs an address.
CanOrder(S, f, n) == /\ S \in SUBSET Units /\ f \in Functions /\ n \in Nat /\ n >= 1
                     /\ f \in {"On", "Off", "Dim", "Bright"} => S # {}
                     /\ f \in {"On", "Off", "AllLightsOn"} => n = 1

(* What the order makes of unit u: On and Off bring the members there, Dim    *)
(* and Bright take the members n levels along, and nobody else moves;        *)
(* AllUnitsOff and AllLightsOn are for everybody.                           *)
Obeys(S, f, n, u, d, e) ==
    /\ e \in Devices /\ e.wanted = d.wanted
    /\ f \in {"On", "Off"} /\ u \in S => e.state = Goal(f)
    /\ f \in {"On", "Off", "Dim", "Bright"} /\ u \notin S => e.state = d.state
    /\ f = "AllUnitsOff" => e.state = Off
    /\ f = "AllLightsOn" =>
           e.state = IF IsLamp(u) /\ d.state \in {Off, Unknown, RefreshWanted}
                     THEN On ELSE d.state
    /\ f = "Dim" /\ u \in S /\ IsLamp(u) /\ d.state \in Off..Darkest /\ d.state + n <= Darkest
           => e.state = d.state + n
    /\ f = "Bright" /\ u \in S /\ IsLamp(u) /\ d.state \in On..Darkest /\ d.state - n >= On
           => e.state = d.state - n
    /\ f = "Bright" /\ u \in S /\ IsLamp(u) /\ d.state = Unknown => e.state = On

LEMMA OrderEffect ==
    ASSUME NEW D \in [Units -> Devices], NEW S, NEW f, NEW n, CanOrder(S, f, n),
           NEW u \in Units, IsReal(u), D[u].selected # "on"
    PROVE  Obeys(S, f, n, u, D[u], HearAll(D, Order(S, f, n))[u])
  <1>0. /\ S \in SUBSET Units /\ f \in Functions /\ n \in Nat /\ n >= 1
        /\ f \in {"On", "Off", "Dim", "Bright"} => S # {}
        /\ f \in {"On", "Off", "AllLightsOn"} => n = 1
    BY DEF CanOrder
  <1> DEFINE q == Order(S, f, n)
             d == D[u]
             a == HearAll(D, q)[u]
             k == Kind[u]
  <1>1. q \in Seq(Messages)
    BY <1>0, OrderMessages
  <1>2. a \in Devices /\ a.wanted = d.wanted
    BY <1>1, HearAllKeepsWishes
  <1>a. PICK e : FollowsOrder(e, D, S, f, n, u)
    BY <1>0, OrderHeard
  <1>3. /\ Repeats(e, k, f, n) /\ e[0].state = d.state /\ a = e[n]
        /\ u \in S => e[0].selected = "on"
        /\ u \notin S /\ S # {} => e[0].selected = "off"
    BY <1>a DEF FollowsOrder
  <1>4. k \in Real /\ (IsLamp(u) <=> k = "lamp")
    BY DEF IsReal, IsLamp
  <1>5. /\ e[0] \in Devices /\ e[n - 1] \in Devices
        /\ e[n] = Function(k, e[n - 1], f, FALSE)
        /\ n = 1 => e[n] = Function(k, e[0], f, FALSE)
    <2>1. 0 \in 0..n /\ n - 1 \in 0..n /\ n \in 1..n /\ (n = 1 => n - 1 = 0)
      BY <1>0
    <2> QED
      BY <1>3, <2>1 DEF Repeats
  <1> HIDE DEF q, d, a, k
  <1>6. ASSUME f \in {"On", "Off"}, u \in S PROVE a.state = Goal(f)
    <2>0. n = 1
      BY <1>0, <1>6
    <2>1. a = Function(k, e[0], f, FALSE) /\ e[0].selected # "off"
      BY <1>3, <1>5, <1>6, <2>0
    <2>2. Function(k, e[0], f, FALSE).state = Goal(f)
      BY <1>4, <1>5, <1>6, <2>1, HeardOnOff
    <2> QED
      BY <2>1, <2>2
  <1>7. ASSUME f \in {"On", "Off", "Dim", "Bright"}, u \notin S PROVE a.state = d.state
    <2>1. e[0].selected = "off"
      BY <1>0, <1>3, <1>7
    <2>2. e[n].state = e[0].state
      BY <1>0, <1>3, <1>4, <1>7, <2>1, StillRepeats
    <2> QED
      BY <1>3, <2>2
  <1>8. ASSUME f = "AllUnitsOff" PROVE a.state = Off
    <2>1. Function(k, e[n - 1], "AllUnitsOff", FALSE).state = Off
      BY <1>4, <1>5, HeardAllOff
    <2> QED
      BY <1>3, <1>5, <1>8, <2>1
  <1>9. ASSUME f = "AllLightsOn"
        PROVE  a.state = IF IsLamp(u) /\ d.state \in {Off, Unknown, RefreshWanted}
                         THEN On ELSE d.state
    <2>1. a = Function(k, e[0], "AllLightsOn", FALSE)
      BY <1>0, <1>3, <1>5, <1>9
    <2>2. Function(k, e[0], "AllLightsOn", FALSE).state =
              IF k = "lamp" /\ e[0].state \in {Off, Unknown, RefreshWanted} THEN On ELSE e[0].state
      BY <1>4, <1>5, HeardAllOn
    <2> QED
      BY <1>3, <1>4, <2>1, <2>2
  <1>10. ASSUME f \in {"Dim", "Bright"}, u \in S, IsLamp(u)
         PROVE  /\ f = "Dim" /\ d.state \in Off..Darkest /\ d.state + n <= Darkest
                       => a.state = d.state + n
                /\ f = "Bright" /\ d.state \in On..Darkest /\ d.state - n >= On
                       => a.state = d.state - n
                /\ f = "Bright" /\ d.state = Unknown => a.state = On
    <2>1. Repeats(e, "lamp", f, n) /\ e[0].selected = "on"
      BY <1>3, <1>4, <1>10
    <2> QED
      BY <1>0, <1>3, <1>10, <2>1, LevelsRepeat
  <1>11. Obeys(S, f, n, u, d, a)
    BY <1>2, <1>6, <1>7, <1>8, <1>9, <1>10 DEF Obeys
  <1> QED
    BY <1>11 DEF a, d, q

LEMMA OrderLeaves ==
    ASSUME NEW D \in [Units -> Devices], NEW S, NEW f, NEW n, CanOrder(S, f, n)
    PROVE  HearAll(D, Order(S, f, n)) \in [Units -> Devices]
  <1>1. Order(S, f, n) \in Seq(Messages)
    BY OrderMessages DEF CanOrder
  <1>2. PICK h : Heard(h, D, Order(S, f, n)) /\ HearAll(D, Order(S, f, n)) = h[Len(Order(S, f, n))]
    BY <1>1, HearAllIsHeard
  <1>3. Len(Order(S, f, n)) \in 0..Len(Order(S, f, n))
    BY <1>1
  <1> QED
    BY <1>2, <1>3 DEF Heard
=============================================================================
