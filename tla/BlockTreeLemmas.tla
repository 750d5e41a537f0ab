--------------------------- MODULE BlockTreeLemmas ---------------------------
(***************************************************************************)
(* What the proofs about components that use the block tree need of it.    *)
(* The chain of a block is defined by recursion over the parents; that the *)
(* definition has a solution is shown by giving one, the least set that    *)
(* has the block and is closed under parents, and what holds along chains  *)
(* follows by induction over the height.                                   *)
(***************************************************************************)
EXTENDS BlockTree, FiniteSets, FiniteSetTheorems, WellFoundedInduction, TLAPS

\* A set of natural numbers has a smallest one.
LEMMA SmallestExists ==
    ASSUME NEW S \in SUBSET Nat, S # {}
    PROVE  \E m \in S : \A k \in S : m <= k
<1> DEFINE R == {p \in Nat \X Nat : p[1] < p[2]}
<1>1. IsWellFoundedOn(R, Nat)
  BY NatLessThanWellFounded DEF OpToRel
<1> HIDE DEF R
<1>2. PICK x \in S : \A y \in S : <<y, x>> \notin R
  BY <1>1, WFMin
<1>3. \A y \in S : ~(y < x)
  BY <1>2 DEF R
<1>4. \A y \in S : x <= y
  BY <1>3
<1> QED
  BY <1>4

\* Every block is reached from the genesis block: pprev ends there.
LEMMA TreeInduction ==
    ASSUME NEW T, Genesis \in T,
           \A b \in Blocks \ {Genesis} : Parent[b] \in T => b \in T
    PROVE  Blocks \subseteq T
<1> SUFFICES ASSUME NEW x \in Blocks, x \notin T PROVE FALSE
  OBVIOUS
<1> DEFINE S == {Height[b] : b \in Blocks \ T}
<1>1. S \in SUBSET Nat /\ S # {}
  BY TreeAssumption
<1>2. PICK m \in S : \A k \in S : m <= k
  <2> HIDE DEF S
  <2> QED BY <1>1, SmallestExists
<1>3. PICK b \in Blocks \ T : Height[b] = m
  OBVIOUS
<1>4. b # Genesis /\ Parent[b] \in Blocks \ T /\ Height[Parent[b]] \in Nat /\ Height[b] = Height[Parent[b]] + 1
  BY TreeAssumption
<1>5. Height[b] <= Height[Parent[b]]
  BY <1>2, <1>3, <1>4
<1> QED
  BY <1>4, <1>5

\* The chain of a block is the block and the chain of its parent (pprev).
LEMMA ChainOf ==
    /\ Chain \in [Blocks -> SUBSET Blocks]
    /\ Chain[Genesis] = {Genesis}
    /\ \A b \in Blocks \ {Genesis} : Chain[b] = {b} \cup Chain[Parent[b]]
<1> DEFINE Closed(S) == \A d \in S \ {Genesis} : Parent[d] \in S
           Least(b)  == {c \in Blocks : \A S \in SUBSET Blocks : b \in S /\ Closed(S) => c \in S}
           g         == [b \in Blocks |-> Least(b)]
<1>1. ASSUME NEW b \in Blocks
      PROVE  b \in Least(b) /\ Closed(Least(b)) /\ Least(b) \in SUBSET Blocks
  BY TreeAssumption
<1>2. Least(Genesis) = {Genesis}
  <2>1. Closed({Genesis}) /\ {Genesis} \in SUBSET Blocks
    BY TreeAssumption
  <2>2. Least(Genesis) \subseteq {Genesis}
    BY <2>1
  <2>3. Genesis \in Least(Genesis)
    BY <1>1, TreeAssumption
  <2> QED BY <2>2, <2>3
<1>3. ASSUME NEW b \in Blocks \ {Genesis}
      PROVE  Least(b) = {b} \cup Least(Parent[b])
  <2>1. Parent[b] \in Blocks
    BY TreeAssumption
  <2>2. Parent[b] \in Least(b)
    BY <1>1, <2>1
  <2>3. Least(Parent[b]) \subseteq Least(b)
    BY <1>1, <2>2
  <2>4. Closed({b} \cup Least(Parent[b])) /\ {b} \cup Least(Parent[b]) \in SUBSET Blocks
    <3>1. Closed(Least(Parent[b])) /\ Parent[b] \in Least(Parent[b])
      BY <1>1, <2>1
    <3> QED BY <3>1
  <2>5. Least(b) \subseteq {b} \cup Least(Parent[b])
    BY <2>4
  <2> QED BY <1>1, <2>3, <2>5
<1>4. g = [b \in Blocks |-> IF b = Genesis THEN {b} ELSE {b} \cup g[Parent[b]]]
  <2> SUFFICES ASSUME NEW b \in Blocks
               PROVE  Least(b) = IF b = Genesis THEN {b} ELSE {b} \cup g[Parent[b]]
    OBVIOUS
  <2>1. CASE b = Genesis
    BY <1>2, <2>1
  <2>2. CASE b # Genesis
    <3>1. Parent[b] \in Blocks
      BY <2>2, TreeAssumption
    <3>2. g[Parent[b]] = Least(Parent[b])
      BY <3>1
    <3> QED BY <1>3, <2>2, <3>2
  <2> QED BY <2>1, <2>2
<1> HIDE DEF g
<1>5. PathTo = [b \in Blocks |-> IF b = Genesis THEN {b} ELSE {b} \cup PathTo[Parent[b]]]
  BY <1>4 DEF PathTo
<1>6. Chain = PathTo
  BY <1>5 DEF Chain
<1>7. Chain[Genesis] = {Genesis}
  BY <1>5, <1>6, TreeAssumption
<1>8. \A b \in Blocks \ {Genesis} : Chain[b] = {b} \cup Chain[Parent[b]]
  BY <1>5, <1>6
<1>9. Chain \in [Blocks -> SUBSET Blocks]
  <2> DEFINE T == {b \in Blocks : Chain[b] \in SUBSET Blocks}
  <2>1. Genesis \in T
    BY <1>7, TreeAssumption
  <2>2. \A b \in Blocks \ {Genesis} : Parent[b] \in T => b \in T
    BY <1>8
  <2>3. Blocks \subseteq T
    <3> HIDE DEF T
    <3> QED BY <2>1, <2>2, TreeInduction
  <2> QED BY <2>3 DEF Chain
<1> QED BY <1>7, <1>8, <1>9

\* A block is on its own chain, above the genesis block.
LEMMA ChainEnds ==
    ASSUME NEW b \in Blocks
    PROVE  b \in Chain[b] /\ Genesis \in Chain[b]
<1> DEFINE T == {c \in Blocks : c \in Chain[c] /\ Genesis \in Chain[c]}
<1>1. Genesis \in T
  BY ChainOf, TreeAssumption
<1>2. \A c \in Blocks \ {Genesis} : Parent[c] \in T => c \in T
  BY ChainOf
<1>3. Blocks \subseteq T
  <2> HIDE DEF T
  <2> QED BY <1>1, <1>2, TreeInduction
<1> QED BY <1>3

\* The other blocks of its chain are lower.
LEMMA ChainBelow ==
    ASSUME NEW b \in Blocks, NEW c \in Chain[b]
    PROVE  /\ c \in Blocks /\ Height[c] \in Nat /\ Height[b] \in Nat
           /\ Height[c] <= Height[b] /\ (c = b \/ Height[c] < Height[b])
<1> DEFINE T == {x \in Blocks : \A y \in Chain[x] : y = x \/ Height[y] < Height[x]}
<1>0. \A x \in Blocks : Chain[x] \in SUBSET Blocks /\ Height[x] \in Nat
  BY ChainOf, TreeAssumption
<1>1. Genesis \in T
  BY ChainOf, TreeAssumption
<1>2. \A x \in Blocks \ {Genesis} : Parent[x] \in T => x \in T
  <2> SUFFICES ASSUME NEW x \in Blocks \ {Genesis}, Parent[x] \in T,
                      NEW y \in Chain[x], y # x
               PROVE  Height[y] < Height[x]
    OBVIOUS
  <2>1. y \in Chain[Parent[x]] /\ y \in Blocks
    BY ChainOf
  <2>2. Height[y] <= Height[Parent[x]]
    BY <2>1, <1>0
  <2>3. Height[x] = Height[Parent[x]] + 1 /\ Height[Parent[x]] \in Nat /\ Height[y] \in Nat
    BY <2>1, TreeAssumption
  <2> HIDE DEF T
  <2> QED BY <2>2, <2>3
<1>3. Blocks \subseteq T
  <2> HIDE DEF T
  <2> QED BY <1>1, <1>2, TreeInduction
<1>4. c = b \/ Height[c] < Height[b]
  BY <1>3
<1> QED BY <1>0, <1>4

\* The chain of a block on a chain is the lower part of it.
LEMMA ChainPrefix ==
    ASSUME NEW b \in Blocks, NEW c \in Chain[b]
    PROVE  Chain[c] \subseteq Chain[b]
<1> DEFINE T == {x \in Blocks : \A y \in Chain[x] : Chain[y] \subseteq Chain[x]}
<1>1. Genesis \in T
  BY ChainOf, TreeAssumption
<1>2. \A x \in Blocks \ {Genesis} : Parent[x] \in T => x \in T
  BY ChainOf
<1>3. Blocks \subseteq T
  <2> HIDE DEF T
  <2> QED BY <1>1, <1>2, TreeInduction
<1> QED BY <1>3

\* Of two blocks on one chain, the lower is on the chain of the other.
LEMMA ChainOrder ==
    ASSUME NEW b \in Blocks, NEW c \in Chain[b], NEW d \in Chain[b], Height[c] <= Height[d]
    PROVE  c \in Chain[d]
<1> DEFINE T == {x \in Blocks : \A y, z \in Chain[x] : Height[y] <= Height[z] => y \in Chain[z]}
<1>1. Genesis \in T
  BY ChainOf, TreeAssumption
<1>2. \A x \in Blocks \ {Genesis} : Parent[x] \in T => x \in T
  <2> SUFFICES ASSUME NEW x \in Blocks \ {Genesis}, Parent[x] \in T,
                      NEW y \in Chain[x], NEW z \in Chain[x], Height[y] <= Height[z]
               PROVE  y \in Chain[z]
    OBVIOUS
  <2>1. CASE z = x
    BY <2>1
  <2>2. CASE z # x
    <3>1. y # x
      BY <2>2, ChainBelow
    <3>2. y \in Chain[Parent[x]] /\ z \in Chain[Parent[x]]
      BY <2>2, <3>1, ChainOf
    <3> QED BY <3>2
  <2> QED BY <2>1, <2>2
<1>3. Blocks \subseteq T
  <2> HIDE DEF T
  <2> QED BY <1>1, <1>2, TreeInduction
<1> QED BY <1>3

\* A chain has one block of each height.
LEMMA ChainUnique ==
    ASSUME NEW b \in Blocks, NEW c \in Chain[b], NEW d \in Chain[b], Height[c] = Height[d]
    PROVE  c = d
<1>1. Height[c] \in Nat /\ Height[d] \in Nat /\ d \in Blocks
  BY ChainBelow
<1>2. c \in Chain[d]
  BY <1>1, ChainOrder
<1> QED BY <1>1, <1>2, ChainBelow

\* m_chain[h]: the block of a height, if the chain is as high.
LEMMA ChainAt ==
    ASSUME NEW b \in Blocks, NEW h \in 0 .. Height[b]
    PROVE  At(b, h) \in Chain[b] /\ At(b, h) \in Blocks /\ Height[At(b, h)] = h
<1> DEFINE T == {x \in Blocks : \A k \in 0 .. Height[x] : \E c \in Chain[x] : Height[c] = k}
<1>1. Genesis \in T
  BY ChainOf, TreeAssumption
<1>2. \A x \in Blocks \ {Genesis} : Parent[x] \in T => x \in T
  <2> SUFFICES ASSUME NEW x \in Blocks \ {Genesis}, Parent[x] \in T, NEW k \in 0 .. Height[x]
               PROVE  \E c \in Chain[x] : Height[c] = k
    OBVIOUS
  <2>1. Height[x] = Height[Parent[x]] + 1 /\ Height[Parent[x]] \in Nat
    BY TreeAssumption
  <2>2. CASE k = Height[x]
    BY <2>2, ChainEnds
  <2>3. CASE k # Height[x]
    <3>1. k \in 0 .. Height[Parent[x]]
      BY <2>1, <2>3
    <3> QED BY <3>1, ChainOf
  <2> QED BY <2>2, <2>3
<1>3. Blocks \subseteq T
  <2> HIDE DEF T
  <2> QED BY <1>1, <1>2, TreeInduction
<1>4. \E c \in Chain[b] : Height[c] = h
  BY <1>3
<1> QED BY <1>4, ChainBelow DEF At

\* A chain has finitely many blocks.
LEMMA ChainFinite ==
    ASSUME NEW b \in Blocks
    PROVE  IsFiniteSet(Chain[b])
<1> DEFINE T == {x \in Blocks : IsFiniteSet(Chain[x])}
<1>1. Genesis \in T
  <2>1. IsFiniteSet({Genesis})
    BY FS_Singleton
  <2> QED BY <2>1, ChainOf, TreeAssumption
<1>2. \A x \in Blocks \ {Genesis} : Parent[x] \in T => x \in T
  <2> SUFFICES ASSUME NEW x \in Blocks \ {Genesis}, IsFiniteSet(Chain[Parent[x]])
               PROVE  IsFiniteSet(Chain[x])
    OBVIOUS
  <2>1. Chain[x] = Chain[Parent[x]] \cup {x}
    BY ChainOf
  <2> QED BY <2>1, FS_AddElement
<1>3. Blocks \subseteq T
  <2> HIDE DEF T
  <2> QED BY <1>1, <1>2, TreeInduction
<1> QED BY <1>3

-----------------------------------------------------------------------------
\* What holds of the empty set, and of a set with one more element, holds of finite sets.
LEMMA FiniteInduction ==
    ASSUME NEW U, NEW F, {} \in F,
           \A T \in SUBSET U, x \in U : T \in F => T \cup {x} \in F,
           NEW S \in SUBSET U, IsFiniteSet(S)
    PROVE  S \in F
<1> SUFFICES ASSUME S \notin F PROVE FALSE
  OBVIOUS
<1> DEFINE N == {Cardinality(T) : T \in {V \in SUBSET S : V \notin F}}
<1>1. \A T \in SUBSET S : IsFiniteSet(T) /\ Cardinality(T) \in Nat
  BY FS_Subset, FS_CardinalityType
<1>2. N \in SUBSET Nat /\ N # {}
  BY <1>1
<1>3. PICK m \in N : \A k \in N : m <= k
  <2> HIDE DEF N
  <2> QED BY <1>2, SmallestExists
<1>4. PICK T \in SUBSET S : T \notin F /\ Cardinality(T) = m
  OBVIOUS
<1>5. PICK x \in T : TRUE
  BY <1>4
<1> DEFINE R == T \ {x}
<1>6. R \in SUBSET S /\ Cardinality(R) = Cardinality(T) - 1
  BY <1>1, <1>5, FS_RemoveElement
<1>7. R \in F
  <2> SUFFICES ASSUME R \notin F PROVE FALSE
    OBVIOUS
  <2>1. Cardinality(R) \in N
    BY <1>6
  <2>2. Cardinality(T) <= Cardinality(R) /\ Cardinality(T) \in Nat
    BY <1>1, <1>3, <1>4, <2>1
  <2> QED BY <1>6, <2>2
<1>8. T = R \cup {x} /\ x \in U /\ R \in SUBSET U
  BY <1>5
<1> HIDE DEF R
<1> QED
  BY <1>4, <1>7, <1>8

\* Of finitely many blocks there is a highest.
LEMMA HighestExists ==
    ASSUME NEW S \in SUBSET Blocks, IsFiniteSet(S), S # {}
    PROVE  \E b \in S : \A c \in S : Height[c] <= Height[b]
<1> DEFINE F == {T \in SUBSET Blocks : T # {} => \E b \in T : \A c \in T : Height[c] <= Height[b]}
<1>1. {} \in F
  OBVIOUS
<1>2. ASSUME NEW T \in SUBSET Blocks, NEW x \in Blocks, T \in F
      PROVE  T \cup {x} \in F
  <2>1. \A b \in Blocks : Height[b] \in Nat
    BY TreeAssumption
  <2>2. CASE T = {}
    BY <2>1, <2>2
  <2>3. CASE T # {}
    <3>1. PICK b \in T : \A c \in T : Height[c] <= Height[b]
      BY <1>2, <2>3
    <3>2. CASE Height[x] <= Height[b]
      BY <3>1, <3>2
    <3>3. CASE ~(Height[x] <= Height[b])
      <4>1. Height[b] <= Height[x] /\ Height[x] <= Height[x]
        BY <2>1, <3>3
      <4>2. \A c \in T : Height[c] <= Height[x]
        BY <2>1, <3>1, <4>1
      <4> QED BY <4>1, <4>2
    <3> QED BY <3>2, <3>3
  <2> QED BY <2>2, <2>3
<1>3. S \in F
  <2> HIDE DEF F
  <2> QED BY <1>1, <1>2, FiniteInduction
<1> QED
  BY <1>3
=============================================================================
