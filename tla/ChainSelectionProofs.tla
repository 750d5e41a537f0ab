------------------------- MODULE ChainSelectionProofs -------------------------
(***************************************************************************)
(* Proofs about the choice of the active chain, for every tree of blocks,  *)
(* every set of anchors and all bounds.                                    *)
(***************************************************************************)
EXTENDS ChainSelection, BlockTreeLemmas

-----------------------------------------------------------------------------
(* Anchors.                                                                *)

\* Every anchor is reached from a first one: heights decrease along previousAnchor.
LEMMA AnchorInduction ==
    ASSUME NEW T, \A a \in Anchors : Previous[a] = None \/ Previous[a] \in T => a \in T
    PROVE  Anchors \subseteq T
<1> SUFFICES ASSUME NEW x \in Anchors, x \notin T PROVE FALSE
  OBVIOUS
<1> DEFINE S == {AnchorHeight(a) : a \in Anchors \ T}
<1>1. \A a \in Anchors : AnchorHeight(a) \in Nat
  BY AnchorAssumption, TreeAssumption DEF AnchorHeight
<1>2. S \in SUBSET Nat /\ S # {}
  BY <1>1
<1>3. PICK m \in S : \A k \in S : m <= k
  <2> HIDE DEF S
  <2> QED BY <1>2, SmallestExists
<1>4. PICK a \in Anchors \ T : AnchorHeight(a) = m
  OBVIOUS
<1>5. Previous[a] \in Anchors \ T /\ AnchorHeight(Previous[a]) < AnchorHeight(a)
  BY AnchorAssumption DEF AnchorHeight
<1>6. AnchorHeight(a) <= AnchorHeight(Previous[a])
  BY <1>3, <1>4, <1>5, Zenon
<1> QED
  BY <1>1, <1>5, <1>6

\* The anchors of a chain of anchors (previousAnchor, as GetHighestAnchorFor follows it).
LEMMA BelowOf ==
    /\ Below \in [Anchors -> SUBSET Anchors]
    /\ \A a \in Anchors : Below[a] = {a} \cup (IF Previous[a] = None THEN {} ELSE Below[Previous[a]])
<1> DEFINE Closed(S) == \A d \in S : Previous[d] # None => Previous[d] \in S
           Least(a)  == {c \in Anchors : \A S \in SUBSET Anchors : a \in S /\ Closed(S) => c \in S}
           g         == [a \in Anchors |-> Least(a)]
<1>1. ASSUME NEW a \in Anchors
      PROVE  a \in Least(a) /\ Closed(Least(a)) /\ Least(a) \in SUBSET Anchors
  BY AnchorAssumption
<1>2. ASSUME NEW a \in Anchors, Previous[a] = None
      PROVE  Least(a) = {a}
  <2>1. Closed({a}) /\ {a} \in SUBSET Anchors
    BY <1>2
  <2>2. Least(a) \subseteq {a}
    BY <2>1, Zenon
  <2> QED BY <1>1, <2>2
<1>3. ASSUME NEW a \in Anchors, Previous[a] # None
      PROVE  Least(a) = {a} \cup Least(Previous[a])
  <2>1. Previous[a] \in Anchors
    BY <1>3, AnchorAssumption, Zenon
  <2>2. Previous[a] \in Least(a)
    BY <1>1, <1>3, Zenon
  <2>3. Least(Previous[a]) \subseteq Least(a)
    BY <1>1, <2>2, Zenon
  <2>4. Closed({a} \cup Least(Previous[a])) /\ {a} \cup Least(Previous[a]) \in SUBSET Anchors
    <3>1. Closed(Least(Previous[a])) /\ Previous[a] \in Least(Previous[a])
      BY <1>1, <2>1
    <3> QED BY <3>1, Zenon
  <2>5. Least(a) \subseteq {a} \cup Least(Previous[a])
    BY <2>4, Zenon
  <2> QED BY <1>1, <2>3, <2>5, Zenon
<1>4. g = [a \in Anchors |-> {a} \cup (IF Previous[a] = None THEN {} ELSE g[Previous[a]])]
  <2> SUFFICES ASSUME NEW a \in Anchors
               PROVE  Least(a) = {a} \cup (IF Previous[a] = None THEN {} ELSE g[Previous[a]])
    BY Zenon
  <2>1. CASE Previous[a] = None
    BY <1>2, <2>1
  <2>2. CASE Previous[a] # None
    <3>1. Previous[a] \in Anchors
      BY <2>2, AnchorAssumption
    <3>2. g[Previous[a]] = Least(Previous[a])
      BY <3>1
    <3> QED BY <1>3, <2>2, <3>2, Zenon
  <2> QED BY <2>1, <2>2, Zenon
<1> HIDE DEF g
<1>5. Below = [a \in Anchors |-> {a} \cup (IF Previous[a] = None THEN {} ELSE Below[Previous[a]])]
  BY <1>4, Zenon DEF Below
<1>6. \A a \in Anchors : Below[a] = {a} \cup (IF Previous[a] = None THEN {} ELSE Below[Previous[a]])
  BY <1>5, Zenon
<1>7. Below \in [Anchors -> SUBSET Anchors]
  <2> DEFINE T == {a \in Anchors : Below[a] \in SUBSET Anchors}
  <2>1. \A a \in Anchors : Previous[a] = None \/ Previous[a] \in T => a \in T
    BY <1>6
  <2>2. Anchors \subseteq T
    <3> HIDE DEF T
    <3> QED BY <2>1, AnchorInduction
  <2> QED BY <1>5, <2>2, Zenon
<1> QED
  BY <1>6, <1>7, Zenon

\* The anchors before an anchor are lower, and the active ones if it is active.
LEMMA BelowFacts ==
    ASSUME NEW t \in Anchors, NEW a \in Below[t]
    PROVE  /\ a \in Anchors /\ Below[a] \subseteq Below[t] /\ t \in Below[t]
           /\ a = t \/ AnchorHeight(a) < AnchorHeight(t)
           /\ OneChain => AnchorBlock[a] \in Chain[AnchorBlock[t]]
<1>1. \A x \in Anchors : AnchorBlock[x] \in Blocks /\ AnchorHeight(x) \in Nat
  BY AnchorAssumption, TreeAssumption, Zenon DEF AnchorHeight
<1> DEFINE T == {x \in Anchors : \A o \in Below[x] :
                    /\ Below[o] \subseteq Below[x]
                    /\ o = x \/ AnchorHeight(o) < AnchorHeight(x)
                    /\ OneChain => AnchorBlock[o] \in Chain[AnchorBlock[x]]}
<1>2. ASSUME NEW x \in Anchors, Previous[x] = None \/ Previous[x] \in T
      PROVE  x \in T
  <2>1. CASE Previous[x] = None
    <3>1. Below[x] = {x}
      BY <2>1, BelowOf
    <3>2. AnchorBlock[x] \in Chain[AnchorBlock[x]]
      BY <1>1, ChainEnds, Zenon
    <3> QED BY <3>1, <3>2
  <2>2. CASE Previous[x] \in T /\ Previous[x] # None
    <3> DEFINE p == Previous[x]
    <3>1. Below[x] = {x} \cup Below[p] /\ p \in Anchors /\ p \in Below[p]
      BY <2>2, BelowOf
    <3>2. AnchorHeight(p) < AnchorHeight(x)
      BY <2>2, AnchorAssumption, Zenon DEF AnchorHeight
    <3> SUFFICES ASSUME NEW o \in Below[x]
                 PROVE  /\ Below[o] \subseteq Below[x]
                        /\ o = x \/ AnchorHeight(o) < AnchorHeight(x)
                        /\ OneChain => AnchorBlock[o] \in Chain[AnchorBlock[x]]
      OBVIOUS
    <3>3. CASE o = x
      BY <1>1, <3>3, ChainEnds, Zenon
    <3>4. CASE o # x
      <4>1. o \in Below[p] /\ o \in Anchors
        BY <3>1, <3>4, BelowOf, Zenon
      <4>2. Below[o] \subseteq Below[x]
        BY <2>2, <3>1, <4>1, Zenon
      <4>3. o = p \/ AnchorHeight(o) < AnchorHeight(p)
        BY <2>2, <4>1, Zenon
      <4>4. AnchorHeight(o) < AnchorHeight(x)
        <5> HIDE DEF p
        <5> QED BY <1>1, <3>1, <3>2, <4>1, <4>3
      <4>5. OneChain => AnchorBlock[o] \in Chain[AnchorBlock[p]] /\ AnchorBlock[p] \in Chain[AnchorBlock[x]]
        BY <2>2, <4>1, Zenon DEF OneChain
      <4>6. OneChain => AnchorBlock[o] \in Chain[AnchorBlock[x]]
        BY <1>1, <4>5, ChainPrefix, Zenon
      <4> QED BY <4>2, <4>4, <4>6, Zenon
    <3> QED BY <3>3, <3>4, Zenon
  <2> QED BY <1>2, <2>1, <2>2, Zenon
<1>3. Anchors \subseteq T
  <2> HIDE DEF T
  <2> QED BY <1>2, AnchorInduction, Zenon
<1>4. t \in T /\ a \in Anchors /\ t \in Below[t]
  BY <1>3, BelowOf, Zenon
<1> QED
  BY <1>4

-----------------------------------------------------------------------------
(* What it means that a chain satisfies the active anchors.                *)

Tops == Anchors \cup {None}

\* The chain of block b has the block of every active anchor that it reaches.
Satisfies(t, b) == \A a \in Reached(t, b) : AnchorBlock[a] \in Chain[b]

\* The active anchors that a block reaches.
LEMMA ReachedFacts ==
    ASSUME NEW t \in Tops, NEW b \in Blocks, NEW a \in Reached(t, b)
    PROVE  /\ a \in Anchors /\ AnchorBlock[a] \in Blocks \ {Genesis}
           /\ AnchorHeight(a) \in Nat \ {0} /\ AnchorHeight(a) <= Height[b] /\ t \in Anchors /\ a \in Below[t]
<1>1. t \in Anchors /\ a \in Below[t] /\ AnchorHeight(a) <= Height[b]
  BY DEF Tops, Reached, ActiveAnchors
<1>2. a \in Anchors
  BY <1>1, BelowFacts, Zenon
<1>3. AnchorBlock[a] \in Blocks \ {Genesis}
  BY <1>2, AnchorAssumption, Zenon
<1>4. Height[AnchorBlock[a]] = Height[Parent[AnchorBlock[a]]] + 1 /\ Height[Parent[AnchorBlock[a]]] \in Nat
  BY <1>3, TreeAssumption, Zenon
<1> QED
  BY <1>1, <1>2, <1>3, <1>4 DEF AnchorHeight

\* Of the anchors that a block reaches, GetHighestAnchorFor finds the highest.
LEMMA HighestAnchor ==
    ASSUME NEW t \in Tops, NEW b \in Blocks, Reached(t, b) # {}
    PROVE  /\ GetHighestAnchorFor(t, b) \in Reached(t, b)
           /\ \A o \in Reached(t, b) : AnchorHeight(o) <= AnchorHeight(GetHighestAnchorFor(t, b))
<1> DEFINE S == {Height[b] - AnchorHeight(a) : a \in Reached(t, b)}
<1>1. \A a \in Reached(t, b) : AnchorHeight(a) \in Nat /\ AnchorHeight(a) <= Height[b]
  BY ReachedFacts
<1>2. Height[b] \in Nat
  BY TreeAssumption
<1>3. S \in SUBSET Nat /\ S # {}
  BY <1>1, <1>2
<1>4. PICK m \in S : \A k \in S : m <= k
  <2> HIDE DEF S
  <2> QED BY <1>3, SmallestExists
<1>5. PICK a \in Reached(t, b) : Height[b] - AnchorHeight(a) = m
  OBVIOUS
<1>6. ASSUME NEW o \in Reached(t, b)
      PROVE  AnchorHeight(o) <= AnchorHeight(a)
  <2>1. Height[b] - AnchorHeight(a) <= Height[b] - AnchorHeight(o)
    BY <1>4, <1>5, Zenon
  <2>2. AnchorHeight(a) \in Nat /\ AnchorHeight(o) \in Nat
    BY <1>1
  <2> QED BY <1>2, <2>1, <2>2
<1> QED
  BY <1>6 DEF GetHighestAnchorFor

\* If the anchors are on one chain, the test of FilterAnchorSatisfying is enough.
LEMMA GoodChainSatisfies ==
    ASSUME OneChain, NEW t \in Tops, NEW b \in Blocks, GoodChain(t, b)
    PROVE  Satisfies(t, b)
<1> SUFFICES ASSUME NEW a \in Reached(t, b)
             PROVE  AnchorBlock[a] \in Chain[b]
  BY DEF Satisfies
<1> DEFINE g == GetHighestAnchorFor(t, b)
<1>1. g \in Reached(t, b) /\ AnchorHeight(a) <= AnchorHeight(g) /\ AnchorBlock[g] \in Chain[b]
  BY HighestAnchor, Zenon DEF GoodChain
<1> HIDE DEF g
<1>2. /\ a \in Below[t] /\ g \in Below[t] /\ t \in Anchors /\ AnchorBlock[t] \in Blocks
      /\ AnchorBlock[g] \in Blocks
  BY <1>1, ReachedFacts, AnchorAssumption, Zenon
<1>3. AnchorBlock[a] \in Chain[AnchorBlock[t]] /\ AnchorBlock[g] \in Chain[AnchorBlock[t]]
  BY <1>2, BelowFacts, Zenon
<1>4. AnchorBlock[a] \in Chain[AnchorBlock[g]]
  BY <1>1, <1>2, <1>3, ChainOrder, Zenon DEF AnchorHeight
<1> QED
  BY <1>1, <1>4, ChainPrefix, Zenon

\* What a chain satisfies, its lower parts do.
LEMMA SatisfiesBelow ==
    ASSUME NEW t \in Tops, NEW b \in Blocks, Satisfies(t, b), NEW c \in Chain[b]
    PROVE  Satisfies(t, c)
<1> SUFFICES ASSUME NEW a \in Reached(t, c)
             PROVE  AnchorBlock[a] \in Chain[c]
  BY DEF Satisfies
<1>1. c \in Blocks /\ Height[c] <= Height[b] /\ Height[c] \in Nat /\ Height[b] \in Nat
  BY ChainBelow, Zenon
<1>2. AnchorHeight(a) <= Height[c] /\ AnchorHeight(a) \in Nat
  BY <1>1, ReachedFacts, Zenon
<1>3. AnchorHeight(a) <= Height[b]
  BY <1>1, <1>2
<1>4. a \in Reached(t, b)
  BY <1>3 DEF Reached
<1> QED
  BY <1>2, <1>4, ChainOrder, Zenon DEF Satisfies, AnchorHeight

\* When anchors go, what is left is satisfied.
LEMMA SatisfiesLess ==
    ASSUME NEW t \in Tops, NEW u \in ActiveAnchors(t) \cup {None}, NEW b \in Blocks, Satisfies(t, b)
    PROVE  u \in Tops /\ Satisfies(u, b)
<1>1. CASE u = None
  BY <1>1 DEF Satisfies, Reached, ActiveAnchors, Tops
<1>2. CASE u # None
  <2>1. t \in Anchors /\ u \in Below[t]
    BY <1>2, Zenon DEF ActiveAnchors, Tops
  <2>2. u \in Anchors /\ Below[u] \subseteq Below[t]
    BY <2>1, BelowFacts, Zenon
  <2>3. ActiveAnchors(u) \subseteq ActiveAnchors(t)
    BY <2>1, <2>2, AnchorAssumption, Zenon DEF ActiveAnchors
  <2> QED BY <2>2, <2>3 DEF Satisfies, Reached, Tops
<1> QED
  BY <1>1, <1>2

-----------------------------------------------------------------------------
(* Types, and the order of the candidates.                                 *)

L == Linked(data)

TypeInv ==
    /\ known \in SUBSET Blocks /\ IsFiniteSet(known) /\ \A b \in known \ {Genesis} : Parent[b] \in known
    /\ data \in SUBSET known /\ Genesis \in data
    /\ failed \in SUBSET known /\ candidates \in SUBSET L /\ tip \in L
    /\ top \in Tops /\ tops \in Nat /\ wanted \in BOOLEAN /\ lowered \in BOOLEAN
    /\ pc \in {"idle", "loop", "find", "step"} /\ pindexMostWork \in L \cup {None}

\* nSequenceId makes CBlockIndexWorkComparator a total order of the linked blocks.
Ordered(K, B) ==
    /\ \A p \in B : p \in K \X K /\ p[1] # p[2] /\ Height[p[1]] = Height[p[2]]
    /\ \A b, c \in K : b # c /\ Height[b] = Height[c] => <<b, c>> \in B \/ <<c, b>> \in B
    /\ \A b, c \in K : <<b, c>> \in B => <<c, b>> \notin B
    /\ \A b, c, d \in K : <<b, c>> \in B /\ <<c, d>> \in B => <<b, d>> \in B
OrderInv == Ordered(L, before)

WorseIn(B, b, c) == Height[b] < Height[c] \/ <<c, b>> \in B

\* Linked blocks are blocks, and so are the ones they are linked to.
LEMMA LinkedFacts ==
    ASSUME TypeInv
    PROVE  /\ L \in SUBSET Blocks /\ L \in SUBSET known /\ IsFiniteSet(L) /\ Genesis \in L /\ None \notin L
           /\ \A b \in L : Height[b] \in Nat /\ Chain[b] \subseteq L
<1>1. L \in SUBSET known /\ known \in SUBSET Blocks /\ L \in SUBSET data
  BY DEF TypeInv, L, Linked
<1>2. IsFiniteSet(L)
  BY <1>1, FS_Subset, Zenon DEF TypeInv
<1>3. Genesis \in L
  BY ChainOf, Zenon DEF TypeInv, L, Linked
<1>4. None \notin L
  BY <1>1, AnchorAssumption, Zenon
<1>5. ASSUME NEW b \in L, NEW c \in Chain[b]
      PROVE  c \in L
  <2>1. c \in data /\ Chain[c] \subseteq Chain[b] /\ Chain[b] \subseteq data
    BY <1>1, <1>5, ChainPrefix DEF L, Linked
  <2> QED BY <2>1 DEF L, Linked
<1>6. \A b \in L : Height[b] \in Nat
  BY <1>1, TreeAssumption, Zenon
<1> QED
  BY <1>1, <1>2, <1>3, <1>4, <1>5, <1>6, Zenon

\* CBlockIndexWorkComparator is a strict total order.
LEMMA OrderFacts ==
    ASSUME NEW K \in SUBSET Blocks, NEW B, Ordered(K, B), NEW b \in K, NEW c \in K
    PROVE  /\ b = c \/ WorseIn(B, b, c) \/ WorseIn(B, c, b)
           /\ ~(WorseIn(B, b, c) /\ WorseIn(B, c, b)) /\ ~WorseIn(B, b, b)
           /\ Height[b] < Height[c] => WorseIn(B, b, c)
           /\ WorseIn(B, b, c) => Height[b] <= Height[c]
           /\ \A d \in K : WorseIn(B, b, c) /\ WorseIn(B, c, d) => WorseIn(B, b, d)
<1>1. \A x \in K : Height[x] \in Nat
  BY TreeAssumption
<1>2. \A x, y \in K : <<x, y>> \in B => x # y /\ Height[x] = Height[y]
  BY DEF Ordered
<1>3. b = c \/ WorseIn(B, b, c) \/ WorseIn(B, c, b)
  BY <1>1 DEF Ordered, WorseIn
<1>4. ~(WorseIn(B, b, c) /\ WorseIn(B, c, b)) /\ ~WorseIn(B, b, b)
  BY <1>1, <1>2 DEF Ordered, WorseIn
<1>5. WorseIn(B, b, c) => Height[b] <= Height[c]
  BY <1>1, <1>2 DEF WorseIn
<1>6. ASSUME NEW d \in K, WorseIn(B, b, c), WorseIn(B, c, d)
      PROVE  WorseIn(B, b, d)
  <2>1. CASE Height[b] < Height[c] \/ Height[c] < Height[d]
    <3>1. Height[b] < Height[d]
      BY <1>1, <1>2, <1>6, <2>1 DEF WorseIn
    <3> QED BY <3>1, Zenon DEF WorseIn
  <2>2. CASE <<c, b>> \in B /\ <<d, c>> \in B
    BY <2>2, Zenon DEF Ordered, WorseIn
  <2> QED BY <1>6, <2>1, <2>2, Zenon DEF WorseIn
<1> QED
  BY <1>3, <1>4, <1>5, <1>6, Zenon DEF WorseIn

\* A finite set of such blocks that is not empty has a best one.
LEMMA BestOf ==
    ASSUME NEW K \in SUBSET Blocks, NEW B, Ordered(K, B), NEW S \in SUBSET K, IsFiniteSet(S), S # {}
    PROVE  \E b \in S : \A c \in S : c = b \/ WorseIn(B, c, b)
<1> DEFINE F == {T \in SUBSET K : T # {} => \E b \in T : \A c \in T : c = b \/ WorseIn(B, c, b)}
<1>1. {} \in F
  OBVIOUS
<1>2. ASSUME NEW T \in SUBSET K, NEW x \in K, T \in F
      PROVE  T \cup {x} \in F
  <2>1. CASE T = {}
    BY <2>1, Zenon
  <2>2. CASE T # {}
    <3>1. PICK b \in T : \A c \in T : c = b \/ WorseIn(B, c, b)
      BY <1>2, <2>2, Zenon
    <3>2. b \in K
      BY <3>1, Zenon
    <3>3. CASE x = b \/ WorseIn(B, x, b)
      <4>1. \A c \in T \cup {x} : c = b \/ WorseIn(B, c, b)
        BY <3>1, <3>3, Zenon
      <4> QED BY <3>1, <4>1, Zenon
    <3>4. CASE WorseIn(B, b, x)
      <4>1. \A c \in T \cup {x} : c = x \/ WorseIn(B, c, x)
        BY <3>1, <3>2, <3>4, OrderFacts, Zenon
      <4> QED BY <4>1, Zenon
    <3> QED BY <3>2, <3>3, <3>4, OrderFacts, Zenon
  <2> QED BY <2>1, <2>2, Zenon
<1>3. S \in F
  <2> HIDE DEF F
  <2> QED BY <1>1, <1>2, FiniteInduction, Zenon
<1> QED
  BY <1>3

\* The same of the linked blocks.
LEMMA WorseFacts ==
    ASSUME TypeInv, OrderInv, NEW b \in L, NEW c \in L
    PROVE  /\ b = c \/ Worse(b, c) \/ Worse(c, b)
           /\ ~(Worse(b, c) /\ Worse(c, b)) /\ ~Worse(b, b)
           /\ Height[b] < Height[c] => Worse(b, c)
           /\ Worse(b, c) => Height[b] <= Height[c]
           /\ \A d \in L : Worse(b, c) /\ Worse(c, d) => Worse(b, d)
<1>1. L \in SUBSET Blocks /\ Ordered(L, before)
  BY LinkedFacts DEF OrderInv
<1>2. \A x, y : Worse(x, y) <=> WorseIn(before, x, y)
  BY DEF Worse, WorseIn
<1> QED
  BY <1>1, <1>2, OrderFacts, Zenon

\* CBlockIndexWorkComparator has a best element on every set of blocks that are there.
LEMMA BestExists ==
    ASSUME TypeInv, OrderInv, NEW S \in SUBSET L, S # {}
    PROVE  Best(S) # {}
<1>1. L \in SUBSET Blocks /\ Ordered(L, before) /\ IsFiniteSet(S)
  BY LinkedFacts, FS_Subset, Zenon DEF OrderInv
<1>2. PICK b \in S : \A c \in S : c = b \/ WorseIn(before, c, b)
  BY <1>1, BestOf, Zenon
<1> QED
  BY <1>2, Zenon DEF Best, Worse, WorseIn

-----------------------------------------------------------------------------
(* What the thread does in a step.                                         *)

\* RollBackIfTipConflictsWithAnchors goes back to below the lowest of the conflicting anchors.
LEMMA RollBack ==
    ASSUME TypeInv, ActivateBestChain
    PROVE  /\ UNCHANGED <<known, data, before, failed, top, tops>> /\ ~wanted' /\ ~lowered'
           /\ wanted' \in BOOLEAN /\ lowered' \in BOOLEAN /\ pc' = "loop" /\ pindexMostWork' = None
           /\ \/ Conflicting = {} /\ UNCHANGED <<tip, candidates>>
              \/ \E t \in Chain[tip] \cap L, m \in Nat \ {0} :
                    /\ Height[t] = m - 1 /\ \A a \in Conflicting : m <= AnchorHeight(a)
                    /\ tip' = t /\ candidates' = RefillCandidates(t)
<1>1. CASE Conflicting = {}
  BY <1>1, Zenon DEF ActivateBestChain, tree, anchors
<1>2. CASE Conflicting # {}
  <2> DEFINE H == {AnchorHeight(a) : a \in Conflicting}
             m == Min(H)
  <2>1. tip \in Blocks /\ tip \in L /\ top \in Tops
    BY LinkedFacts, Zenon DEF TypeInv
  <2>2. \A a \in Conflicting : AnchorHeight(a) \in Nat \ {0} /\ AnchorHeight(a) <= Height[tip]
    BY <2>1, ReachedFacts, Zenon DEF Conflicting
  <2>3. H \in SUBSET Nat /\ H # {}
    BY <1>2, <2>2, Zenon
  <2>4. m \in H /\ \A k \in H : m <= k
    <3>1. \E x \in H : \A y \in H : x <= y
      <4> HIDE DEF H
      <4> QED BY <2>3, SmallestExists, Zenon
    <3> HIDE DEF H
    <3> QED BY <3>1 DEF Min
  <2>5. m \in Nat \ {0} /\ m <= Height[tip] /\ Height[tip] \in Nat
    BY <2>1, <2>2, <2>4, TreeAssumption, Zenon
  <2>6. \A a \in Conflicting : m <= AnchorHeight(a)
    BY <2>4, Zenon
  <2>7. tip' = RolledBackTo(m) /\ candidates' = RefillCandidates(RolledBackTo(m))
    BY <1>2 DEF ActivateBestChain
  <2> HIDE DEF m
  <2>8. m - 1 \in 0 .. Height[tip]
    BY <2>5
  <2>9. RolledBackTo(m) \in Chain[tip] /\ Height[RolledBackTo(m)] = m - 1
    BY <2>1, <2>8, ChainAt, Zenon DEF RolledBackTo
  <2>10. RolledBackTo(m) \in L
    BY <2>1, <2>9, LinkedFacts, Zenon
  <2>11. \E t \in Chain[tip] \cap L, k \in Nat \ {0} :
            /\ Height[t] = k - 1 /\ \A a \in Conflicting : k <= AnchorHeight(a)
            /\ tip' = t /\ candidates' = RefillCandidates(t)
    BY <2>5, <2>6, <2>7, <2>9, <2>10, Zenon
  <2> QED BY <2>11, Zenon DEF ActivateBestChain, tree, anchors
<1> QED
  BY <1>1, <1>2, Zenon

\* FindMostWorkChain finds nothing, or a block to work towards, or a failed block on the way.
LEMMA Found ==
    ASSUME TypeInv, FindMostWorkChain
    PROVE  /\ UNCHANGED <<known, data, before, tip, top, tops, wanted, lowered>> /\ pindexMostWork = None
           /\ \/ /\ FilterAnchorSatisfying(top, candidates) = {} /\ pc' = "step"
                 /\ UNCHANGED <<failed, candidates, pindexMostWork>>
              \/ \E new \in Best(FilterAnchorSatisfying(top, candidates)) : new \in candidates /\ new \in L /\
                    \/ pindexMostWork' = new /\ pc' = "step" /\ UNCHANGED <<failed, candidates>>
                    \/ \E f \in failed : /\ f \in Chain[new] /\ f \in Blocks \ {Genesis}
                                         /\ failed' = failed \cup (Chain[new] \ Chain[Parent[f]])
                                         /\ candidates' = candidates \ (Chain[new] \ Chain[Parent[f]])
                                         /\ UNCHANGED <<pc, pindexMostWork>>
<1>1. UNCHANGED <<known, data, before, tip, top, tops, wanted, lowered>> /\ pindexMostWork = None
  BY Zenon DEF FindMostWorkChain, tree, anchors
<1>2. CASE /\ FilterAnchorSatisfying(top, candidates) = {} /\ pc' = "step"
           /\ UNCHANGED <<failed, candidates, pindexMostWork>>
  BY <1>1, <1>2, Zenon
<1>3. ASSUME NEW new \in Best(FilterAnchorSatisfying(top, candidates))
      PROVE  new \in candidates /\ new \in L
  BY Zenon DEF Best, FilterAnchorSatisfying, TypeInv
<1>4. \A f \in failed : f \notin Chain[tip] => f \in Blocks \ {Genesis}
  BY ChainEnds, LinkedFacts, Zenon DEF TypeInv
<1>5. CASE \E new \in Best(FilterAnchorSatisfying(top, candidates)) :
              \/ pindexMostWork' = new /\ pc' = "step" /\ UNCHANGED <<failed, candidates>>
              \/ \E f \in (Chain[new] \ Chain[tip]) \cap failed :
                 /\ failed' = failed \cup (Chain[new] \ Chain[Parent[f]])
                 /\ candidates' = candidates \ (Chain[new] \ Chain[Parent[f]])
                 /\ UNCHANGED <<pc, pindexMostWork>>
  BY <1>1, <1>3, <1>4, <1>5, Zenon
<1> QED
  BY <1>2, <1>5, Zenon DEF FindMostWorkChain

\* ActivateBestChainStep goes up to a block `last' on the way, which connects or fails.
StepTo(last) ==
    /\ last \in L \ {Genesis} /\ last \in Chain[pindexMostWork] /\ last \notin Chain[tip]
    /\ Parent[last] \in L /\ Parent[last] \in Chain[pindexMostWork]
    /\ \A b \in Chain[last] : b = last \/ b \notin Bad \/ b \in Chain[tip]
    /\ \/ /\ last \notin Bad /\ tip' = last /\ (last = pindexMostWork \/ Height[tip] < Height[last])
          /\ candidates' = PruneBlockIndexCandidates(candidates, last)
          /\ UNCHANGED <<failed, pindexMostWork>>
       \/ /\ last \in Bad /\ tip' = Parent[last] /\ failed' = failed \cup {last} /\ pindexMostWork' = None
          /\ \/ Parent[last] \in Chain[tip] /\ candidates' = candidates \ {last}
             \/ candidates' = PruneBlockIndexCandidates(candidates \ {last}, Parent[last])

\* What one ActivateBestChainStep connects, and which candidates it leaves.
LEMMA Stepped ==
    ASSUME TypeInv, ActivateBestChainStep
    PROVE  /\ UNCHANGED <<known, data, before, top, tops, wanted, lowered>> /\ pindexMostWork \in L
           /\ pc' \in {"idle", "loop", "find"} /\ (pc' = "idle" => tip' = pindexMostWork')
           /\ \E last \in Chain[pindexMostWork] : StepTo(last)
<1> DEFINE way   == Chain[pindexMostWork] \ Chain[tip]
           stops == {b \in way : b \in Bad \/ Height[b] > Height[tip] \/ b = pindexMostWork}
<1>1. UNCHANGED <<known, data, before, top, tops, wanted, lowered>> /\ pindexMostWork \in L
  BY Zenon DEF ActivateBestChainStep, TypeInv, tree, anchors
<1>2. pc' \in {"idle", "loop", "find"} /\ (pc' = "idle" => tip' = pindexMostWork')
  BY DEF ActivateBestChainStep, AfterStep
<1>3. PICK last \in stops :
          /\ \A b \in stops : Height[last] <= Height[b]
          /\ \/ /\ last \notin Bad /\ tip' = last
                /\ candidates' = PruneBlockIndexCandidates(candidates, last)
                /\ UNCHANGED <<failed, pindexMostWork>>
             \/ /\ last \in Bad /\ tip' = Parent[last] /\ failed' = failed \cup {last} /\ pindexMostWork' = None
                /\ candidates' = IF Parent[last] \in way
                                 THEN PruneBlockIndexCandidates(candidates \ {last}, Parent[last])
                                 ELSE candidates \ {last}
  BY Zenon DEF ActivateBestChainStep
<1>4. /\ last \in L \ {Genesis} /\ last \in Chain[pindexMostWork] /\ last \notin Chain[tip]
      /\ last \in Blocks /\ tip \in Blocks /\ pindexMostWork \in Blocks
  BY <1>1, ChainEnds, LinkedFacts, Zenon DEF TypeInv
<1>5. Parent[last] \in Chain[last] /\ Parent[last] \in Blocks
  BY <1>4, ChainOf, ChainEnds, TreeAssumption, Zenon
<1>6. Parent[last] \in L /\ Parent[last] \in Chain[pindexMostWork]
  BY <1>4, <1>5, LinkedFacts, ChainPrefix, Zenon
<1>7. ASSUME NEW b \in Chain[last], b # last, b \in Bad, b \notin Chain[tip]
      PROVE  FALSE
  <2>1. b \in Chain[pindexMostWork] /\ Height[b] < Height[last] /\ Height[b] \in Nat /\ Height[last] \in Nat
    BY <1>4, <1>7, ChainPrefix, ChainBelow, Zenon
  <2>2. Height[last] <= Height[b]
    BY <1>3, <1>7, <2>1, Zenon
  <2> QED BY <2>1, <2>2
<1>8. last \notin Bad => last = pindexMostWork \/ Height[tip] < Height[last]
  <2>1. Height[tip] \in Nat /\ Height[last] \in Nat
    BY <1>4, TreeAssumption, Zenon
  <2> QED BY <2>1, Zenon
<1> HIDE DEF stops
<1>9. StepTo(last)
  BY <1>3, <1>4, <1>6, <1>7, <1>8, Zenon DEF StepTo
<1> QED
  BY <1>1, <1>2, <1>4, <1>9, Zenon

-----------------------------------------------------------------------------
\* The actions keep the types.
LEMMA TypeStep ==
    ASSUME TypeInv, [Next]_vars
    PROVE  TypeInv'
<1> USE DEF Tops
<1>0. L \in SUBSET known /\ \A b \in L : Chain[b] \subseteq L
  BY LinkedFacts
<1>a. ASSUME data' = data PROVE L' = L
  BY <1>a, Zenon DEF L
<1>1. CASE ActivateBestChain
  <2>1. tip' \in L /\ candidates' \in SUBSET L
    <3>1. \A t \in L : RefillCandidates(t) \in SUBSET L
      BY DEF RefillCandidates, TypeInv, L
    <3> QED BY <1>1, <3>1, RollBack, Zenon DEF TypeInv
  <2> QED BY <1>1, <1>a, <2>1, RollBack, Zenon DEF TypeInv
<1>2. CASE Lock
  BY <1>2, <1>a, Zenon DEF TypeInv, Lock, tree, anchors
<1>3. CASE FindMostWorkChain
  <2>1. failed' \in SUBSET known /\ candidates' \in SUBSET L /\ pindexMostWork' \in L \cup {None}
        /\ pc' \in {"step", pc}
    BY <1>0, <1>3, Found, Zenon DEF TypeInv
  <2> QED BY <1>3, <1>a, <2>1, Found, Zenon DEF TypeInv
<1>4. CASE Remembered
  BY <1>4, <1>a, Zenon DEF TypeInv, Remembered, tree, anchors, locals
<1>5. CASE NothingToDo
  BY <1>5, <1>a, Zenon DEF TypeInv, NothingToDo, tree, anchors, locals
<1>6. CASE ActivateBestChainStep
  <2>1. tip' \in L /\ failed' \in SUBSET known /\ candidates' \in SUBSET L /\ pindexMostWork' \in L \cup {None}
    <3>1. PICK last \in Chain[pindexMostWork] : StepTo(last)
      BY <1>6, Stepped, Zenon
    <3> QED BY <1>0, <3>1, Zenon DEF StepTo, TypeInv, PruneBlockIndexCandidates
  <2> QED BY <1>6, <1>a, <2>1, Stepped, Zenon DEF TypeInv
<1>7. ASSUME NEW b \in Blocks \ {Genesis}, ReceiveHeader(b)
      PROVE  TypeInv'
  <2>1. IsFiniteSet(known \cup {b})
    BY FS_AddElement, Zenon DEF TypeInv
  <2> QED BY <1>7, <1>a, <2>1, Zenon DEF TypeInv, ReceiveHeader, anchors, locals
<1>8. ASSUME NEW b \in Blocks \ {Genesis}, ProcessNewBlock(b)
      PROVE  TypeInv'
  <2>1. IsFiniteSet(known \cup {b})
    BY FS_AddElement, Zenon DEF TypeInv
  <2>2. L \subseteq L'
    BY <1>8, Zenon DEF ProcessNewBlock, L, Linked
  <2>3. candidates' \subseteq L'
    <3>1. candidates' \subseteq candidates \cup (Linked(data') \ Linked(data))
      BY <1>8, Zenon DEF ProcessNewBlock, NewCandidates
    <3> QED BY <2>2, <3>1, Zenon DEF L, TypeInv
  <2>4. \A c \in known' \ {Genesis} : Parent[c] \in known'
    BY <1>8, Zenon DEF ProcessNewBlock, TypeInv
  <2> QED BY <1>8, <2>1, <2>2, <2>3, <2>4, Zenon DEF TypeInv, ProcessNewBlock, anchors, locals
<1>9. ASSUME NEW a \in Anchors, SetTop(a)
      PROVE  TypeInv'
  BY <1>9, <1>a DEF TypeInv, SetTop, tree, locals
<1>10. ASSUME NEW a \in Anchors \cup {None}, DeleteAnchor(a)
       PROVE  TypeInv'
  BY <1>10, <1>a DEF TypeInv, DeleteAnchor, tree, locals
<1>11. CASE KnownBlock
  BY <1>11, <1>a, Zenon DEF TypeInv, KnownBlock, tree, anchors, locals
<1>12. CASE UNCHANGED vars
  BY <1>12, <1>a, Zenon DEF TypeInv, vars, tree, anchors, locals
<1> QED
  BY <1>1, <1>2, <1>3, <1>4, <1>5, <1>6, <1>7, <1>8, <1>9, <1>10, <1>11, <1>12, Zenon DEF Next, Thread

\* Only ProcessNewBlock changes the blocks there are, and it only adds to them.
LEMMA TreeStep ==
    ASSUME TypeInv, [Next]_vars
    PROVE  \/ L' = L /\ data' = data /\ before' = before
           \/ \E b \in Blocks \ {Genesis} : ProcessNewBlock(b)
<1>1. (\E b \in Blocks \ {Genesis} : ProcessNewBlock(b)) \/ UNCHANGED <<data, before>>
  BY Zenon DEF Next, vars, tree, Thread, ActivateBestChain, Lock, FindMostWorkChain, Remembered, NothingToDo,
         ActivateBestChainStep, ReceiveHeader, SetTop, DeleteAnchor, KnownBlock
<1> QED
  BY <1>1, Zenon DEF L

\* The numbers that ReceivedBlockTransactions gives to new blocks keep the order total.
LEMMA OrderStep ==
    ASSUME TypeInv, OrderInv, [Next]_vars
    PROVE  OrderInv'
<1>1. CASE L' = L /\ before' = before
  BY <1>1 DEF OrderInv, Ordered
<1>2. ASSUME NEW b \in Blocks \ {Genesis}, ProcessNewBlock(b)
      PROVE  OrderInv'
  <2> DEFINE new == L' \ L
  <2>1. L \subseteq L'
    BY <1>2, Zenon DEF ProcessNewBlock, L, Linked
  <2>2. data' = data \cup {b} /\ L' = Linked(data \cup {b})
    BY <1>2, Zenon DEF ProcessNewBlock, L
  <2>3. IsFiniteSet(new)
    <3>1. TypeInv'
      BY TypeStep, Zenon
    <3>2. L' \in SUBSET known' /\ IsFiniteSet(known')
      BY <3>1, Zenon DEF TypeInv, L, Linked
    <3>3. new \in SUBSET known'
      BY <3>2
    <3> QED BY <3>2, <3>3, FS_Subset, Zenon
  <2>4. PICK n \in [new -> 1 .. Cardinality(new)] :
          /\ \A c, d \in new : c # d /\ Height[c] = Height[d] => n[c] # n[d]
          /\ before' = before \cup {p \in L' \X new :
                                       /\ Height[p[1]] = Height[p[2]] /\ p[1] # p[2]
                                       /\ p[1] \in new => n[p[1]] < n[p[2]]}
    <3>1. Linked(data') = L' /\ Linked(data) = L
      BY Zenon DEF L
    <3>2. Linked(data \cup {b}) \ Linked(data) = new
      BY <2>2, <3>1, Zenon
    <3> DEFINE Numbered(N, K) ==
                 \E n \in [N -> 1 .. Cardinality(N)] :
                    /\ \A c, d \in N : c # d /\ Height[c] = Height[d] => n[c] # n[d]
                    /\ before' = before \cup {p \in K \X N :
                                                 /\ Height[p[1]] = Height[p[2]] /\ p[1] # p[2]
                                                 /\ p[1] \in N => n[p[1]] < n[p[2]]}
    <3>3. Numbered(Linked(data \cup {b}) \ Linked(data), Linked(data'))
      BY <1>2, Zenon DEF ProcessNewBlock
    <3>4. Numbered(new, L')
      <4> HIDE DEF Numbered, new
      <4> QED BY <3>1, <3>2, <3>3, Zenon
    <3> QED BY <3>4, Zenon
  <2>5. \A c \in new : n[c] \in Nat
    <3>1. Cardinality(new) \in Nat
      BY <2>3, FS_CardinalityType, Zenon
    <3> HIDE DEF new
    <3> QED BY <2>4, <3>1
  <2>6. \A c, d : <<c, d>> \in before' <=>
          \/ <<c, d>> \in before
          \/ /\ c \in L' /\ d \in new /\ Height[c] = Height[d] /\ c # d
             /\ c \in new => n[c] < n[d]
    BY <2>4, Zenon
  <2>7. \A c, d : <<c, d>> \in before => c \in L /\ d \in L /\ c # d /\ Height[c] = Height[d]
    BY Zenon DEF OrderInv, Ordered
  <2>8. \A p \in before' : p \in L' \X L' /\ p[1] # p[2] /\ Height[p[1]] = Height[p[2]]
    <3> SUFFICES ASSUME NEW p \in before' PROVE p \in L' \X L' /\ p[1] # p[2] /\ Height[p[1]] = Height[p[2]]
      BY Zenon
    <3>1. CASE p \in before
      <4>1. p \in L \X L /\ p[1] # p[2] /\ Height[p[1]] = Height[p[2]]
        BY <3>1, Zenon DEF OrderInv, Ordered
      <4> QED BY <2>1, <4>1, Zenon
    <3>2. CASE p \in L' \X new /\ Height[p[1]] = Height[p[2]] /\ p[1] # p[2]
      BY <3>2, Zenon
    <3> QED BY <2>4, <3>1, <3>2, Zenon
  <2> HIDE DEF new
  <2>9. \A c \in L' : c \in new <=> c \notin L
    BY Zenon DEF new
  <2>10. \A c, d \in L' : c # d /\ Height[c] = Height[d] => <<c, d>> \in before' \/ <<d, c>> \in before'
    <3> SUFFICES ASSUME NEW c \in L', NEW d \in L', c # d, Height[c] = Height[d]
                 PROVE  <<c, d>> \in before' \/ <<d, c>> \in before'
      BY Zenon
    <3>1. CASE c \in L /\ d \in L
      BY <2>6, <3>1, Zenon DEF OrderInv, Ordered
    <3>2. CASE c \in L /\ d \in new
      BY <2>6, <2>9, <3>2, Zenon
    <3>3. CASE c \in new /\ d \in L
      BY <2>6, <2>9, <3>3, Zenon
    <3>4. CASE c \in new /\ d \in new
      <4>1. n[c] < n[d] \/ n[d] < n[c]
        BY <2>4, <2>5, <3>4
      <4> QED BY <2>6, <3>4, <4>1, Zenon
    <3> QED BY <2>9, <3>1, <3>2, <3>3, <3>4, Zenon
  <2>11. \A c, d \in L' : <<c, d>> \in before' => <<d, c>> \notin before'
    <3> SUFFICES ASSUME NEW c \in L', NEW d \in L', <<c, d>> \in before', <<d, c>> \in before'
                 PROVE  FALSE
      BY Zenon
    <3>1. CASE <<c, d>> \in before \/ <<d, c>> \in before
      BY <2>6, <2>7, <2>9, <3>1, Zenon DEF OrderInv, Ordered
    <3>2. CASE ~(<<c, d>> \in before \/ <<d, c>> \in before)
      BY <2>5, <2>6, <3>2
    <3> QED BY <3>1, <3>2, Zenon
  <2>12. \A c, d, e \in L' : <<c, d>> \in before' /\ <<d, e>> \in before' => <<c, e>> \in before'
    <3> SUFFICES ASSUME NEW c \in L', NEW d \in L', NEW e \in L', <<c, d>> \in before', <<d, e>> \in before'
                 PROVE  <<c, e>> \in before'
      BY Zenon
    <3>1. CASE e \in L
      <4>1. <<d, e>> \in before /\ d \in L
        BY <2>6, <2>7, <2>9, <3>1, Zenon
      <4>2. <<c, d>> \in before /\ c \in L
        BY <2>6, <2>7, <2>9, <4>1, Zenon
      <4> QED BY <2>6, <3>1, <4>1, <4>2, Zenon DEF OrderInv, Ordered
    <3>2. CASE e \in new /\ c \in L
      <4>1. Height[c] = Height[d] /\ Height[d] = Height[e]
        BY <2>6, <2>7, Zenon
      <4> QED BY <2>6, <2>9, <3>2, <4>1, Zenon
    <3>3. CASE e \in new /\ c \in new
      <4>1. d \in new /\ Height[c] = Height[d] /\ n[c] < n[d]
        BY <2>6, <2>7, <2>9, <3>3
      <4>2. Height[d] = Height[e] /\ n[d] < n[e]
        BY <2>6, <2>7, <2>9, <3>3, <4>1
      <4>3. n[c] < n[e]
        BY <2>5, <3>3, <4>1, <4>2
      <4> QED BY <2>5, <2>6, <3>3, <4>1, <4>2, <4>3
    <3> QED BY <2>9, <3>1, <3>2, <3>3, Zenon
  <2> QED BY <2>8, <2>10, <2>11, <2>12, Zenon DEF OrderInv, Ordered
<1> QED
  BY <1>1, <1>2, TreeStep, Zenon

-----------------------------------------------------------------------------
(* The candidates.                                                         *)

Valid(b) == Chain[b] \cap Bad = {}

\* Only invalid blocks fail, and no block of the active chain is invalid.
FailedInv == Valid(tip) /\ \A f \in failed : ~Valid(f)

\* The best of the valid blocks is a candidate, as the assertion in PruneBlockIndexCandidates needs.
KeptInv == \E c \in candidates : Valid(c) /\ \A b \in L : Valid(b) => b = c \/ Worse(b, c)

\* No candidate is lower than the tip, and the block that the thread works towards is one.
TargetInv ==
    /\ \A c \in candidates : Height[tip] <= Height[c]
    /\ pindexMostWork # None => pindexMostWork \in candidates

\* A block is marked failed only with a bad block in its chain, and none such is connected.
LEMMA FailedStep ==
    ASSUME TypeInv, FailedInv, [Next]_vars
    PROVE  FailedInv'
<1> USE DEF Valid
<1>0. \A b \in L : b \in Blocks /\ Chain[b] \subseteq L
  BY LinkedFacts
<1>1. CASE ActivateBestChain
  <2>1. failed' = failed /\ tip' \in Chain[tip]
    BY <1>1, <1>0, RollBack, ChainEnds, Zenon DEF TypeInv
  <2>2. Chain[tip'] \subseteq Chain[tip]
    BY <1>0, <2>1, ChainPrefix, Zenon DEF TypeInv
  <2> QED BY <2>1, <2>2, Zenon DEF FailedInv
<1>2. CASE FindMostWorkChain
  <2>1. CASE failed' = failed
    BY <1>2, <2>1, Found, Zenon DEF FailedInv
  <2>2. ASSUME NEW new \in L, NEW f \in failed, f \in Chain[new], f \in Blocks \ {Genesis},
               failed' = failed \cup (Chain[new] \ Chain[Parent[f]])
        PROVE  FailedInv'
    <3>1. ASSUME NEW c \in Chain[new] \ Chain[Parent[f]]
          PROVE  ~Valid(c)
      <4>1. new \in Blocks /\ c \in Blocks /\ Height[f] \in Nat /\ Height[c] \in Nat
        BY <1>0, <2>2, ChainBelow, Zenon
      <4>2. CASE Height[f] <= Height[c]
        <5>1. f \in Chain[c]
          BY <2>2, <4>1, <4>2, ChainOrder, Zenon
        <5>2. Chain[f] \subseteq Chain[c]
          BY <4>1, <5>1, ChainPrefix, Zenon
        <5> QED BY <5>2, Zenon DEF FailedInv
      <4>3. CASE Height[c] < Height[f]
        <5>1. c \in Chain[f]
          BY <2>2, <4>1, <4>3, ChainOrder
        <5>2. c # f /\ Chain[f] = {f} \cup Chain[Parent[f]]
          BY <2>2, <4>1, <4>3, ChainOf
        <5> QED BY <5>1, <5>2, Zenon
      <4> QED BY <4>1, <4>2, <4>3
    <3>2. tip' = tip
      BY <1>2, Found, Zenon
    <3> QED BY <2>2, <3>1, <3>2, Zenon DEF FailedInv
  <2> QED BY <1>2, <2>1, <2>2, Found, Zenon
<1>3. CASE ActivateBestChainStep
  <2>1. PICK last \in Chain[pindexMostWork] : StepTo(last)
    BY <1>3, Stepped, Zenon
  <2>2. last \in Blocks \ {Genesis} /\ last \in Chain[last] /\ Chain[last] = {last} \cup Chain[Parent[last]]
    BY <1>0, <2>1, ChainEnds, ChainOf, Zenon DEF StepTo
  <2>3. \A b \in Chain[last] : b = last \/ b \notin Bad
    BY <2>1, Zenon DEF StepTo, FailedInv
  <2>4. CASE last \notin Bad /\ tip' = last /\ failed' = failed
    BY <2>3, <2>4, Zenon DEF FailedInv
  <2>5. CASE last \in Bad /\ tip' = Parent[last] /\ failed' = failed \cup {last}
    <3>1. last \notin Chain[Parent[last]]
      <4>1. Parent[last] \in Blocks /\ Height[last] = Height[Parent[last]] + 1 /\ Height[Parent[last]] \in Nat
        BY <2>2, TreeAssumption, Zenon
      <4>2. last \in Chain[Parent[last]] => Height[last] <= Height[Parent[last]]
        BY <4>1, ChainBelow, Zenon
      <4> QED BY <4>1, <4>2
    <3> QED BY <2>2, <2>3, <2>5, <3>1, Zenon DEF FailedInv
  <2> QED BY <2>1, <2>4, <2>5, Zenon DEF StepTo
<1>4. CASE UNCHANGED <<tip, failed>>
  BY <1>4, Zenon DEF FailedInv
<1> QED
  BY <1>1, <1>2, <1>3, <1>4, Zenon DEF Next, Thread, vars, Lock, Remembered, NothingToDo, ReceiveHeader,
     ProcessNewBlock, SetTop, DeleteAnchor, KnownBlock

\* PruneBlockIndexCandidates never drops the best of the valid blocks.
LEMMA KeptStep ==
    ASSUME TypeInv, OrderInv, FailedInv, KeptInv, [Next]_vars
    PROVE  KeptInv'
<1>1. PICK c \in candidates : Valid(c) /\ \A b \in L : Valid(b) => b = c \/ Worse(b, c)
  BY DEF KeptInv
<1>2. c \in L /\ tip \in L
  BY Zenon DEF TypeInv
<1>3. ASSUME UNCHANGED <<data, before>>, c \in candidates'
      PROVE  KeptInv'
  <2>1. L' = L /\ \A x, y : Worse(x, y)' <=> Worse(x, y)
    BY <1>3, Zenon DEF L, Worse
  <2> QED BY <1>1, <1>3, <2>1, Zenon DEF KeptInv, Valid
<1>4. \A t \in L : Valid(t) => ~Worse(c, t)
  BY <1>1, <1>2, WorseFacts, Zenon
<1>5. CASE ActivateBestChain
  <2>1. c \in candidates'
    BY <1>5, RollBack, Zenon DEF RefillCandidates
  <2> QED BY <1>3, <1>5, <2>1, RollBack, Zenon
<1>6. CASE FindMostWorkChain
  <2>1. ASSUME NEW new \in L, NEW f \in failed, f \in Chain[new], f \in Blocks \ {Genesis},
               candidates' = candidates \ (Chain[new] \ Chain[Parent[f]]),
               failed' = failed \cup (Chain[new] \ Chain[Parent[f]])
        PROVE  c \in candidates'
    <3>1. FailedInv'
      BY FailedStep, Zenon
    <3>2. c \notin failed'
      BY <1>1, <3>1, Zenon DEF FailedInv, Valid
    <3> QED BY <2>1, <3>2, Zenon
  <2>2. c \in candidates'
    BY <1>6, <2>1, Found, Zenon
  <2> QED BY <1>3, <1>6, <2>2, Found, Zenon
<1>7. CASE ActivateBestChainStep
  <2>1. PICK last \in Chain[pindexMostWork] : StepTo(last)
    BY <1>7, Stepped, Zenon
  <2>2. FailedInv' /\ tip' \in L
    BY <2>1, FailedStep, Zenon DEF StepTo
  <2>3. Valid(tip')
    BY <2>2, Zenon DEF FailedInv, Valid
  <2>4. ~Worse(c, tip')
    BY <1>4, <2>2, <2>3, Zenon
  <2>5. last \in Bad => c # last
    BY <1>1, <1>2, LinkedFacts, ChainEnds, Zenon DEF Valid
  <2>6. c \in candidates'
    BY <2>1, <2>4, <2>5, Zenon DEF StepTo, PruneBlockIndexCandidates
  <2> QED BY <1>3, <1>7, <2>6, Stepped, Zenon
<1>8. ASSUME NEW b \in Blocks \ {Genesis}, ProcessNewBlock(b)
      PROVE  KeptInv'
  <2> DEFINE new == L' \ L
             V   == {x \in L' : Valid(x)}
  <2>1. L \subseteq L' /\ TypeInv' /\ OrderInv' /\ before \subseteq before' /\ tip' = tip
    <3>1. L \subseteq L'
      BY <1>8, Zenon DEF ProcessNewBlock, L, Linked
    <3> QED BY <1>8, <3>1, TypeStep, OrderStep, Zenon DEF ProcessNewBlock
  <2>2. candidates' = candidates \cup {x \in new : Height[x] > Height[tip]}
    BY <1>8, Zenon DEF ProcessNewBlock, NewCandidates, L
  <2>3. V \in SUBSET L' /\ c \in V
    BY <1>1, <1>2, <2>1, Zenon
  <2>4. L' \in SUBSET Blocks /\ Ordered(L', before') /\ IsFiniteSet(V)
    <3>1. L' \in SUBSET known' /\ IsFiniteSet(known') /\ known' \in SUBSET Blocks
      BY <2>1, Zenon DEF TypeInv, L, Linked
    <3>2. V \in SUBSET known'
      BY <3>1
    <3> QED BY <2>1, <3>1, <3>2, FS_Subset, Zenon DEF OrderInv
  <2>5. PICK d \in V : \A x \in V : x = d \/ WorseIn(before', x, d)
    <3> HIDE DEF V
    <3> QED BY <2>3, <2>4, BestOf, Zenon
  <2>6. \A x \in L : \A y : <<y, x>> \in before' => <<y, x>> \in before
    BY <1>8, Zenon DEF ProcessNewBlock, L
  <2>7. CASE d \in L
    <3>1. d = c \/ WorseIn(before', d, c)
      BY <1>1, <2>1, <2>5, <2>7, Zenon DEF Worse, WorseIn
    <3>2. d = c \/ WorseIn(before', c, d)
      BY <2>3, <2>5, Zenon
    <3>3. d = c
      BY <2>3, <2>4, <2>5, <3>1, <3>2, OrderFacts, Zenon
    <3> QED BY <2>2, <2>5, <3>3, Zenon DEF KeptInv, Worse, WorseIn
  <2>8. CASE d \notin L
    <3>1. Height[c] < Height[d]
      <4>1. c # d /\ WorseIn(before', c, d)
        BY <1>2, <2>3, <2>5, <2>8, Zenon
      <4>2. <<d, c>> \notin before
        BY <2>8 DEF OrderInv, Ordered
      <4> QED BY <1>2, <2>6, <4>1, <4>2, Zenon DEF WorseIn
    <3>2. tip = c \/ Worse(tip, c)
      BY <1>1, <1>2, Zenon DEF FailedInv
    <3>3. Height[tip] <= Height[c]
      BY <1>2, <3>2, WorseFacts, LinkedFacts
    <3>4. Height[tip] \in Nat /\ Height[c] \in Nat /\ Height[d] \in Nat
      BY <1>2, <2>3, <2>4, <2>5, LinkedFacts, TreeAssumption
    <3>5. Height[d] > Height[tip]
      BY <3>1, <3>3, <3>4
    <3> QED BY <2>2, <2>5, <2>8, <3>5, Zenon DEF KeptInv, Worse, WorseIn
  <2> QED BY <2>7, <2>8, Zenon
<1>9. CASE UNCHANGED <<data, before, candidates>>
  BY <1>3, <1>9, Zenon
<1> QED
  BY <1>5, <1>6, <1>7, <1>8, <1>9, Zenon DEF Next, Thread, vars, tree, Lock, Remembered, NothingToDo, ReceiveHeader,
     SetTop, DeleteAnchor, KnownBlock

\* The block that the thread works towards stays a candidate between two steps.
LEMMA TargetStep ==
    ASSUME TypeInv, OrderInv, TargetInv, [Next]_vars
    PROVE  TargetInv'
<1>0. /\ \A b \in L : b \in Blocks /\ b # None /\ Height[b] \in Nat /\ Chain[b] \subseteq L
      /\ candidates \subseteq L /\ tip \in L
  BY LinkedFacts, Zenon DEF TypeInv
<1>1. CASE ActivateBestChain
  <2>1. CASE UNCHANGED <<tip, candidates>>
    BY <1>1, <2>1, RollBack, Zenon DEF TargetInv
  <2>2. ASSUME NEW t \in Chain[tip] \cap L, tip' = t, candidates' = RefillCandidates(t)
        PROVE  TargetInv'
    <3>1. Height[t] <= Height[tip]
      BY <1>0, ChainBelow, Zenon
    <3>2. \A c \in candidates : Height[t] <= Height[c]
      BY <1>0, <3>1 DEF TargetInv
    <3>3. \A c \in RefillCandidates(t) : Height[t] <= Height[c]
      BY <1>0, <3>2 DEF RefillCandidates, L
    <3> QED BY <1>1, <2>2, <3>3, RollBack, Zenon DEF TargetInv
  <2> QED BY <1>1, <2>1, <2>2, RollBack, Zenon
<1>2. CASE FindMostWorkChain
  BY <1>2, <1>0, Found, Zenon DEF TargetInv
<1>3. CASE ActivateBestChainStep
  <2>1. PICK last \in Chain[pindexMostWork] : StepTo(last)
    BY <1>3, Stepped, Zenon
  <2>2. pindexMostWork \in L /\ pindexMostWork \in candidates /\ last \in L /\ Parent[last] \in L
    BY <1>0, <1>3, <2>1, Stepped DEF TargetInv, StepTo
  <2>3. \A t \in L, C \in SUBSET L : \A c \in PruneBlockIndexCandidates(C, t) : Height[t] <= Height[c]
    BY <1>0 DEF PruneBlockIndexCandidates, Worse
  <2>4. CASE tip' = last /\ candidates' = PruneBlockIndexCandidates(candidates, last) /\ pindexMostWork' = pindexMostWork
    <3>1. ~Worse(pindexMostWork, last)
      <4>1. last = pindexMostWork \/ Height[last] < Height[pindexMostWork]
        BY <1>0, <2>2, ChainBelow, Zenon
      <4> QED BY <2>2, <4>1, WorseFacts, Zenon
    <3> QED BY <1>0, <2>2, <2>3, <2>4, <3>1, Zenon DEF TargetInv, PruneBlockIndexCandidates
  <2>5. CASE tip' = Parent[last] /\ pindexMostWork' = None /\ candidates' \in SUBSET L
             /\ candidates' = PruneBlockIndexCandidates(candidates \ {last}, Parent[last])
    BY <1>0, <2>2, <2>3, <2>5 DEF TargetInv
  <2>6. CASE tip' = Parent[last] /\ pindexMostWork' = None /\ Parent[last] \in Chain[tip]
             /\ candidates' = candidates \ {last}
    <3>1. Height[Parent[last]] <= Height[tip]
      BY <1>0, <2>6, ChainBelow
    <3> QED BY <1>0, <2>2, <2>6, <3>1 DEF TargetInv
  <2> QED BY <1>0, <2>1, <2>4, <2>5, <2>6 DEF StepTo, PruneBlockIndexCandidates
<1>4. ASSUME NEW b \in Blocks \ {Genesis}, ProcessNewBlock(b)
      PROVE  TargetInv'
  <2>1. candidates' = candidates \cup {c \in Linked(data \cup {b}) \ Linked(data) : Height[c] > Height[tip]}
    BY <1>4, Zenon DEF ProcessNewBlock, NewCandidates
  <2>2. \A c \in Linked(data \cup {b}) : Height[c] \in Nat
    BY TreeAssumption DEF Linked, TypeInv
  <2>3. UNCHANGED <<tip, pindexMostWork>>
    BY <1>4, Zenon DEF ProcessNewBlock, locals
  <2>4. \A c \in candidates' : Height[tip] <= Height[c]
    <3> SUFFICES ASSUME NEW c \in candidates' PROVE Height[tip] <= Height[c]
      BY Zenon
    <3>1. CASE c \in candidates
      BY <3>1, Zenon DEF TargetInv
    <3>2. CASE c \in Linked(data \cup {b}) /\ Height[c] > Height[tip]
      <4>1. Height[c] \in Nat /\ Height[tip] \in Nat
        BY <1>0, <2>2, <3>2, Zenon
      <4> QED BY <3>2, <4>1
    <3> QED BY <2>1, <3>1, <3>2, Zenon
  <2> QED BY <2>1, <2>3, <2>4, Zenon DEF TargetInv
<1>5. CASE UNCHANGED <<tip, candidates, pindexMostWork>>
  BY <1>5, Zenon DEF TargetInv
<1> QED
  BY <1>1, <1>2, <1>3, <1>4, <1>5, Zenon DEF Next, Thread, vars, locals, Lock, Remembered, NothingToDo, ReceiveHeader,
     SetTop, DeleteAnchor, KnownBlock

-----------------------------------------------------------------------------
(* The anchors.                                                            *)

\* Unless ActivateBestChain is about to be called, the tip and the block that
\* the thread works towards satisfy the active anchors.
SatisfiedInv ==
    ~wanted => /\ Satisfies(top, tip)
               /\ pindexMostWork # None => Satisfies(top, pindexMostWork)

\* RollBackIfTipConflictsWithAnchors leaves a chain that satisfies the anchors.
LEMMA RollBackSatisfies ==
    ASSUME OneChain, NEW t \in Tops, NEW b \in Blocks, NEW c \in Chain[b],
           \A a \in Reached(t, c) : \E o \in Reached(t, b) :
              AnchorHeight(o) >= AnchorHeight(a) /\ AnchorBlock[o] \in Chain[b]
    PROVE  Satisfies(t, c)
<1> SUFFICES ASSUME NEW a \in Reached(t, c)
             PROVE  AnchorBlock[a] \in Chain[c]
  BY Zenon DEF Satisfies
<1>1. PICK o \in Reached(t, b) : AnchorHeight(o) >= AnchorHeight(a) /\ AnchorBlock[o] \in Chain[b]
  OBVIOUS
<1>2. c \in Blocks
  BY ChainBelow, Zenon
<1>3. /\ AnchorBlock[a] \in Blocks /\ AnchorBlock[o] \in Blocks /\ a \in Below[t] /\ o \in Below[t] /\ t \in Anchors
      /\ AnchorHeight(a) \in Nat /\ AnchorHeight(o) \in Nat /\ AnchorHeight(a) <= Height[c]
      /\ AnchorBlock[t] \in Blocks
  BY <1>2, ReachedFacts, AnchorAssumption, Zenon
<1>4. AnchorBlock[a] \in Chain[AnchorBlock[t]] /\ AnchorBlock[o] \in Chain[AnchorBlock[t]]
  BY <1>3, BelowFacts, Zenon
<1>5. AnchorBlock[a] \in Chain[AnchorBlock[o]]
  <2>1. Height[AnchorBlock[a]] <= Height[AnchorBlock[o]]
    BY <1>1, <1>3, Zenon DEF AnchorHeight
  <2> QED BY <1>3, <1>4, <2>1, ChainOrder, Zenon
<1>6. AnchorBlock[a] \in Chain[b]
  BY <1>1, <1>5, ChainPrefix, Zenon
<1> QED
  BY <1>3, <1>6, ChainOrder, Zenon DEF AnchorHeight

\* Tip and remembered block satisfy the anchors, or a new call of ActivateBestChain is due.
LEMMA SatisfiedStep ==
    ASSUME OneChain, TypeInv, SatisfiedInv, [Next]_vars
    PROVE  SatisfiedInv'
<1>0. /\ \A b \in L : b \in Blocks /\ b # None /\ Height[b] \in Nat /\ Chain[b] \subseteq L
      /\ candidates \subseteq L /\ tip \in L /\ top \in Tops /\ pindexMostWork \in L \cup {None}
  BY LinkedFacts, Zenon DEF TypeInv
<1>1. CASE ActivateBestChain
  <2>1. \A a \in Reached(top, tip) : a \in Conflicting \/
          \E o \in Reached(top, tip) : AnchorHeight(o) >= AnchorHeight(a) /\ AnchorBlock[o] \in Chain[tip]
    BY DEF Conflicting
  <2>2. Satisfies(top, tip')
    <3>1. CASE Conflicting = {} /\ tip' = tip
      <4>1. tip \in Chain[tip]
        BY <1>0, ChainEnds, Zenon
      <4> QED BY <1>0, <2>1, <3>1, <4>1, RollBackSatisfies, Zenon
    <3>2. ASSUME NEW t \in Chain[tip] \cap L, NEW m \in Nat \ {0}, Height[t] = m - 1,
                 \A a \in Conflicting : m <= AnchorHeight(a)
          PROVE  Satisfies(top, t)
      <4>1. ASSUME NEW a \in Reached(top, t)
            PROVE  a \in Reached(top, tip) /\ a \notin Conflicting
        <5>1. AnchorHeight(a) \in Nat /\ AnchorHeight(a) <= Height[t] /\ Height[t] <= Height[tip] /\ Height[tip] \in Nat
          BY <1>0, ReachedFacts, ChainBelow, Zenon
        <5>2. AnchorHeight(a) <= Height[tip] /\ ~(m <= AnchorHeight(a))
          BY <1>0, <3>2, <5>1
        <5> QED BY <3>2, <5>2, Zenon DEF Reached
      <4> QED BY <1>0, <2>1, <4>1, RollBackSatisfies, Zenon
    <3> QED BY <1>1, <3>1, <3>2, RollBack, Zenon
  <2> QED BY <1>1, <2>2, RollBack, Zenon DEF SatisfiedInv
<1>2. CASE FindMostWorkChain
  <2>1. ASSUME NEW new \in Best(FilterAnchorSatisfying(top, candidates))
        PROVE  Satisfies(top, new)
    <3>1. CASE top = None
      BY <3>1, Zenon DEF Satisfies, Reached, ActiveAnchors
    <3>2. CASE top # None
      <4>1. PICK h \in HeadOf(new, candidates) : GoodChain(top, h)
        BY <3>2, Zenon DEF Best, FilterAnchorSatisfying
      <4>2. h \in L /\ new \in Chain[h]
        BY <1>0, <4>1, Zenon DEF HeadOf, Best, Heads, Run
      <4> QED BY <1>0, <4>1, <4>2, GoodChainSatisfies, SatisfiesBelow
    <3> QED BY <3>1, <3>2, Zenon
  <2> QED BY <1>2, <2>1, Found DEF SatisfiedInv
<1>3. CASE ActivateBestChainStep
  <2>1. PICK last \in Chain[pindexMostWork] : StepTo(last)
    BY <1>3, Stepped, Zenon
  <2>2. tip' \in Chain[pindexMostWork] /\ pindexMostWork' \in {None, pindexMostWork}
        /\ pindexMostWork \in Blocks /\ pindexMostWork # None
    BY <1>0, <1>3, <2>1, Stepped, Zenon DEF StepTo
  <2>3. ~wanted => Satisfies(top, tip')
    BY <1>0, <2>2, SatisfiesBelow, Zenon DEF SatisfiedInv
  <2> QED BY <1>3, <2>2, <2>3, Stepped, Zenon DEF SatisfiedInv
<1>4. ASSUME NEW a \in Anchors \cup {None}, DeleteAnchor(a)
      PROVE  SatisfiedInv'
  <2>1. a \in ActiveAnchors(top) \cup {None} /\ top' = a /\ UNCHANGED <<tip, wanted, pindexMostWork>>
    BY <1>4, Zenon DEF DeleteAnchor, locals
  <2> QED BY <1>0, <2>1, SatisfiesLess, Zenon DEF SatisfiedInv
<1>5. CASE wanted'
  BY <1>5, Zenon DEF SatisfiedInv
<1>6. CASE UNCHANGED <<tip, top, wanted, pindexMostWork>>
  BY <1>6, Zenon DEF SatisfiedInv
<1> QED
  BY <1>1, <1>2, <1>3, <1>4, <1>5, <1>6, Zenon DEF Next, Thread, vars, anchors, locals, Lock, Remembered, NothingToDo,
     ReceiveHeader, ProcessNewBlock, SetTop, KnownBlock

-----------------------------------------------------------------------------
(* What ActivateBestChain leaves behind.                                   *)

Filter == FilterAnchorSatisfying(top, candidates)

\* Between the calls the tip is the best of the filtered candidates, and during
\* one the block that the thread works towards is.
ChosenInv ==
    ~wanted /\ ~lowered =>
        /\ pc = "step" /\ pindexMostWork = None => Filter = {}
        /\ pindexMostWork # None =>
              \A b \in Filter : Chain[b] \cap failed # {} \/ b = pindexMostWork \/ Worse(b, pindexMostWork)
        /\ pc = "idle" => \A b \in Filter : Chain[b] \cap failed # {} \/ ~Worse(tip, b)

\* PruneBlockIndexCandidates takes the worse candidates only, so those it leaves
\* keep the candidates above them and fall with the same heads.
LEMMA PruneFilter ==
    ASSUME TypeInv, OrderInv, NEW C \in SUBSET L, NEW t \in L
    PROVE  FilterAnchorSatisfying(top, PruneBlockIndexCandidates(C, t)) \subseteq FilterAnchorSatisfying(top, C)
<1> DEFINE D == PruneBlockIndexCandidates(C, t)
<1>0. \A b \in L : b \in Blocks /\ Height[b] \in Nat /\ Chain[b] \subseteq L
  BY LinkedFacts, Zenon
<1>1. D \subseteq C
  BY Zenon DEF PruneBlockIndexCandidates
<1>2. ASSUME NEW b \in D, NEW c \in C, b = c \/ Height[b] < Height[c]
      PROVE  c \in D
  <2>1. CASE b = c
    BY <2>1, Zenon
  <2>2. CASE Height[b] < Height[c]
    <3>1. Height[t] <= Height[b]
      BY <1>0 DEF PruneBlockIndexCandidates, Worse
    <3>2. Height[t] < Height[c]
      BY <1>0, <1>1, <2>2, <3>1
    <3>3. ~Worse(c, t)
      BY <3>2, WorseFacts, Zenon
    <3> QED BY <3>3, Zenon DEF PruneBlockIndexCandidates
  <2> QED BY <1>2, <2>1, <2>2, Zenon
<1> HIDE DEF D
<1>3. ASSUME NEW b \in D, NEW h \in C, b \in Chain[h]
      PROVE  h \in D
  <2>1. b = h \/ Height[b] < Height[h]
    BY <1>0, <1>3, ChainBelow, Zenon
  <2> QED BY <1>2, <2>1, Zenon
<1>4. ASSUME NEW b \in D, NEW h \in C, b \in Chain[h]
      PROVE  /\ h \in Heads(D) <=> h \in Heads(C)
             /\ b \in Run(h, D) <=> b \in Run(h, C)
  <2>1. h \in D
    BY <1>3, <1>4, Zenon
  <2>2. ASSUME NEW c \in C \ {Genesis}, Parent[c] = h
        PROVE  c \in D
    <3>1. Height[c] = Height[h] + 1 /\ Height[h] \in Nat
      BY <1>0, <2>2, TreeAssumption, Zenon
    <3>2. Height[h] < Height[c]
      BY <3>1
    <3> QED BY <1>2, <2>1, <3>2, Zenon
  <2>3. h \in Heads(D) <=> h \in Heads(C)
    BY <1>1, <2>1, <2>2, Zenon DEF Heads
  <2>4. \A d \in Chain[h] : Height[d] > Height[b] => (d \in C <=> d \in D)
    <3> SUFFICES ASSUME NEW d \in Chain[h], Height[d] > Height[b], d \in C PROVE d \in D
      BY <1>1, Zenon
    <3>1. Height[b] < Height[d]
      BY <1>0, <1>1, Zenon
    <3> QED BY <1>2, <3>1, Zenon
  <2>5. b \in Run(h, D) <=> b \in Run(h, C)
    BY <1>1, <1>4, <2>4, Zenon DEF Run
  <2> QED BY <2>3, <2>5, Zenon
<1>5. ASSUME NEW b \in D
      PROVE  HeadOf(b, D) = HeadOf(b, C)
  <2>1. {h \in Heads(D) : b \in Run(h, D)} \subseteq {h \in Heads(C) : b \in Run(h, C)}
    <3>1. ASSUME NEW h \in Heads(D), b \in Run(h, D) PROVE h \in C /\ b \in Chain[h]
      BY <1>1, <3>1, Zenon DEF Heads, Run
    <3> QED BY <1>4, <3>1, Zenon
  <2>2. {h \in Heads(C) : b \in Run(h, C)} \subseteq {h \in Heads(D) : b \in Run(h, D)}
    <3>1. ASSUME NEW h \in Heads(C), b \in Run(h, C) PROVE h \in C /\ b \in Chain[h]
      BY <3>1, Zenon DEF Heads, Run
    <3> QED BY <1>4, <3>1, Zenon
  <2>3. {h \in Heads(D) : b \in Run(h, D)} = {h \in Heads(C) : b \in Run(h, C)}
    BY <2>1, <2>2, Zenon
  <2> QED BY <2>3, Zenon DEF HeadOf
<1>6. FilterAnchorSatisfying(top, D) \subseteq FilterAnchorSatisfying(top, C)
  BY <1>1, <1>5, Zenon DEF FilterAnchorSatisfying
<1> QED
  BY <1>6, Zenon DEF D

\* No candidate that passes the filter is better than the block worked towards, or a call is due.
LEMMA ChosenStep ==
    ASSUME TypeInv, OrderInv, ChosenInv, [Next]_vars
    PROVE  ChosenInv'
<1>0. /\ \A b \in L : b \in Blocks /\ b # None
      /\ candidates \in SUBSET L /\ tip \in L /\ pindexMostWork \in L \cup {None}
  BY LinkedFacts, Zenon DEF TypeInv
<1>1. Filter \subseteq candidates
  BY Zenon DEF Filter, FilterAnchorSatisfying
<1>2. ASSUME UNCHANGED <<top, before, candidates>>
      PROVE  Filter' = Filter
  BY <1>2, Zenon DEF Filter, FilterAnchorSatisfying, HeadOf, Best, Worse
<1>3. ASSUME before' = before
      PROVE  \A x, y : Worse(x, y)' <=> Worse(x, y)
  BY <1>3, Zenon DEF Worse
<1>4. CASE wanted' \/ lowered'
  BY <1>4, Zenon DEF ChosenInv
<1>5. CASE ActivateBestChain
  BY <1>5, RollBack, Zenon DEF ChosenInv
<1>6. CASE Lock
  <2>1. UNCHANGED <<top, before, candidates, failed, tip, wanted, lowered, pindexMostWork>> /\ pc' = "find"
    BY <1>6, Zenon DEF Lock, tree, anchors
  <2> QED BY <1>2, <1>3, <2>1, Zenon DEF ChosenInv
<1>7. CASE FindMostWorkChain
  <2>1. pc = "find" /\ UNCHANGED <<top, before, wanted, lowered>> /\ pindexMostWork = None
    BY <1>7, Found, Zenon DEF FindMostWorkChain
  <2>2. CASE Filter = {} /\ pc' = "step" /\ UNCHANGED <<candidates, pindexMostWork>>
    BY <1>2, <2>1, <2>2, Zenon DEF ChosenInv
  <2>3. ASSUME NEW new \in Best(Filter), pindexMostWork' = new, pc' = "step", UNCHANGED <<failed, candidates>>, new \in L
        PROVE  ChosenInv'
    <3>1. \A b \in Filter : b = new \/ Worse(b, new)
      BY Zenon DEF Best
    <3> QED BY <1>0, <1>2, <1>3, <2>1, <2>3, <3>1, Zenon DEF ChosenInv
  <2>4. CASE UNCHANGED <<pc, pindexMostWork>>
    BY <2>1, <2>4, Zenon DEF ChosenInv
  <2> QED BY <1>7, <2>2, <2>3, <2>4, Found, Zenon DEF Filter
<1>8. CASE Remembered
  <2>1. /\ UNCHANGED <<top, before, candidates, failed, tip, wanted, lowered, pindexMostWork>> /\ pc' = "step"
        /\ pindexMostWork # None
    BY <1>8, Zenon DEF Remembered, tree, anchors, locals
  <2> QED BY <1>2, <1>3, <2>1, Zenon DEF ChosenInv
<1>9. CASE NothingToDo
  <2>1. /\ UNCHANGED <<top, before, candidates, failed, tip, wanted, lowered, pindexMostWork>>
        /\ pc = "step" /\ pc' \in {"loop", "idle"} /\ pindexMostWork \in {None, tip}
    BY <1>9, Zenon DEF NothingToDo, tree, anchors, locals
  <2>2. CASE pindexMostWork = None
    BY <1>2, <2>1, <2>2, Zenon DEF ChosenInv
  <2>3. CASE pindexMostWork = tip
    <3>1. \A b \in Filter : b = tip \/ Worse(b, tip) => ~Worse(tip, b)
      BY <1>0, <1>1, WorseFacts, Zenon
    <3> QED BY <1>0, <1>2, <1>3, <2>1, <2>3, <3>1, Zenon DEF ChosenInv
  <2> QED BY <2>1, <2>2, <2>3, Zenon
<1>10. CASE ActivateBestChainStep
  <2>1. PICK last \in Chain[pindexMostWork] : StepTo(last)
    BY <1>10, Stepped, Zenon
  <2>2. /\ UNCHANGED <<top, before, wanted, lowered>> /\ pindexMostWork \in L
        /\ pc' \in {"idle", "loop", "find"} /\ (pc' = "idle" => tip' = pindexMostWork')
    BY <1>10, Stepped, Zenon
  <2>3. CASE tip' = Parent[last] /\ pindexMostWork' = None /\ Parent[last] \in L
    BY <1>0, <2>2, <2>3, Zenon DEF ChosenInv
  <2>4. CASE last \in L /\ candidates' = PruneBlockIndexCandidates(candidates, last) /\ UNCHANGED <<failed, pindexMostWork>>
    <3>1. Filter' \subseteq Filter
      <4>1. Filter' = FilterAnchorSatisfying(top, candidates')
        BY <2>2, Zenon DEF Filter, FilterAnchorSatisfying, HeadOf, Best, Worse
      <4> QED BY <1>0, <2>4, <4>1, PruneFilter DEF Filter
    <3>2. \A b \in Filter : b = pindexMostWork \/ Worse(b, pindexMostWork) => ~Worse(pindexMostWork, b)
      BY <1>0, <1>1, <2>2, WorseFacts, Zenon
    <3> QED BY <1>0, <1>3, <2>2, <2>4, <3>1, <3>2, Zenon DEF ChosenInv
  <2> QED BY <2>1, <2>3, <2>4, Zenon DEF StepTo
<1>11. CASE UNCHANGED <<top, before, candidates, failed, tip, wanted, lowered, pindexMostWork, pc>>
  BY <1>2, <1>3, <1>11, Zenon DEF ChosenInv
<1> QED
  BY <1>4, <1>5, <1>6, <1>7, <1>8, <1>9, <1>10, <1>11, Zenon DEF Next, Thread, vars, tree, anchors, locals,
     ReceiveHeader, ProcessNewBlock, SetTop, DeleteAnchor, KnownBlock

-----------------------------------------------------------------------------
(* Every block that is better than the tip stays within reach.             *)

\* Below a candidate, or below a block whose data is still missing, as long as no block failed.
CoverInv ==
    failed = {} => \A b \in L : Height[tip] < Height[b] =>
        \/ \E c \in candidates : b \in Chain[c]
        \/ \E k \in known \ L : b \in Chain[k]

\* RefillCandidates finds the leaves, and every block off the chain is below one.
LEMMA LeafAbove ==
    ASSUME TypeInv, NEW t \in L, NEW b \in L, Height[t] < Height[b]
    PROVE  \/ \E c \in RefillCandidates(t) : b \in Chain[c]
           \/ \E k \in known \ L : b \in Chain[k]
<1> DEFINE orphans == known \ Chain[t]
           S       == {o \in orphans : b \in Chain[o]}
<1>1. /\ t \in Blocks /\ b \in Blocks /\ b \in known /\ Height[t] \in Nat /\ Height[b] \in Nat
      /\ orphans \in SUBSET Blocks /\ Genesis \in Chain[t]
  BY LinkedFacts, ChainEnds DEF TypeInv
<1>2. b \in S
  <2>1. b \notin Chain[t]
    <3>1. b \in Chain[t] => Height[b] <= Height[t]
      BY <1>1, ChainBelow, Zenon
    <3> QED BY <1>1, <3>1
  <2> QED BY <1>1, <2>1, ChainEnds
<1>3. S \in SUBSET Blocks /\ IsFiniteSet(S)
  <2>1. S \in SUBSET known
    BY Zenon
  <2> QED BY <2>1, FS_Subset, Zenon DEF TypeInv
<1>4. PICK l \in S : \A c \in S : Height[c] <= Height[l]
  <2> HIDE DEF S
  <2> QED BY <1>2, <1>3, HighestExists, Zenon
<1>5. ASSUME NEW c \in orphans, Parent[c] = l
      PROVE  FALSE
  <2>1. c \in Blocks \ {Genesis} /\ l \in Blocks
    BY <1>1, <1>3, Zenon
  <2>2. Chain[c] = {c} \cup Chain[l] /\ Height[c] = Height[l] + 1 /\ Height[l] \in Nat
    BY <1>5, <2>1, ChainOf, TreeAssumption, Zenon
  <2>3. c \in S
    BY <2>2
  <2>4. Height[c] <= Height[l]
    BY <1>4, <2>3
  <2> QED BY <2>2, <2>4
<1>6. l \in orphans /\ b \in Chain[l] /\ l \in known
  OBVIOUS
<1>7. CASE l \in L
  <2>1. Height[l] >= Height[t]
    <3>1. Height[b] <= Height[l] /\ Height[l] \in Nat
      BY <1>1, <1>6, ChainBelow, Zenon
    <3> QED BY <1>1, <3>1
  <2>2. l \in RefillCandidates(t)
    BY <1>5, <1>6, <1>7, <2>1, Zenon DEF RefillCandidates, L
  <2> QED BY <1>6, <2>2
<1> QED
  BY <1>6, <1>7, Zenon

\* While no block failed, a block higher than the tip is below a candidate or below a missing one.
LEMMA CoverStep ==
    ASSUME TypeInv, OrderInv, TargetInv, CoverInv, [Next]_vars
    PROVE  CoverInv'
<1>0. /\ \A b \in L : b \in Blocks /\ b # None /\ Height[b] \in Nat /\ Chain[b] \subseteq L
      /\ candidates \in SUBSET L /\ tip \in L /\ known \in SUBSET Blocks
  BY LinkedFacts, Zenon DEF TypeInv
<1>a. ASSUME data' = data PROVE L' = L
  BY <1>a, Zenon DEF L
<1>1. CASE ActivateBestChain
  <2>1. CASE UNCHANGED <<tip, candidates>>
    BY <1>1, <1>a, <2>1, RollBack, Zenon DEF CoverInv
  <2>2. ASSUME NEW t \in Chain[tip] \cap L, tip' = t, candidates' = RefillCandidates(t)
        PROVE  CoverInv'
    BY <1>1, <1>a, <2>2, LeafAbove, RollBack, Zenon DEF CoverInv
  <2> QED BY <1>1, <2>1, <2>2, RollBack, Zenon
<1>2. CASE FindMostWorkChain
  <2>1. CASE UNCHANGED <<failed, candidates>>
    BY <1>2, <1>a, <2>1, Found, Zenon DEF CoverInv
  <2>2. ASSUME NEW f \in failed, failed \subseteq failed'
        PROVE  CoverInv'
    BY <2>2, Zenon DEF CoverInv
  <2> QED BY <1>2, <2>1, <2>2, Found, Zenon
<1>3. CASE ActivateBestChainStep
  <2>1. PICK last \in Chain[pindexMostWork] : StepTo(last)
    BY <1>3, Stepped, Zenon
  <2>2. pindexMostWork \in candidates /\ last \in L
    BY <1>0, <1>3, <2>1, Stepped, Zenon DEF TargetInv, StepTo
  <2>3. CASE failed' = failed \cup {last}
    BY <2>3, Zenon DEF CoverInv
  <2>4. CASE /\ tip' = last /\ (last = pindexMostWork \/ Height[tip] < Height[last]) /\ failed' = failed
             /\ candidates' = PruneBlockIndexCandidates(candidates, last)
    <3>1. Height[tip] <= Height[last]
      BY <1>0, <2>2, <2>4 DEF TargetInv
    <3>2. ASSUME NEW b \in L, Height[last] < Height[b]
          PROVE  Height[tip] < Height[b] /\ \A c \in candidates : b \in Chain[c] => c \in candidates'
      <4>1. Height[tip] < Height[b]
        BY <1>0, <2>2, <3>1, <3>2
      <4>2. ASSUME NEW c \in candidates, b \in Chain[c]
            PROVE  c \in candidates'
        <5>1. Height[b] <= Height[c] /\ c \in L
          BY <1>0, <4>2, ChainBelow, Zenon
        <5>2. Height[last] < Height[c]
          BY <1>0, <2>2, <3>2, <5>1
        <5>3. ~Worse(c, last)
          BY <2>2, <5>1, <5>2, WorseFacts, Zenon
        <5> QED BY <2>4, <5>3, Zenon DEF PruneBlockIndexCandidates
      <4> QED BY <4>1, <4>2, Zenon
    <3>3. L' = L /\ known' = known
      BY <1>3, <1>a, Stepped, Zenon
    <3> QED BY <2>4, <3>2, <3>3, Zenon DEF CoverInv
  <2> QED BY <2>1, <2>3, <2>4, Zenon DEF StepTo
<1>4. ASSUME NEW x \in Blocks \ {Genesis}, ReceiveHeader(x)
      PROVE  CoverInv'
  <2>1. known' = known \cup {x} /\ UNCHANGED <<data, failed, candidates, tip>>
    BY <1>4 DEF ReceiveHeader
  <2> QED BY <1>a, <2>1 DEF CoverInv
<1>5. ASSUME NEW x \in Blocks \ {Genesis}, ProcessNewBlock(x)
      PROVE  CoverInv'
  <2>1. L \subseteq L' /\ L' \subseteq Blocks /\ known' = known \cup {x} /\ UNCHANGED <<failed, tip>>
    <3>1. L \subseteq L'
      BY <1>5, Zenon DEF ProcessNewBlock, L, Linked
    <3>2. L' \subseteq known' /\ known' \subseteq Blocks
      <4>1. TypeInv'
        BY TypeStep, Zenon
      <4> QED BY <4>1, Zenon DEF TypeInv, L, Linked
    <3> QED BY <1>5, <3>1, <3>2, Zenon DEF ProcessNewBlock
  <2>2. candidates' = candidates \cup {c \in L' \ L : Height[c] > Height[tip]}
    BY <1>5, Zenon DEF ProcessNewBlock, NewCandidates, L
  <2> SUFFICES ASSUME failed = {}, NEW b \in L', Height[tip] < Height[b]
               PROVE  \/ \E c \in candidates' : b \in Chain[c]
                      \/ \E k \in known' \ L' : b \in Chain[k]
    BY <2>1, Zenon DEF CoverInv
  <2>3. \A c \in L' : Height[c] \in Nat
    BY <2>1, TreeAssumption, Zenon
  <2>4. ASSUME NEW k \in L' \ L, b \in Chain[k]
        PROVE  k \in candidates'
    <3>1. Height[b] <= Height[k]
      BY <2>1, <2>4, ChainBelow, Zenon
    <3>2. Height[k] > Height[tip]
      BY <1>0, <2>3, <3>1
    <3> QED BY <2>2, <3>2, Zenon
  <2>5. CASE b \notin L
    <3>1. b \in Chain[b]
      BY <2>1, ChainEnds, Zenon
    <3> QED BY <2>4, <2>5, <3>1, Zenon
  <2>6. CASE b \in L
    <3>1. CASE \E c \in candidates : b \in Chain[c]
      BY <2>2, <3>1, Zenon
    <3>2. ASSUME NEW k \in known \ L, b \in Chain[k]
          PROVE  \/ \E c \in candidates' : b \in Chain[c]
                 \/ \E d \in known' \ L' : b \in Chain[d]
      BY <2>1, <2>4, <3>2, Zenon
    <3> QED BY <2>6, <3>1, <3>2, Zenon DEF CoverInv
  <2> QED BY <2>5, <2>6, Zenon
<1>6. CASE UNCHANGED <<known, data, failed, candidates, tip>>
  BY <1>6, <1>a, Zenon DEF CoverInv
<1> QED
  BY <1>1, <1>2, <1>3, <1>4, <1>5, <1>6, Zenon DEF Next, Thread, vars, tree, Lock, Remembered, NothingToDo,
     SetTop, DeleteAnchor, KnownBlock

-----------------------------------------------------------------------------
(* The theorems.                                                           *)

SelectionInv == TypeInv /\ OrderInv /\ FailedInv /\ KeptInv /\ TargetInv /\ CoverInv /\ ChosenInv

\* The conjunction holds in every reachable state.
LEMMA SelectionInvariant == Spec => []SelectionInv
<1>1. Init => SelectionInv
  <2> SUFFICES ASSUME Init PROVE SelectionInv
    BY Zenon
  <2>1. Chain[Genesis] = {Genesis} /\ Genesis \in Blocks /\ Height[Genesis] = 0
    BY ChainOf, TreeAssumption, Zenon
  <2>2. L = {Genesis}
    BY <2>1, Zenon DEF Init, L, Linked
  <2>3. IsFiniteSet({Genesis})
    BY FS_Singleton, Zenon
  <2>4. TypeInv
    BY <2>1, <2>2, <2>3, Zenon DEF Init, TypeInv, Tops
  <2>5. OrderInv
    BY <2>2, Zenon DEF Init, OrderInv, Ordered
  <2>6. FailedInv /\ KeptInv /\ TargetInv
    <3>1. Valid(Genesis)
      BY <2>1, AnchorAssumption, Zenon DEF Valid
    <3> QED BY <2>1, <2>2, <3>1 DEF Init, FailedInv, KeptInv, TargetInv
  <2>7. CoverInv
    BY <2>1, <2>2, Zenon DEF Init, CoverInv
  <2>8. ChosenInv
    <3>1. Filter \subseteq {Genesis} /\ ~Worse(Genesis, Genesis)
      BY <2>1 DEF Init, Filter, FilterAnchorSatisfying, Worse
    <3> QED BY <3>1, Zenon DEF Init, ChosenInv
  <2> QED BY <2>4, <2>5, <2>6, <2>7, <2>8, Zenon DEF SelectionInv
<1>2. SelectionInv /\ [Next]_vars => SelectionInv'
  BY TypeStep, OrderStep, FailedStep, KeptStep, TargetStep, CoverStep, ChosenStep, Zenon DEF SelectionInv
<1> QED
  BY <1>1, <1>2, PTL DEF Spec

(***************************************************************************)
(* Candidates, tip and the block worked towards are blocks whose data and  *)
(* all data before them is there, and setBlockIndexCandidates is never     *)
(* empty, which PruneBlockIndexCandidates asserts: the best of the valid   *)
(* blocks is in it.                                                        *)
(***************************************************************************)
THEOREM SelectionTypeCorrect == Spec => []TypeOK
<1>1. SelectionInv => TypeOK
  BY DEF SelectionInv, TypeInv, KeptInv, TypeOK, L, Tops
<1> QED
  BY <1>1, SelectionInvariant, PTL

\* The block which the thread remembers between two steps satisfies the anchors too.
LEMMA SatisfiedInvariant == ASSUME OneChain PROVE Spec => []SatisfiedInv
<1>1. Init => SatisfiedInv
  BY Zenon DEF Init, SatisfiedInv, Satisfies, Reached, ActiveAnchors
<1>2. SelectionInv /\ SatisfiedInv /\ [Next]_vars => SatisfiedInv'
  BY SatisfiedStep, Zenon DEF SelectionInv
<1> QED
  BY <1>1, <1>2, SelectionInvariant, PTL DEF Spec

(***************************************************************************)
(* If anchors build on one another, the active chain satisfies the active  *)
(* anchors whenever no call of ActivateBestChain is due.                   *)
(***************************************************************************)
THEOREM ActiveChainSatisfiesAnchors == ASSUME OneChain PROVE Spec => []TipSatisfiesAnchors
<1>1. SatisfiedInv => TipSatisfiesAnchors
  BY Zenon DEF SatisfiedInv, Satisfies, TipSatisfiesAnchors, Quiet
<1> QED
  BY <1>1, SatisfiedInvariant, PTL

(***************************************************************************)
(* ActivateBestChain stops at the best candidate that satisfies the        *)
(* anchors, although it chooses it once and lets blocks and anchors come   *)
(* in between its steps.                                                   *)
(***************************************************************************)
THEOREM BestCandidateActivated == Spec => []BestCandidateIsActive
<1>1. SelectionInv => BestCandidateIsActive
  BY Zenon DEF SelectionInv, ChosenInv, Filter, BestCandidateIsActive, Quiet
<1> QED
  BY <1>1, SelectionInvariant, PTL

\* A candidate falls or stays with the best of the heads above it, and there is one.
LEMMA HeadExists ==
    ASSUME TypeInv, OrderInv, NEW C \in SUBSET L, NEW c \in C
    PROVE  \E h \in HeadOf(c, C) : h \in L /\ c \in Chain[h]
<1> DEFINE S == {h \in C : c \in Run(h, C)}
           H == {h \in Heads(C) : c \in Run(h, C)}
<1>0. \A b \in L : b \in Blocks /\ Height[b] \in Nat
  BY LinkedFacts, Zenon
<1>1. c \in S
  <2>1. \A d \in Chain[c] : ~(Height[d] > Height[c])
    BY <1>0, ChainBelow
  <2> QED BY <1>0, <2>1, ChainEnds, Zenon DEF Run
<1>2. S \in SUBSET Blocks /\ IsFiniteSet(S)
  <2>1. S \in SUBSET L
    BY Zenon
  <2> QED BY <1>0, <2>1, LinkedFacts, FS_Subset, Zenon
<1>3. PICK h \in S : \A x \in S : Height[x] <= Height[h]
  <2> HIDE DEF S
  <2> QED BY <1>1, <1>2, HighestExists, Zenon
<1>4. ASSUME NEW d \in C \ {Genesis}, Parent[d] = h
      PROVE  FALSE
  <2>1. Chain[d] = {d} \cup Chain[h] /\ Height[d] = Height[h] + 1 /\ Height[h] \in Nat
    BY <1>0, <1>4, ChainOf, TreeAssumption, Zenon
  <2>2. d \in S
    BY <2>1, Zenon DEF Run
  <2>3. Height[d] <= Height[h]
    BY <1>3, <2>2, Zenon
  <2> QED BY <2>1, <2>3
<1>5. h \in H
  BY <1>4, Zenon DEF Heads
<1>6. H \in SUBSET L
  BY Zenon DEF Heads
<1>7. Best(H) # {}
  <2> HIDE DEF H
  <2> QED BY <1>5, <1>6, BestExists, Zenon
<1>8. \A x \in Best(H) : x \in L /\ c \in Chain[x]
  BY <1>6, Zenon DEF Best, Run
<1> QED
  BY <1>7, <1>8 DEF HeadOf

\* Every chain with the block of the active anchor passes the filter.
LEMMA AnchoredPasses ==
    ASSUME TypeInv, OrderInv, NEW c \in candidates, top # None => AnchorBlock[top] \in Chain[c]
    PROVE  c \in Filter
<1>1. candidates \in SUBSET L /\ top \in Tops
  BY Zenon DEF TypeInv
<1>2. CASE top = None
  BY <1>2, Zenon DEF Filter, FilterAnchorSatisfying
<1>3. CASE top # None
  <2>1. PICK h \in HeadOf(c, candidates) : h \in L /\ c \in Chain[h]
    BY <1>1, HeadExists, Zenon
  <2>2. h \in Blocks /\ AnchorBlock[top] \in Chain[h] /\ top \in Anchors /\ AnchorHeight(top) \in Nat
    BY <1>1, <1>3, <2>1, LinkedFacts, ChainPrefix, AnchorAssumption, TreeAssumption, Zenon DEF Tops, AnchorHeight
  <2>3. top \in Reached(top, h)
    <3>1. AnchorHeight(top) <= Height[h]
      BY <2>2, ChainBelow, Zenon DEF AnchorHeight
    <3> QED BY <1>3, <2>2, <3>1, BelowOf, Zenon DEF Reached, ActiveAnchors
  <2>4. GetHighestAnchorFor(top, h) = top
    <3> DEFINE g == GetHighestAnchorFor(top, h)
    <3>1. g \in Reached(top, h) /\ AnchorHeight(top) <= AnchorHeight(g)
      BY <1>1, <2>2, <2>3, HighestAnchor, Zenon
    <3> HIDE DEF g
    <3>2. g \in Below[top] /\ AnchorHeight(g) \in Nat
      BY <1>1, <2>2, <3>1, ReachedFacts, Zenon
    <3>3. g = top
      BY <2>2, <3>1, <3>2, BelowFacts
    <3> QED BY <3>3, Zenon DEF g
  <2>5. GoodChain(top, h)
    BY <2>2, <2>4, Zenon DEF GoodChain
  <2> QED BY <2>1, <2>5, Zenon DEF Filter, FilterAnchorSatisfying
<1> QED
  BY <1>2, <1>3, Zenon

\* With all blocks there and none failed, no higher chain with the anchored block is left aside.
LEMMA NoneHigher ==
    ASSUME SelectionInv, Quiet, ~lowered, Complete, NEW b \in L, Height[tip] < Height[b],
           top # None => AnchorBlock[top] \in Chain[b]
    PROVE  FALSE
<1>1. TypeInv /\ OrderInv /\ CoverInv /\ ChosenInv
  BY Zenon DEF SelectionInv
<1>2. known \subseteq L
  <2> DEFINE T == {x \in Blocks : x \in known => Chain[x] \subseteq known}
  <2>1. Genesis \in T
    BY <1>1, ChainOf, TreeAssumption, Zenon DEF TypeInv
  <2>2. \A x \in Blocks \ {Genesis} : Parent[x] \in T => x \in T
    BY <1>1, ChainOf, Zenon DEF TypeInv
  <2>3. Blocks \subseteq T
    <3> HIDE DEF T
    <3> QED BY <2>1, <2>2, TreeInduction, Zenon
  <2> QED BY <1>1, <2>3, Zenon DEF TypeInv, Complete, L, Linked
<1>3. PICK c \in candidates : b \in Chain[c]
  BY <1>1, <1>2, Zenon DEF CoverInv, Complete
<1>4. c \in L /\ tip \in L /\ b \in Blocks /\ c \in Blocks /\ Height[tip] \in Nat
  BY <1>1, LinkedFacts, Zenon DEF TypeInv
<1>5. Height[tip] < Height[c]
  <2>1. Height[b] <= Height[c] /\ Height[b] \in Nat /\ Height[c] \in Nat
    BY <1>3, <1>4, ChainBelow, Zenon
  <2> QED BY <1>4, <2>1
<1>6. c \in Filter
  BY <1>1, <1>3, <1>4, ChainPrefix, AnchoredPasses, Zenon
<1> QED
  BY <1>1, <1>4, <1>5, <1>6, WorseFacts, Zenon DEF ChosenInv, Quiet, Complete

\* A tip below the anchored block is not the best candidate; a higher one must contain it.
LEMMA AnchoredActive ==
    ASSUME OneChain, SelectionInv, SatisfiedInv
    PROVE  AnchoredBlockIsActive
<1> SUFFICES ASSUME Quiet, ~lowered, Complete, top # None, AnchorBlock[top] \in L, AnchorBlock[top] \notin Chain[tip]
             PROVE  FALSE
  BY Zenon DEF AnchoredBlockIsActive, L
<1>1. TypeInv /\ top \in Anchors /\ tip \in L
  BY Zenon DEF SelectionInv, TypeInv, Tops
<1>2. AnchorBlock[top] \in Blocks /\ Height[AnchorBlock[top]] \in Nat /\ Height[tip] \in Nat
  BY <1>1, LinkedFacts, Zenon
<1>3. CASE Height[AnchorBlock[top]] <= Height[tip]
  <2>1. top \in Reached(top, tip)
    BY <1>1, <1>3, BelowOf, Zenon DEF Reached, ActiveAnchors, AnchorHeight
  <2> QED BY <2>1, Zenon DEF SatisfiedInv, Satisfies, Quiet
<1>4. CASE Height[tip] < Height[AnchorBlock[top]]
  BY <1>2, <1>4, ChainEnds, NoneHigher, Zenon
<1> QED
  BY <1>2, <1>3, <1>4

(***************************************************************************)
(* If anchors build on one another, a node that has all blocks up to the   *)
(* anchored one ends on a chain with this block, however the blocks and    *)
(* anchors came.                                                           *)
(***************************************************************************)
THEOREM AnchoredBlockActivated == ASSUME OneChain PROVE Spec => []AnchoredBlockIsActive
<1>1. SelectionInv /\ SatisfiedInv => AnchoredBlockIsActive
  BY AnchoredActive, Zenon
<1> QED
  BY <1>1, SelectionInvariant, SatisfiedInvariant, PTL

(***************************************************************************)
(* What the comment on ActivateBestChain promises: if no block failed, the *)
(* headers have their blocks and the anchored block is there, no block     *)
(* with more work than the tip satisfies the anchors.                      *)
(***************************************************************************)
THEOREM BestChainActivated == ASSUME OneChain PROVE Spec => []BestChainIsActive
<1>1. ASSUME SelectionInv, SatisfiedInv
      PROVE  BestChainIsActive
  <2> SUFFICES ASSUME Quiet, ~lowered, Complete, top # None => AnchorBlock[top] \in L,
                      NEW b \in L, Height[b] > Height[tip], GoodChain(top, b)
               PROVE  FALSE
    BY Zenon DEF BestChainIsActive, L
  <2>1. TypeInv /\ top \in Tops /\ tip \in L /\ b \in Blocks /\ tip \in Blocks
    BY <1>1, LinkedFacts, Zenon DEF SelectionInv, TypeInv
  <2>2. Height[tip] < Height[b] /\ Height[tip] \in Nat /\ Height[b] \in Nat
    BY <2>1, LinkedFacts, Zenon
  <2>3. ASSUME top # None
        PROVE  AnchorBlock[top] \in Chain[b]
    <3>1. AnchorBlock[top] \in Chain[tip] /\ top \in Anchors
      BY <1>1, <2>1, <2>3, AnchoredActive, Zenon DEF AnchoredBlockIsActive, L, Tops
    <3>2. Height[AnchorBlock[top]] <= Height[tip] /\ Height[AnchorBlock[top]] \in Nat
      BY <2>1, <3>1, ChainBelow, Zenon
    <3>3. AnchorHeight(top) <= Height[b]
      BY <2>2, <3>2 DEF AnchorHeight
    <3>4. top \in Reached(top, b)
      BY <2>3, <3>1, <3>3, BelowOf, Zenon DEF Reached, ActiveAnchors
    <3> QED BY <2>1, <3>4, GoodChainSatisfies, Zenon DEF Satisfies
  <2> QED BY <1>1, <2>2, <2>3, NoneHigher, Zenon
<1> QED
  BY <1>1, SelectionInvariant, SatisfiedInvariant, PTL
=============================================================================
