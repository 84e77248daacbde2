-------------------------- MODULE NodeStack_proofs ----------------------------
(***************************************************************************)
(* The run loop of WorkflowExecute, for any workflow whose nodes, inputs   *)
(* and outputs are finitely many.                                          *)
(*                                                                         *)
(* The handlers of a node's end are loops over its connections, so that    *)
(* what one step does to the data is itself shown by induction: a datum    *)
(* passed over a connection (Delivered), all those of a run (ChildrenKeep),*)
(* the check of what waits (CheckKeeps). The data is one record here, Now, *)
(* as the operators of NodeStack have it. Three invariants of the state    *)
(* follow, each with the theorems it is for:                               *)
(*   DataInv   each datum that arrived is in one place (Conserved, TypeOK),*)
(*   ReadyInv  an empty stack means that nothing that waits can run        *)
(*             (LeftOnlyByNeed),                                           *)
(*   QuietInv  nothing is under way above a node that was started without  *)
(*             an input (MissingInputNeverArrives).                        *)
(* That a run is reported once needs none of them: it follows from the     *)
(* phase, the abort and the moment at which it came (ReportInv).           *)
(***************************************************************************)
EXTENDS NodeStack, WellFoundedInduction, FiniteSetTheorems, SequenceTheorems, TLAPS

-------------------------------------------------------------------------------
(* Numbers                                                                  *)

(* A set of numbers has a least one.                                        *)
LEMMA Least ==
    ASSUME NEW T, T \subseteq Nat, T # {}
    PROVE  \E x \in T : \A y \in T : x <= y
<1> DEFINE R == OpToRel(<, Nat)
<1>1. \A x, y \in Nat : x < y => <<x, y>> \in R
    BY DEF OpToRel
<1>2. IsWellFoundedOn(R, Nat)
    BY NatLessThanWellFounded
<1> HIDE DEF R
<1>3. PICK x \in T : \A y \in T : ~(<<y, x>> \in R)
    BY <1>2, WFMin
<1>4. ASSUME NEW y \in T PROVE x <= y
    <2>1. x \in Nat /\ y \in Nat /\ ~(y < x)
        BY <1>1, <1>3
    <2> QED BY <2>1
<1> QED BY <1>3, <1>4

(* A set that has 0, and n + 1 with every n, has every number.              *)
LEMMA SetInduction ==
    ASSUME NEW S, 0 \in S, \A n \in Nat : n \in S => n + 1 \in S
    PROVE  Nat \subseteq S
<1> SUFFICES ASSUME Nat \ S # {} PROVE FALSE
    OBVIOUS
<1>1. PICK x \in Nat \ S : \A y \in Nat \ S : x <= y
    BY Least
<1>2. x - 1 \in Nat /\ x - 1 \in S
    BY <1>1
<1> QED BY <1>1, <1>2

(* Min of a set of numbers is one of them, and the least.                   *)
LEMMA MinIsLeast ==
    ASSUME NEW T, T \subseteq Nat, T # {}
    PROVE  Min(T) \in T /\ \A y \in T : Min(T) <= y
BY Least DEF Min

(* Max of a set of numbers below a bound is one of them, and the greatest.  *)
LEMMA MaxIsGreatest ==
    ASSUME NEW T, NEW b \in Nat, T \subseteq 0 .. b, T # {}
    PROVE  Max(T) \in T /\ \A y \in T : y <= Max(T)
<1> DEFINE B == {x \in Nat : \A y \in T : y <= x}
<1>1. b \in B
    OBVIOUS
<1>2. PICK x \in B : \A y \in B : x <= y
    BY <1>1, Least
<1>3. x \in T
    <2> SUFFICES ASSUME x \notin T PROVE FALSE
        OBVIOUS
    <2>0. \A y \in T : y \in Nat /\ y <= x
        BY <1>2
    <2>1. PICK y \in T : y \in Nat /\ y <= x
        BY <2>0
    <2>2. x - 1 \in Nat
        BY <2>1
    <2>3. \A z \in T : z <= x - 1
        <3> TAKE z \in T
        <3>1. z \in Nat /\ z <= x /\ z # x
            BY <1>2
        <3> QED BY <3>1, <1>2
    <2>4. x - 1 \in B
        BY <2>2, <2>3
    <2> QED BY <1>2, <2>4
<1>4. \E z \in T : \A y \in T : z >= y
    <2>1. \A y \in T : x >= y
        <3> TAKE y \in T
        <3>1. y \in Nat /\ y <= x /\ x \in Nat
            BY <1>2
        <3> QED BY <3>1
    <2> QED BY <1>3, <2>1
<1>5. Max(T) \in T /\ \A y \in T : Max(T) >= y
    BY <1>4 DEF Max
<1>6. \A y \in T : y \in Nat
    OBVIOUS
<1> QED BY <1>5, <1>6

-------------------------------------------------------------------------------
(* The graph of the workflow                                                *)

(* The nodes above a node, the node itself included if it is on a loop.     *)
Ancestors(g, n) == {m \in Nodes : \A S \in SUBSET Nodes : Above(g, S \cup {n}) \subseteq S => m \in S}

(* The ancestors of a node have the parents of their own among them, ...    *)
LEMMA AncestorsClosed ==
    ASSUME NEW g, IsGraph(g), NEW n \in Nodes
    PROVE  Above(g, Ancestors(g, n) \cup {n}) \subseteq Ancestors(g, n)
<1> SUFFICES ASSUME NEW e \in g.edges, e.to \in Ancestors(g, n) \cup {n}
             PROVE  e.from \in Ancestors(g, n)
    BY DEF Above
<1>1. e.from \in Nodes
    BY DEF IsGraph, Edge
<1>2. ASSUME NEW S \in SUBSET Nodes, Above(g, S \cup {n}) \subseteq S
      PROVE  e.from \in S
    <2>1. e.to \in S \cup {n}
        BY <1>2 DEF Ancestors
    <2> QED BY <1>2, <2>1 DEF Above
<1> QED BY <1>1, <1>2 DEF Ancestors

(* ... and are in every set that has. *)
LEMMA AncestorsLeast ==
    ASSUME NEW g, NEW n \in Nodes, NEW S \in SUBSET Nodes, Above(g, S \cup {n}) \subseteq S
    PROVE  Ancestors(g, n) \subseteq S
BY DEF Ancestors

(* ... and the ancestors of an ancestor are ancestors.                      *)
LEMMA AncestorsTransitive ==
    ASSUME NEW g, IsGraph(g), NEW n \in Nodes, NEW m \in Ancestors(g, n)
    PROVE  Ancestors(g, m) \subseteq Ancestors(g, n)
<1>1. Above(g, Ancestors(g, n) \cup {n}) \subseteq Ancestors(g, n)
    BY AncestorsClosed
<1>2. Above(g, Ancestors(g, n) \cup {m}) \subseteq Ancestors(g, n)
    BY <1>1 DEF Above
<1>3. m \in Nodes /\ Ancestors(g, n) \in SUBSET Nodes
    BY DEF Ancestors
<1> QED BY <1>2, <1>3, AncestorsLeast

(* What a run reads of the workflow, and what it derives from it once.      *)
ConfigOK == graph \in Graphs /\ parents = getParentNodes(graph) /\ children = nodesToAdd(graph)

(* What getParentNodes returns are the ancestors, without the node itself.  *)
LEMMA ConfigGraph ==
    ASSUME ConfigOK
    PROVE  /\ IsGraph(graph)
           /\ \A n \in Nodes : parents[n] = Ancestors(graph, n) \ {n}
BY NodeStackAssumption DEF ConfigOK, getParentNodes, Ancestors

(* In a workflow without loops no node is its own ancestor.                 *)
LEMMA NoNodeAboveItself ==
    ASSUME ConfigOK, Acyclic, NEW n \in Nodes
    PROVE  n \notin Ancestors(graph, n)
<1> DEFINE P == Above(graph, {n})
           U == P \cup UNION {Ancestors(graph, p) : p \in P}
<1>1. IsGraph(graph)
    BY ConfigGraph
<1>2. P \subseteq Nodes
    BY <1>1 DEF Above, IsGraph, Edge
<1>3. U \in SUBSET Nodes
    BY <1>2 DEF Ancestors
<1>4. Above(graph, U \cup {n}) \subseteq U
    <2> SUFFICES ASSUME NEW e \in graph.edges, e.to \in U \cup {n} PROVE e.from \in U
        BY DEF Above
    <2>1. CASE e.to = n
        BY <2>1 DEF Above
    <2>2. ASSUME NEW p \in P, e.to \in Ancestors(graph, p) \cup {p} PROVE e.from \in U
        <3>1. Above(graph, Ancestors(graph, p) \cup {p}) \subseteq Ancestors(graph, p)
            BY <1>1, <1>2, AncestorsClosed
        <3>2. e.from \in Ancestors(graph, p)
            BY <2>2, <3>1 DEF Above
        <3> QED BY <3>2
    <2> QED BY <2>1, <2>2
<1>5. Ancestors(graph, n) \subseteq U
    BY <1>3, <1>4, AncestorsLeast
<1> SUFFICES ASSUME n \in U PROVE FALSE
    BY <1>5
<1>6. PICK p \in P : n = p \/ n \in Ancestors(graph, p)
    OBVIOUS
<1>7. PICK e \in graph.edges : e.from = p /\ e.to = n
    BY DEF Above
<1>8. p # n /\ n \notin parents[p]
    BY <1>7 DEF Acyclic
<1>9. parents[p] = Ancestors(graph, p) \ {p}
    BY <1>2, ConfigGraph
<1> QED BY <1>6, <1>8, <1>9

(* Without loops, getParentNodes orders the nodes.                          *)
LEMMA ParentsOrdered ==
    ASSUME ConfigOK, Acyclic, NEW n \in Nodes, NEW m \in parents[n]
    PROVE  m \in Nodes /\ parents[m] \subseteq parents[n] /\ n \notin parents[m] /\ m \notin parents[m]
<1>1. IsGraph(graph) /\ parents[n] = Ancestors(graph, n) \ {n}
    BY ConfigGraph
<1>2. m \in Nodes /\ m \in Ancestors(graph, n)
    BY <1>1 DEF Ancestors
<1>3. parents[m] = Ancestors(graph, m) \ {m} /\ Ancestors(graph, m) \subseteq Ancestors(graph, n)
    BY <1>1, <1>2, ConfigGraph, AncestorsTransitive
<1>4. n \notin Ancestors(graph, n)
    BY NoNodeAboveItself
<1> QED BY <1>1, <1>2, <1>3, <1>4

(* A node connected to a node, or to a parent of one, is a parent of it.    *)
LEMMA SourceIsParent ==
    ASSUME ConfigOK, Acyclic, NEW n \in Nodes, NEW e \in graph.edges, e.to \in parents[n] \cup {n}
    PROVE  e.from \in parents[n]
<1>1. IsGraph(graph) /\ parents[n] = Ancestors(graph, n) \ {n}
    BY ConfigGraph
<1>2. Above(graph, Ancestors(graph, n) \cup {n}) \subseteq Ancestors(graph, n)
    BY <1>1, AncestorsClosed
<1>3. e.from \in Ancestors(graph, n)
    BY <1>1, <1>2 DEF Above
<1>4. n \notin Ancestors(graph, n)
    BY NoNodeAboveItself
<1> QED BY <1>1, <1>3, <1>4

(* The inputs are counted from 1.                                           *)
LEMMA InputsAreNumbers ==
    \E k \in Nat : Inputs = 1 .. k
BY NodeStackAssumption, FS_CardinalityType

(* The connections from a node, and the place of each among them.           *)
OutOf(n) == {e \in graph.edges : e.from = n}
Position(e) == Cardinality({a \in OutOf(e.from) : Before(graph, a, e)}) + 1

(* Before is a strict order of the connections from a node that compares any*)
(* two.                                                                     *)
LEMMA BeforeIsOrder ==
    ASSUME IsGraph(graph), NEW n \in Nodes, NEW a \in OutOf(n), NEW b \in OutOf(n)
    PROVE  /\ ~Before(graph, a, a)
           /\ a # b => Before(graph, a, b) \/ Before(graph, b, a)
           /\ \A c \in OutOf(n) : Before(graph, c, a) /\ Before(graph, a, b) => Before(graph, c, b)
<1>1. \A e \in OutOf(n) : /\ e \in Edge /\ e.from = n /\ e.to \in Nodes
                          /\ e.output \in Nat /\ e.input \in Nat /\ graph.rank[e.to] \in Nat
    <2>1. Inputs \subseteq Nat /\ Outputs \subseteq Nat
        BY InputsAreNumbers, NodeStackAssumption
    <2>2. \A e \in OutOf(n) : e \in Edge /\ e.from = n
        BY DEF OutOf, IsGraph
    <2>3. \A e \in Edge : e.to \in Nodes /\ e.output \in Outputs /\ e.input \in Inputs
        BY DEF Edge
    <2>4. \A m \in Nodes : graph.rank[m] \in Nat
        BY DEF IsGraph
    <2> QED BY <2>1, <2>2, <2>3, <2>4
<1>2. \A e, f \in OutOf(n) : graph.rank[e.to] = graph.rank[f.to] => e.to = f.to
    BY <1>1 DEF IsGraph, IsInjective
<1>3. \A e, f \in OutOf(n) :
          e.to = f.to /\ e.output = f.output /\ e.input = f.input => e = f
    BY <1>1 DEF Edge
<1> QED BY <1>1, <1>2, <1>3 DEF Before

(* So each connection has a place of its own among those of its node.       *)
LEMMA PositionsApart ==
    ASSUME IsGraph(graph), NEW n \in Nodes
    PROVE  /\ IsFiniteSet(OutOf(n)) /\ Cardinality(OutOf(n)) \in Nat
           /\ \A e \in OutOf(n) : Position(e) \in 1 .. Cardinality(OutOf(n))
           /\ \A a, b \in OutOf(n) : Position(a) = Position(b) => a = b
<1> DEFINE N == Cardinality(OutOf(n))
           Low(e) == {a \in OutOf(n) : Before(graph, a, e)}
<1>1. IsFiniteSet(OutOf(n)) /\ N \in Nat
    <2>1. IsFiniteSet(graph.edges)
        BY DEF IsGraph
    <2>2. OutOf(n) \in SUBSET graph.edges
        BY DEF OutOf
    <2> QED BY <2>1, <2>2, FS_Subset, FS_CardinalityType
<1>2. \A e \in OutOf(n) : Position(e) = Cardinality(Low(e)) + 1
    BY DEF Position, OutOf
<1>3. \A e \in OutOf(n) : /\ IsFiniteSet(Low(e)) /\ Cardinality(Low(e)) \in Nat
                          /\ Cardinality(Low(e)) < N
    <2> TAKE e \in OutOf(n)
    <2>1. Low(e) \in SUBSET OutOf(n) /\ e \notin Low(e)
        BY BeforeIsOrder
    <2>2. IsFiniteSet(Low(e)) /\ Cardinality(Low(e)) <= N /\ (N = Cardinality(Low(e)) => OutOf(n) = Low(e))
        BY <1>1, <2>1, FS_Subset
    <2>3. Cardinality(Low(e)) \in Nat
        BY <2>2, FS_CardinalityType
    <2> QED BY <1>1, <2>1, <2>2, <2>3
<1>4. ASSUME NEW a \in OutOf(n), NEW b \in OutOf(n), Before(graph, a, b)
      PROVE  Cardinality(Low(a)) < Cardinality(Low(b))
    <2>1. Low(a) \in SUBSET Low(b)
        BY <1>4, BeforeIsOrder
    <2>2. a \in Low(b) /\ a \notin Low(a)
        BY <1>4, BeforeIsOrder
    <2>3. Cardinality(Low(a)) <= Cardinality(Low(b)) /\ (Cardinality(Low(b)) = Cardinality(Low(a)) => Low(a) = Low(b))
        BY <1>3, <2>1, FS_Subset
    <2> QED BY <1>3, <2>2, <2>3
<1>5. ASSUME NEW a \in OutOf(n), NEW b \in OutOf(n), Position(a) = Position(b), a # b
      PROVE  FALSE
    <2>1. Before(graph, a, b) \/ Before(graph, b, a)
        BY <1>5, BeforeIsOrder
    <2>2. Cardinality(Low(a)) = Cardinality(Low(b))
        <3>1. Cardinality(Low(a)) + 1 = Cardinality(Low(b)) + 1
            BY <1>2, <1>5
        <3>2. Cardinality(Low(a)) \in Nat /\ Cardinality(Low(b)) \in Nat
            BY <1>3
        <3> HIDE DEF Low
        <3> QED BY <3>1, <3>2
    <2> QED BY <1>3, <1>4, <2>1, <2>2
<1>6. \A e \in OutOf(n) : Position(e) \in 1 .. N
    <2> TAKE e \in OutOf(n)
    <2>1. Position(e) = Cardinality(Low(e)) + 1
        BY <1>2
    <2>2. Cardinality(Low(e)) \in Nat /\ Cardinality(Low(e)) < N /\ N \in Nat
        BY <1>1, <1>3
    <2> HIDE DEF Low, N
    <2> QED BY <2>1, <2>2
<1> QED BY <1>1, <1>5, <1>6

(* nodesToAdd has each connection from a node, at one place.                *)
LEMMA ChildrenDistinct ==
    ASSUME ConfigOK, NEW n \in Nodes
    PROVE  /\ children[n] \in Seq(OutOf(n))
           /\ \A k, l \in DOMAIN children[n] : children[n][k] = children[n][l] => k = l
<1> DEFINE N == Cardinality(OutOf(n))
<1>1. IsGraph(graph)
    BY ConfigGraph
<1>2. children[n] = [k \in 1 .. N |-> CHOOSE e \in OutOf(n) : Position(e) = k]
    BY DEF ConfigOK, nodesToAdd, OutOf, Position
<1> DEFINE at == [e \in OutOf(n) |-> Position(e)]
<1>3. at \in Injection(OutOf(n), 1 .. N)
    BY <1>1, PositionsApart DEF Injection, IsInjective
<1>4. IsFiniteSet(1 .. N) /\ Cardinality(1 .. N) = N /\ N \in Nat
    <2>1. N \in Nat
        BY <1>1, PositionsApart
    <2> HIDE DEF N
    <2>2. 1 \in Int /\ N \in Int
        BY <2>1
    <2>3. IsFiniteSet(1 .. N) /\ Cardinality(1 .. N) = IF 1 > N THEN 0 ELSE N - 1 + 1
        BY <2>2, FS_Interval
    <2> QED BY <2>1, <2>3
<1>5. at \in Surjection(OutOf(n), 1 .. N)
    BY <1>3, <1>4, FS_Injection
<1>6. \A k \in 1 .. N : \E e \in OutOf(n) : Position(e) = k
    BY <1>5 DEF Surjection
<1>7. \A k \in 1 .. N : children[n][k] \in OutOf(n) /\ Position(children[n][k]) = k
    BY <1>2, <1>6
<1>8. children[n] \in [1 .. N -> OutOf(n)] /\ DOMAIN children[n] = 1 .. N
    BY <1>2, <1>7
<1> HIDE DEF N, at
<1>9. children[n] \in Seq(OutOf(n))
    BY <1>4, <1>8
<1> QED BY <1>7, <1>8, <1>9

(* Of the nodes that wait, some have no parent that waits; one of them is   *)
(* the given node or above it.                                              *)
LEMMA SomeWaitFirst ==
    ASSUME ConfigOK, Acyclic, NEW W \in SUBSET Nodes, NEW n \in W
    PROVE  \E m \in W \cap (parents[n] \cup {n}) : W \cap parents[m] = {}
<1> DEFINE C == W \cap (parents[n] \cup {n})
           T == {Cardinality(parents[m]) : m \in C}
<1>1. \A m \in Nodes : IsFiniteSet(parents[m]) /\ Cardinality(parents[m]) \in Nat
    <2> TAKE m \in Nodes
    <2>1. parents[m] \in SUBSET Nodes
        BY ConfigGraph DEF Ancestors
    <2> QED BY <2>1, NodeStackAssumption, FS_Subset, FS_CardinalityType
<1>2. T \subseteq Nat /\ T # {}
    BY <1>1
<1>3. PICK x \in T : \A y \in T : x <= y
    BY <1>2, Least
<1>4. PICK m \in C : x = Cardinality(parents[m])
    OBVIOUS
<1>5. ASSUME NEW z \in W \cap parents[m] PROVE FALSE
    <2>1. parents[z] \in SUBSET parents[m] /\ z \notin parents[z] /\ z \in parents[m]
        BY ParentsOrdered
    <2>2. z \in C
        <3>1. CASE m = n
            BY <3>1
        <3>2. CASE m # n
            BY <3>2, ParentsOrdered
        <3> QED BY <3>1, <3>2
    <2>3. Cardinality(parents[m]) <= Cardinality(parents[z])
        BY <1>3, <1>4, <2>2
    <2>4. /\ Cardinality(parents[z]) <= Cardinality(parents[m])
          /\ Cardinality(parents[m]) = Cardinality(parents[z]) => parents[m] = parents[z]
        BY <1>1, <2>1, FS_Subset
    <2> QED BY <1>1, <2>1, <2>3, <2>4
<1> QED BY <1>5

(* The inputs of a node that something is connected to. *)
LEMMA InputsOfNode ==
    ASSUME IsGraph(graph), NEW e \in graph.edges
    PROVE  /\ numberOfInputs(e.to) \in Inputs
           /\ e.input \in 1 .. numberOfInputs(e.to)
           /\ e.from \in Nodes /\ e.to \in Nodes /\ e.input \in Inputs /\ e.output \in Outputs
<1> DEFINE into == {x.input : x \in {f \in graph.edges : f.to = e.to}}
<1>1. e \in Edge /\ into \subseteq Inputs /\ e.input \in into
    BY DEF IsGraph, Edge
<1>2. PICK k \in Nat : Inputs = 1 .. k
    BY InputsAreNumbers
<1>3. Max(into) \in into /\ \A y \in into : y <= Max(into)
    <2>1. into \subseteq 0 .. k /\ into # {}
        BY <1>1, <1>2
    <2> HIDE DEF into
    <2> QED BY <2>1, MaxIsGreatest
<1>4. numberOfInputs(e.to) = Max(into)
    BY <1>1 DEF numberOfInputs
<1>5. e.input \in Nat /\ e.input >= 1
    BY <1>1, <1>2
<1>6. numberOfInputs(e.to) \in into /\ e.input <= numberOfInputs(e.to)
    BY <1>1, <1>3, <1>4
<1>7. numberOfInputs(e.to) \in Nat
    BY <1>1, <1>2, <1>6
<1>8. e.from \in Nodes /\ e.to \in Nodes /\ e.input \in Inputs /\ e.output \in Outputs
    BY <1>1 DEF Edge
<1> HIDE DEF into
<1> QED BY <1>1, <1>5, <1>6, <1>7, <1>8

(* What a sequence is with an element put in front of it.                   *)
LEMMA InFront ==
    ASSUME NEW S, NEW s \in Seq(S), NEW x \in S
    PROVE  /\ <<x>> \o s \in Seq(S) /\ Len(<<x>> \o s) = Len(s) + 1
           /\ (<<x>> \o s)[1] = x
           /\ \A k \in DOMAIN s : (<<x>> \o s)[k + 1] = s[k]
           /\ Range(<<x>> \o s) = Range(s) \cup {x}
<1>1. <<x>> \in Seq(S) /\ Len(<<x>>) = 1 /\ <<x>>[1] = x
    OBVIOUS
<1>2. /\ <<x>> \o s \in Seq(S) /\ Len(<<x>> \o s) = 1 + Len(s)
      /\ \A k \in 1 .. (1 + Len(s)) : (<<x>> \o s)[k] = IF k <= 1 THEN x ELSE s[k - 1]
    BY <1>1, ConcatProperties
<1> DEFINE t == <<x>> \o s
<1> HIDE DEF t
<1>3. t \in Seq(S) /\ Len(t) = 1 + Len(s)
      /\ \A k \in 1 .. (1 + Len(s)) : t[k] = IF k <= 1 THEN x ELSE s[k - 1]
    BY <1>2 DEF t
<1>4. t[1] = x /\ \A k \in DOMAIN s : t[k + 1] = s[k]
    BY <1>3
<1>5. Range(t) = Range(s) \cup {x}
    <2>1. \A k \in DOMAIN t : t[k] = x \/ (k - 1 \in DOMAIN s /\ t[k] = s[k - 1])
        BY <1>3
    <2>2. 1 \in DOMAIN t /\ \A k \in DOMAIN s : k + 1 \in DOMAIN t
        BY <1>3
    <2> QED BY <2>1, <2>2, <1>4 DEF Range
<1> QED BY <1>3, <1>4, <1>5 DEF t

(* A sequence is its head in front of its tail.                             *)
LEMMA HeadAndTail ==
    ASSUME NEW S, NEW s \in Seq(S), s # <<>>
    PROVE  /\ Head(s) \in S /\ Tail(s) \in Seq(S) /\ s = <<Head(s)>> \o Tail(s)
           /\ Range(s) = Range(Tail(s)) \cup {Head(s)}
<1>1. /\ Head(s) \in S /\ Tail(s) \in Seq(S) /\ Len(Tail(s)) = Len(s) - 1 /\ Head(s) = s[1]
      /\ \A k \in 1 .. Len(Tail(s)) : Tail(s)[k] = s[k + 1]
    BY HeadTailProperties
<1> DEFINE h == Head(s)
           r == Tail(s)
<1>a. h \in S /\ r \in Seq(S)
    BY <1>1
<1> HIDE DEF h, r
<1>b. /\ <<h>> \o r \in Seq(S) /\ Len(<<h>> \o r) = Len(r) + 1 /\ (<<h>> \o r)[1] = h
      /\ \A k \in DOMAIN r : (<<h>> \o r)[k + 1] = r[k]
      /\ Range(<<h>> \o r) = Range(r) \cup {h}
    BY <1>a, InFront
<1> DEFINE t == <<h>> \o r
<1> USE DEF h, r
<1>2. /\ t \in Seq(S) /\ Len(t) = Len(Tail(s)) + 1 /\ t[1] = Head(s)
      /\ \A k \in DOMAIN Tail(s) : t[k + 1] = Tail(s)[k]
      /\ Range(t) = Range(Tail(s)) \cup {Head(s)}
    BY <1>b
<1> HIDE DEF t
<1>3. Len(s) \in Nat /\ Len(t) = Len(s)
    BY <1>1, <1>2
<1>4. ASSUME NEW k \in 1 .. Len(s) PROVE t[k] = s[k]
    <2>1. CASE k = 1
        BY <1>1, <1>2, <2>1
    <2>2. CASE k # 1
        <3>1. k - 1 \in DOMAIN Tail(s) /\ k - 1 \in 1 .. Len(Tail(s))
            BY <1>1, <1>3, <2>2
        <3>2. t[(k - 1) + 1] = Tail(s)[k - 1] /\ Tail(s)[k - 1] = s[(k - 1) + 1]
            BY <1>1, <1>2, <3>1
        <3>3. (k - 1) + 1 = k
            OBVIOUS
        <3> QED BY <3>2, <3>3
    <2> QED BY <2>1, <2>2
<1>5. t = s
    <2>1. s \in [1 .. Len(s) -> S] /\ t \in [1 .. Len(s) -> S]
        BY <1>2, <1>3
    <2> QED BY <1>4, <2>1
<1> QED BY <1>1, <1>2, <1>5 DEF t

(* What is in a sequence when an element is added at the end.               *)
LEMMA AtTheEnd ==
    ASSUME NEW S, NEW s \in Seq(S), NEW x \in S
    PROVE  Append(s, x) \in Seq(S) /\ Range(Append(s, x)) = Range(s) \cup {x}
<1>1. Append(s, x) \in Seq(S) /\ Len(Append(s, x)) = Len(s) + 1
    OBVIOUS
<1>2. \A k \in 1 .. Len(s) + 1 : Append(s, x)[k] = IF k = Len(s) + 1 THEN x ELSE s[k]
    OBVIOUS
<1>3. Len(s) + 1 \in 1 .. Len(s) + 1
    OBVIOUS
<1> QED BY <1>1, <1>2, <1>3 DEF Range

(* A new element at the end does not repeat one.                            *)
LEMMA AppendKeepsApart ==
    ASSUME NEW S, NEW s \in Seq(S), NEW x \in S, IsInjective(s), x \notin Range(s)
    PROVE  IsInjective(Append(s, x))
<1>1. Append(s, x) \in Seq(S) /\ Len(Append(s, x)) = Len(s) + 1
    OBVIOUS
<1>2. \A k \in 1 .. Len(s) + 1 : Append(s, x)[k] = IF k = Len(s) + 1 THEN x ELSE s[k]
    OBVIOUS
<1>3. \A k \in 1 .. Len(s) : s[k] # x
    BY DEF Range
<1>4. DOMAIN Append(s, x) = 1 .. Len(s) + 1 /\ Len(s) \in Nat
    BY <1>1
<1>5. \A k, l \in 1 .. Len(s) : s[k] = s[l] => k = l
    BY DEF IsInjective
<1> DEFINE t == Append(s, x)
<1>6. \A k, l \in DOMAIN t : t[k] = t[l] => k = l
    <2> TAKE k, l \in DOMAIN t
    <2>1. /\ t[k] = IF k = Len(s) + 1 THEN x ELSE s[k]
          /\ t[l] = IF l = Len(s) + 1 THEN x ELSE s[l]
        BY <1>2, <1>4
    <2>2. k # Len(s) + 1 => k \in 1 .. Len(s)
        BY <1>4
    <2>3. l # Len(s) + 1 => l \in 1 .. Len(s)
        BY <1>4
    <2> QED BY <1>3, <1>5, <2>1, <2>2, <2>3
<1> QED BY <1>6 DEF IsInjective

(* Without removes the one occurrence of a node from the keys, and no other.*)
LEMMA WithoutRemoves ==
    ASSUME NEW S, NEW s \in Seq(S), IsInjective(s), NEW x
    PROVE  /\ Without(s, x) \in Seq(S) /\ IsInjective(Without(s, x))
           /\ Range(Without(s, x)) = Range(s) \ {x}
<1>1. CASE x \notin Range(s)
    BY <1>1 DEF Without
<1>2. CASE x \in Range(s)
    <2> DEFINE at == CHOOSE k \in DOMAIN s : s[k] = x
               t == RemoveAt(s, at)
    <2>1. at \in 1 .. Len(s) /\ s[at] = x
        BY <1>2 DEF Range
    <2>2. Without(s, x) = t
        BY <1>2 DEF Without
    <2> HIDE DEF at
    <2> DEFINE u == SubSeq(s, 1, at - 1)
               v == SubSeq(s, at + 1, Len(s))
    <2>a. at \in Int /\ Len(s) \in Nat /\ \A k \in 1 .. Len(s) : s[k] \in S
        BY <2>1
    <2>3. /\ u \in Seq(S) /\ Len(u) = at - 1
          /\ \A k \in 1 .. at - 1 : u[k] = s[k]
        <3>1. \A k \in 1 .. at - 1 : s[k] \in S
            BY <2>1, <2>a
        <3>2. /\ u \in Seq(S) /\ Len(u) = IF 1 <= at - 1 THEN (at - 1) - 1 + 1 ELSE 0
              /\ \A i \in 1 .. (at - 1) - 1 + 1 : u[i] = s[1 + i - 1]
            BY <2>a, <3>1, SubSeqProperties
        <3> HIDE DEF u
        <3> QED BY <2>1, <2>a, <3>2
    <2>4. /\ v \in Seq(S) /\ Len(v) = Len(s) - at
          /\ \A k \in 1 .. Len(s) - at : v[k] = s[k + at]
        <3>1. \A k \in at + 1 .. Len(s) : s[k] \in S
            BY <2>1, <2>a
        <3>2. /\ v \in Seq(S)
              /\ Len(v) = IF at + 1 <= Len(s) THEN Len(s) - (at + 1) + 1 ELSE 0
              /\ \A i \in 1 .. Len(s) - (at + 1) + 1 : v[i] = s[(at + 1) + i - 1]
            BY <2>a, <3>1, SubSeqProperties
        <3> HIDE DEF v
        <3>3. \A k \in 1 .. Len(s) - at : v[k] = s[k + at]
            <4> TAKE k \in 1 .. Len(s) - at
            <4>1. k \in 1 .. Len(s) - (at + 1) + 1 /\ (at + 1) + k - 1 = k + at
                BY <2>1, <2>a
            <4> QED BY <3>2, <4>1
        <3> QED BY <2>1, <2>a, <3>2, <3>3
    <2>5. t \in Seq(S) /\ Len(t) = Len(s) - 1
          /\ \A k \in 1 .. Len(s) - 1 : t[k] = IF k < at THEN s[k] ELSE s[k + 1]
        <3>1. t = u \o v
            BY DEF RemoveAt
        <3> HIDE DEF u, v, t
        <3>2. /\ t \in Seq(S) /\ Len(t) = Len(u) + Len(v)
              /\ \A i \in 1 .. Len(u) + Len(v) : t[i] = IF i <= Len(u) THEN u[i] ELSE v[i - Len(u)]
            BY <2>3, <2>4, <3>1, ConcatProperties
        <3>3. ASSUME NEW k \in 1 .. Len(s) - 1 PROVE t[k] = IF k < at THEN s[k] ELSE s[k + 1]
            <4>0. k \in 1 .. Len(u) + Len(v)
                BY <2>1, <2>a, <2>3, <2>4
            <4>1. t[k] = IF k <= at - 1 THEN u[k] ELSE v[k - (at - 1)]
                BY <2>3, <3>2, <4>0
            <4>2. CASE k < at
                BY <2>1, <2>3, <4>1, <4>2
            <4>3. CASE ~(k < at)
                <5>1. k - (at - 1) \in 1 .. Len(s) - at /\ (k - (at - 1)) + at = k + 1
                    BY <2>1, <2>a, <4>3
                <5>2. t[k] = v[k - (at - 1)]
                    BY <2>1, <4>1, <4>3
                <5> QED BY <2>4, <4>3, <5>1, <5>2
            <4> QED BY <4>2, <4>3
        <3> QED BY <2>1, <2>a, <2>3, <2>4, <3>2, <3>3
    <2> HIDE DEF t
    <2>6. \A k, l \in 1 .. Len(s) : s[k] = s[l] => k = l
        BY DEF IsInjective
    <2>7. IsInjective(t)
        BY <2>1, <2>5, <2>6 DEF IsInjective
    <2>8. ASSUME NEW y \in Range(t) PROVE y \in Range(s) \ {x}
        <3>1. PICK k \in 1 .. Len(s) - 1 : y = t[k]
            BY <2>5 DEF Range
        <3>2. \E l \in 1 .. Len(s) : y = s[l] /\ l # at
            BY <2>1, <2>5, <3>1
        <3> QED BY <2>1, <2>6, <3>2 DEF Range
    <2>9. ASSUME NEW y \in Range(s) \ {x} PROVE y \in Range(t)
        <3>1. PICK l \in 1 .. Len(s) : y = s[l] /\ l # at
            BY <2>1 DEF Range
        <3>2. \E k \in 1 .. Len(s) - 1 : t[k] = y
            <4>1. CASE l < at
                BY <2>1, <2>5, <3>1, <4>1
            <4>2. CASE l > at
                <5>1. l - 1 \in 1 .. Len(s) - 1 /\ t[l - 1] = s[l]
                    BY <2>1, <2>5, <3>1, <4>2
                <5> QED BY <3>1, <5>1
            <4> QED BY <2>1, <3>1, <4>1, <4>2
        <3> QED BY <2>5, <3>2 DEF Range
    <2> QED BY <2>2, <2>5, <2>7, <2>8, <2>9
<1> QED BY <1>1, <1>2

-------------------------------------------------------------------------------
(* The data of a run, as one record                                         *)

(* The items of the stack, as a set.                                        *)
Item == UNION {[node : Nodes, disabled : BOOLEAN, main : [1 .. k -> Datum \cup {Empty}]] :
                  k \in Inputs}

(* Item is the set of what IsItem accepts.                                  *)
LEMMA ItemsAre == \A x : IsItem(x) <=> x \in Item
BY DEF IsItem, Item

(* Neither null, as an item or as an entry holds it, is a datum a run makes.*)
LEMMA EmptyIsNoDatum == Empty \notin Made /\ Missing \notin Made /\ Missing # Empty
<1>1. \A x \in Made : DOMAIN x = {"from", "run", "output"}
    BY DEF Made
<1>2. DOMAIN Empty = {}
    BY DEF Empty
<1> QED BY <1>1, <1>2, NodeStackAssumption DEF Datum

(* Where a datum may be *)
Holds(main, i, d) == i \in DOMAIN main /\ main[i] = d

InStack(s, n, i, d) == \E k \in DOMAIN s : Has(s[k], n, i, d)
OnceInStack(s, n, i, d) ==
    \A k, l \in DOMAIN s : Has(s[k], n, i, d) /\ Has(s[l], n, i, d) => k = l

InEntries(entries, i, d) == \E x \in DOMAIN entries : Holds(entries[x], i, d)
OnceInEntries(entries, i, d) ==
    \A x, y \in DOMAIN entries : Holds(entries[x], i, d) /\ Holds(entries[y], i, d) => x = y

InItems(S, n, i, d) == \E x \in S : Has(x, n, i, d)
OnceInItems(S, n, i, d) == \A x, y \in S : Has(x, n, i, d) /\ Has(y, n, i, d) => x = y

InDropped(D, n, i, d) == [to |-> n, input |-> i, datum |-> d] \in D

(* A datum that has arrived is in one of them, and there once. *)
Kept(f, S, n, i, d) ==
    /\ OnceInStack(f.stack, n, i, d) /\ OnceInEntries(f.waiting[n], i, d)
    /\ ~(InStack(f.stack, n, i, d) /\ InEntries(f.waiting[n], i, d))
    /\ ~(InStack(f.stack, n, i, d) /\ InItems(S, n, i, d))
    /\ ~(InStack(f.stack, n, i, d) /\ InDropped(f.dropped, n, i, d))
    /\ ~(InEntries(f.waiting[n], i, d) /\ InItems(S, n, i, d))
    /\ ~(InEntries(f.waiting[n], i, d) /\ InDropped(f.dropped, n, i, d))
    /\ ~(InItems(S, n, i, d) /\ InDropped(f.dropped, n, i, d))
    /\ d \in Range(f.arrived[n][i]) <=> \/ InStack(f.stack, n, i, d)
                                        \/ InEntries(f.waiting[n], i, d)
                                        \/ InItems(S, n, i, d)
                                        \/ InDropped(f.dropped, n, i, d)

(* Every datum is, S being the items that were used.                        *)
AllKept(f, S) == \A n \in Nodes, i \in Inputs, d \in Made : Kept(f, S, n, i, d)

(* What a stack holds when an item is put on it, or taken off.              *)
LEMMA StackSplit ==
    ASSUME NEW s \in Seq(Item), NEW x \in Item, NEW n, NEW i, NEW d
    PROVE  /\ InStack(<<x>> \o s, n, i, d) <=> InStack(s, n, i, d) \/ Has(x, n, i, d)
           /\ OnceInStack(<<x>> \o s, n, i, d) <=>
                 OnceInStack(s, n, i, d) /\ ~(InStack(s, n, i, d) /\ Has(x, n, i, d))
<1> DEFINE t == <<x>> \o s
<1>1. /\ t \in Seq(Item) /\ Len(t) = Len(s) + 1 /\ t[1] = x
      /\ \A k \in DOMAIN s : t[k + 1] = s[k]
    BY InFront
<1> HIDE DEF t
<1>2. DOMAIN t = 1 .. Len(s) + 1 /\ DOMAIN s = 1 .. Len(s) /\ Len(s) \in Nat
    BY <1>1
<1> DEFINE P(y) == Has(y, n, i, d)
<1>3. InStack(t, n, i, d) <=> \E k \in DOMAIN t : P(t[k])
    BY DEF InStack
<1>4. InStack(s, n, i, d) <=> \E k \in DOMAIN s : P(s[k])
    BY DEF InStack
<1>5. OnceInStack(t, n, i, d) <=> \A k, l \in DOMAIN t : P(t[k]) /\ P(t[l]) => k = l
    BY DEF OnceInStack
<1>6. OnceInStack(s, n, i, d) <=> \A k, l \in DOMAIN s : P(s[k]) /\ P(s[l]) => k = l
    BY DEF OnceInStack
<1>7. P(x) <=> Has(x, n, i, d)
    OBVIOUS
<1> HIDE DEF P
<1>8. \A k \in DOMAIN t : k = 1 \/ (k - 1 \in DOMAIN s /\ t[k] = s[k - 1])
    <2> TAKE k \in DOMAIN t
    <2>1. CASE k # 1
        <3>1. k - 1 \in DOMAIN s /\ (k - 1) + 1 = k
            BY <1>2, <2>1
        <3>2. t[(k - 1) + 1] = s[k - 1]
            BY <1>1, <3>1
        <3> QED BY <3>1, <3>2
    <2> QED BY <2>1
<1>9. \A k \in DOMAIN s : k + 1 \in DOMAIN t /\ k + 1 # 1 /\ k \in Int
    BY <1>2
<1>10. 1 \in DOMAIN t
    BY <1>2
<1>11. InStack(t, n, i, d) <=> InStack(s, n, i, d) \/ P(x)
    BY <1>1, <1>3, <1>4, <1>8, <1>9, <1>10
<1>12. ASSUME OnceInStack(t, n, i, d)
       PROVE  OnceInStack(s, n, i, d) /\ ~(InStack(s, n, i, d) /\ P(x))
    <2>1. ASSUME NEW k \in DOMAIN s, NEW l \in DOMAIN s, P(s[k]), P(s[l]) PROVE k = l
        <3>1. P(t[k + 1]) /\ P(t[l + 1])
            BY <1>1, <2>1
        <3>2. k + 1 = l + 1
            BY <1>5, <1>9, <1>12, <3>1
        <3> QED BY <1>9, <3>2
    <2>2. ASSUME NEW k \in DOMAIN s, P(s[k]), P(x) PROVE FALSE
        <3>1. P(t[k + 1]) /\ P(t[1])
            BY <1>1, <2>2
        <3>2. k + 1 = 1
            BY <1>5, <1>9, <1>10, <1>12, <3>1
        <3> QED BY <1>9, <3>2
    <2> QED BY <1>4, <1>6, <2>1, <2>2
<1>13. ASSUME OnceInStack(s, n, i, d), ~(InStack(s, n, i, d) /\ P(x))
       PROVE  OnceInStack(t, n, i, d)
    <2>1. ASSUME NEW k \in DOMAIN t, NEW l \in DOMAIN t, P(t[k]), P(t[l]) PROVE k = l
        <3>1. CASE k = 1 /\ l = 1
            BY <3>1
        <3>2. CASE k = 1 /\ l # 1
            BY <1>1, <1>4, <1>8, <1>13, <2>1, <3>2
        <3>3. CASE k # 1 /\ l = 1
            BY <1>1, <1>4, <1>8, <1>13, <2>1, <3>3
        <3>4. CASE k # 1 /\ l # 1
            <4>1. k - 1 = l - 1
                BY <1>6, <1>8, <1>13, <2>1, <3>4
            <4> QED BY <1>2, <4>1
        <3> QED BY <3>1, <3>2, <3>3, <3>4
    <2> QED BY <1>5, <2>1
<1> QED BY <1>7, <1>11, <1>12, <1>13 DEF t

(* The entries of a node but one.                                           *)
Other(entries, index) == [x \in DOMAIN entries \ {index} |-> entries[x]]

(* What the entries of a node hold, one of them set apart, ...              *)
LEMMA EntrySplit ==
    ASSUME NEW entries, NEW index \in DOMAIN entries, NEW i, NEW d
    PROVE  /\ InEntries(entries, i, d) <=>
                 InEntries(Other(entries, index), i, d) \/ Holds(entries[index], i, d)
           /\ OnceInEntries(entries, i, d) <=>
                 /\ OnceInEntries(Other(entries, index), i, d)
                 /\ ~(InEntries(Other(entries, index), i, d) /\ Holds(entries[index], i, d))
<1> DEFINE B == Other(entries, index)
<1>1. DOMAIN B = DOMAIN entries \ {index} /\ \A x \in DOMAIN B : B[x] = entries[x]
    BY DEF Other
<1> HIDE DEF B
<1>2. InEntries(entries, i, d) <=> InEntries(B, i, d) \/ Holds(entries[index], i, d)
    BY <1>1 DEF InEntries
<1>3. OnceInEntries(entries, i, d) =>
          OnceInEntries(B, i, d) /\ ~(InEntries(B, i, d) /\ Holds(entries[index], i, d))
    BY <1>1 DEF InEntries, OnceInEntries
<1>4. OnceInEntries(B, i, d) /\ ~(InEntries(B, i, d) /\ Holds(entries[index], i, d)) =>
          OnceInEntries(entries, i, d)
    BY <1>1 DEF InEntries, OnceInEntries
<1> QED BY <1>2, <1>3, <1>4 DEF B

(* ... or when there is none at the index.                                  *)
LEMMA OtherAlone ==
    ASSUME NEW entries, NEW index, index \notin DOMAIN entries, NEW i, NEW d
    PROVE  /\ InEntries(entries, i, d) <=> InEntries(Other(entries, index), i, d)
           /\ OnceInEntries(entries, i, d) <=> OnceInEntries(Other(entries, index), i, d)
BY DEF Other, InEntries, OnceInEntries

(* The records that hold the data of a run *)
Frame(s, w, ks, a, D) ==
    [stack |-> s, waiting |-> w, keys |-> ks, arrived |-> a, dropped |-> D]

Shape(f) == f = Frame(f.stack, f.waiting, f.keys, f.arrived, f.dropped)

(* The fields of a frame.                                                   *)
LEMMA FrameParts ==
    ASSUME NEW s, NEW w, NEW ks, NEW a, NEW D
    PROVE  /\ Frame(s, w, ks, a, D).stack = s /\ Frame(s, w, ks, a, D).waiting = w
           /\ Frame(s, w, ks, a, D).keys = ks /\ Frame(s, w, ks, a, D).arrived = a
           /\ Frame(s, w, ks, a, D).dropped = D
           /\ Shape(Frame(s, w, ks, a, D))
           /\ \A t : [Frame(s, w, ks, a, D) EXCEPT !.stack = t] = Frame(t, w, ks, a, D)
           /\ \A t : [Frame(s, w, ks, a, D) EXCEPT !.dropped = t] = Frame(s, w, ks, a, t)
BY DEF Frame, Shape

(* The types of a frame.                                                    *)
FrameOK(f) ==
    /\ Shape(f)
    /\ f.stack \in Seq(Item)
    /\ IsWaiting(f.waiting, f.keys)
    /\ f.arrived \in [Nodes -> [Inputs -> Seq(Made)]]
    /\ f.dropped \subseteq [to : Nodes, input : Inputs, datum : Made]

(* Push, DropIs, ArriveIs and WithEntriesIs: the assignments to the         *)
(* execution data, as frames.                                               *)
LEMMA PushIs ==
    ASSUME NEW f, Shape(f), NEW n, NEW main
    PROVE  Push(f, n, main) =
               Frame(<<[node |-> n, disabled |-> FALSE, main |-> main]>> \o f.stack,
                     f.waiting, f.keys, f.arrived, f.dropped)
<1> DEFINE t == <<[node |-> n, disabled |-> FALSE, main |-> main]>> \o f.stack
<1>1. Push(f, n, main) = [f EXCEPT !.stack = t]
    BY Zenon DEF Push
<1> HIDE DEF t
<1>2. f = Frame(f.stack, f.waiting, f.keys, f.arrived, f.dropped)
    BY DEF Shape
<1>3. [f EXCEPT !.stack = t] = Frame(t, f.waiting, f.keys, f.arrived, f.dropped)
    BY <1>2, FrameParts
<1> QED BY <1>1, <1>3 DEF t

(* The data of an entry that a new one replaces is lost.                    *)
LEMMA DropIs ==
    ASSUME NEW f, Shape(f), NEW lost
    PROVE  [f EXCEPT !.dropped = @ \cup lost] =
               Frame(f.stack, f.waiting, f.keys, f.arrived, f.dropped \cup lost)
<1> DEFINE t == f.dropped \cup lost
<1>1. [f EXCEPT !.dropped = @ \cup lost] = [f EXCEPT !.dropped = t]
    BY Zenon
<1> HIDE DEF t
<1>2. f = Frame(f.stack, f.waiting, f.keys, f.arrived, f.dropped)
    BY DEF Shape
<1>3. [f EXCEPT !.dropped = t] = Frame(f.stack, f.waiting, f.keys, f.arrived, t)
    BY <1>2, FrameParts
<1> QED BY <1>1, <1>3 DEF t

(* A datum is passed to an input of a node.                                 *)
PassTo(f, n, i, d) == [f EXCEPT !.arrived[n][i] = Append(@, d)]
WithArrived(a, n, i, d) == [a EXCEPT ![n][i] = Append(a[n][i], d)]

(* A datum is passed to an input.                                           *)
LEMMA ArriveIs ==
    ASSUME NEW f, Shape(f), NEW n, NEW i, NEW d
    PROVE  PassTo(f, n, i, d) =
               Frame(f.stack, f.waiting, f.keys, WithArrived(f.arrived, n, i, d), f.dropped)
<1> DEFINE t == Append(f.arrived[n][i], d)
<1>1. PassTo(f, n, i, d) = [f EXCEPT !.arrived[n][i] = t]
    BY Zenon DEF PassTo
<1> HIDE DEF t
<1>2. f = Frame(f.stack, f.waiting, f.keys, f.arrived, f.dropped)
    BY DEF Shape
<1>3. [f EXCEPT !.arrived[n][i] = t] =
          Frame(f.stack, f.waiting, f.keys, [f.arrived EXCEPT ![n][i] = t], f.dropped)
    BY <1>2 DEF Frame
<1> QED BY <1>1, <1>3 DEF t, WithArrived

(* The keys once the entries of a node are what they are.                   *)
KeysWith(nodes, n, entries) ==
    IF DOMAIN entries = {} THEN Without(nodes, n)
    ELSE IF n \in Range(nodes) THEN nodes ELSE Append(nodes, n)

(* The entries of a node are replaced, and its key with them.               *)
LEMMA WithEntriesIs ==
    ASSUME NEW f, Shape(f), NEW n, NEW entries
    PROVE  WithEntries(f, n, entries) =
               Frame(f.stack, [f.waiting EXCEPT ![n] = entries],
                     KeysWith(f.keys, n, entries), f.arrived, f.dropped)
<1> DEFINE t == KeysWith(f.keys, n, entries)
<1>1. WithEntries(f, n, entries) = [f EXCEPT !.waiting[n] = entries, !.keys = t]
    BY Zenon DEF WithEntries, KeysWith
<1> HIDE DEF t
<1>2. f = Frame(f.stack, f.waiting, f.keys, f.arrived, f.dropped)
    BY DEF Shape
<1>3. [f EXCEPT !.waiting[n] = entries] =
          Frame(f.stack, [f.waiting EXCEPT ![n] = entries], f.keys, f.arrived, f.dropped)
    BY <1>2 DEF Frame
<1> DEFINE u == [f.waiting EXCEPT ![n] = entries]
<1> HIDE DEF u
<1>4. [Frame(f.stack, u, f.keys, f.arrived, f.dropped) EXCEPT !.keys = t] =
          Frame(f.stack, u, t, f.arrived, f.dropped)
    BY DEF Frame
<1>5. [f EXCEPT !.waiting[n] = entries, !.keys = t] = [[f EXCEPT !.waiting[n] = entries] EXCEPT !.keys = t]
    OBVIOUS
<1> QED BY <1>1, <1>3, <1>4, <1>5 DEF t, u

(* The keys remain those of the nodes that have an entry.                   *)
LEMMA KeysFollow ==
    ASSUME NEW w, NEW nodes, IsWaiting(w, nodes), NEW n \in Nodes, NEW entries,
           IsFiniteSet(DOMAIN entries), DOMAIN entries \subseteq Nat,
           \A x \in DOMAIN entries : IsEntry(n, entries[x])
    PROVE  /\ IsWaiting([w EXCEPT ![n] = entries], KeysWith(nodes, n, entries))
           /\ Range(KeysWith(nodes, n, entries)) \subseteq Range(nodes) \cup {n}
<1> DEFINE v == [w EXCEPT ![n] = entries]
           ks == KeysWith(nodes, n, entries)
<1>1. DOMAIN v = Nodes /\ v[n] = entries /\ \A m \in Nodes \ {n} : v[m] = w[m]
    BY DEF IsWaiting
<1>2. nodes \in Seq(Nodes) /\ IsInjective(nodes) /\ Range(nodes) = {m \in Nodes : DOMAIN w[m] # {}}
    BY DEF IsWaiting
<1> HIDE DEF v
<1>3. ks \in Seq(Nodes) /\ IsInjective(ks) /\ Range(ks) = {m \in Nodes : DOMAIN v[m] # {}}
      /\ Range(ks) \subseteq Range(nodes) \cup {n}
    <2>1. CASE DOMAIN entries = {}
        <3>1. ks = Without(nodes, n)
            BY <2>1 DEF KeysWith
        <3>2. ks \in Seq(Nodes) /\ IsInjective(ks) /\ Range(ks) = Range(nodes) \ {n}
            BY <1>2, <3>1, WithoutRemoves
        <3> QED BY <1>1, <1>2, <2>1, <3>2
    <2>2. CASE DOMAIN entries # {} /\ n \in Range(nodes)
        <3>1. ks = nodes
            BY <2>2 DEF KeysWith
        <3> QED BY <1>1, <1>2, <2>2, <3>1
    <2>3. CASE DOMAIN entries # {} /\ n \notin Range(nodes)
        <3>1. ks = Append(nodes, n)
            BY <2>3 DEF KeysWith
        <3>2. ks \in Seq(Nodes) /\ Range(ks) = Range(nodes) \cup {n} /\ IsInjective(ks)
            BY <1>2, <2>3, <3>1, AtTheEnd, AppendKeepsApart
        <3> QED BY <1>1, <1>2, <2>3, <3>2
    <2> QED BY <2>1, <2>2, <2>3
<1> HIDE DEF ks
<1>4. \A m \in Nodes :
          /\ IsFiniteSet(DOMAIN v[m]) /\ DOMAIN v[m] \subseteq Nat
          /\ \A x \in DOMAIN v[m] : IsEntry(m, v[m][x])
    BY <1>1 DEF IsWaiting
<1>5. IsWaiting(v, ks)
    BY <1>1, <1>3, <1>4 DEF IsWaiting
<1> QED BY <1>3, <1>5 DEF v, ks

-------------------------------------------------------------------------------
(* addNodeToBeExecuted: what waits for a node with several inputs           *)

(* A complete entry as an item, and the entries of a node with one filled.  *)
ItemOf(n, main) == [node |-> n, disabled |-> FALSE, main |-> main]
Filled(entries, index, main) ==
    [x \in DOMAIN entries \cup {index} |-> IF x = index THEN main ELSE entries[x]]

(* What AddToWaiting makes of a frame: the datum gets into one of the      *)
(* entries, and what was in the place of a new one is lost.                *)
Added(f, n, index, main, lost) ==
    IF Missing \in Range(main)
    THEN Frame(f.stack, [f.waiting EXCEPT ![n] = Filled(f.waiting[n], index, main)],
               KeysWith(f.keys, n, Filled(f.waiting[n], index, main)), f.arrived,
               f.dropped \cup lost)
    ELSE Frame(<<ItemOf(n, main)>> \o f.stack,
               [f.waiting EXCEPT ![n] = Other(f.waiting[n], index)],
               KeysWith(f.keys, n, Other(f.waiting[n], index)), f.arrived, f.dropped \cup lost)

(* The rest of the new entry, and what is lost, were in the old one.       *)
Splits(entries, index, main, lost, n, input) ==
    \A i \in Inputs, d \in Made :
        LET B == Other(entries, index)
            O == i # input /\ Holds(main, i, d)
            L == InDropped(lost, n, i, d)
        IN  /\ InEntries(entries, i, d) <=> InEntries(B, i, d) \/ O \/ L
            /\ OnceInEntries(entries, i, d) <=>
                  OnceInEntries(B, i, d) /\ ~(InEntries(B, i, d) /\ (O \/ L))
            /\ ~(O /\ L)

(* A filled entry is the only one that changes.                             *)
LEMMA FilledOther ==
    ASSUME NEW entries, NEW index, NEW main
    PROVE  /\ Other(Filled(entries, index, main), index) = Other(entries, index)
           /\ index \in DOMAIN Filled(entries, index, main)
           /\ Filled(entries, index, main)[index] = main
           /\ \A x \in DOMAIN Filled(entries, index, main) :
                 x = index \/ (x \in DOMAIN entries /\ Filled(entries, index, main)[x] = entries[x])
<1> DEFINE F == Filled(entries, index, main)
<1>1. DOMAIN F = DOMAIN entries \cup {index} /\ F[index] = main
      /\ \A x \in DOMAIN F : x # index => F[x] = entries[x]
    BY DEF Filled
<1>2. \A x \in DOMAIN F : x = index \/ (x \in DOMAIN entries /\ F[x] = entries[x])
    BY <1>1
<1> HIDE DEF F
<1>3. Other(F, index) = Other(entries, index)
    <2>1. DOMAIN F \ {index} = DOMAIN entries \ {index}
        BY <1>1
    <2>2. \A x \in DOMAIN F \ {index} : F[x] = entries[x]
        BY <1>1
    <2> QED BY <2>1, <2>2 DEF Other
<1> QED BY <1>1, <1>2, <1>3 DEF F

(* What addNodeToBeExecuted makes of a frame, for a node with several       *)
(* inputs.                                                                  *)
LEMMA AddToWaitingIs ==
    ASSUME NEW f, FrameOK(f), NEW n \in Nodes, NEW input \in Inputs, NEW d \in Made,
           numberOfInputs(n) \in Inputs, input \in 1 .. numberOfInputs(n)
    PROVE  \E index \in Nat, main \in [1 .. numberOfInputs(n) -> Made \cup {Missing}],
             lost \in SUBSET [to : {n}, input : Inputs, datum : Made] :
               /\ AddToWaiting(f, n, input, d) = Added(f, n, index, main, lost)
               /\ main[input] = d
               /\ Splits(f.waiting[n], index, main, lost, n, input)
<1> DEFINE N == numberOfInputs(n)
           entries == f.waiting[n]
           lacking == {i \in DOMAIN entries : entries[i][input] = Missing}
           index == IF lacking = {} THEN NewIndex(entries) ELSE Min(lacking)
           old == IF lacking = {} THEN [i \in 1 .. N |-> Missing] ELSE entries[index]
           main == [old EXCEPT ![input] = d]
           lost == IF lacking = {} /\ index \in DOMAIN entries
                   THEN {[to |-> n, input |-> i, datum |-> entries[index][i]] :
                             i \in {j \in Inputs : j <= N /\ entries[index][j] # Missing}}
                   ELSE {}
           g == Frame(f.stack, f.waiting, f.keys, f.arrived, f.dropped \cup lost)
           filled == Filled(entries, index, main)
<1>a. N \in Nat /\ N \in Inputs
    BY InputsAreNumbers
<1>1. /\ IsFiniteSet(DOMAIN entries) /\ DOMAIN entries \subseteq Nat
      /\ \A x \in DOMAIN entries : entries[x] \in [1 .. N -> Made \cup {Missing}]
    BY DEF FrameOK, IsWaiting, IsEntry
<1>2. Shape(f) /\ Shape(g) /\ g.stack = f.stack /\ g.waiting = f.waiting /\ g.keys = f.keys
      /\ g.arrived = f.arrived /\ g.dropped = f.dropped \cup lost
    <2> HIDE DEF lost
    <2> QED BY FrameParts DEF FrameOK
<1>3. AddToWaiting(f, n, input, d) =
          IF Missing \in Range(main) THEN WithEntries(g, n, filled)
          ELSE Push(Completed(g, n, filled, index), n, main)
    <2>1. [f EXCEPT !.dropped = @ \cup lost] = g
        <3> HIDE DEF lost
        <3> QED BY <1>2, DropIs
    <2>2. AddToWaiting(f, n, input, d) =
            LET h == [f EXCEPT !.dropped = @ \cup lost]
            IN  IF Missing \in Range(main) THEN WithEntries(h, n, filled)
                ELSE Push(Completed(h, n, filled, index), n, main)
        BY Zenon DEF AddToWaiting, Filled
    <2> HIDE DEF g, lost, main, filled, index
    <2> QED BY <2>1, <2>2
<1>4. index \in Nat /\ (lacking # {} => index \in DOMAIN entries /\ entries[index][input] = Missing)
    <2>1. lacking \subseteq Nat
        BY <1>1
    <2>2. lacking # {} => Min(lacking) \in lacking
        <3> HIDE DEF lacking
        <3> QED BY <2>1, MinIsLeast
    <2>3. NewIndex(entries) \in Nat
        BY <1>1, FS_CardinalityType DEF NewIndex
    <2> QED BY <2>1, <2>2, <2>3
<1>5. old \in [1 .. N -> Made \cup {Missing}] /\ old[input] = Missing
    <2>1. CASE lacking = {}
        BY <2>1
    <2>2. CASE lacking # {}
        BY <1>1, <1>4, <2>2
    <2> QED BY <2>1, <2>2
<1>6. main \in [1 .. N -> Made \cup {Missing}] /\ main[input] = d
      /\ \A i \in 1 .. N : i # input => main[i] = old[i]
    <2> HIDE DEF old
    <2> QED BY <1>5
<1>7. lost \subseteq [to : {n}, input : Inputs, datum : Made]
    <2>1. ASSUME NEW i \in Inputs, i <= N, index \in DOMAIN entries, entries[index][i] # Missing
          PROVE  entries[index][i] \in Made
        <3>1. i \in 1 .. N
            BY <1>a, <2>1, InputsAreNumbers
        <3> HIDE DEF index
        <3> QED BY <1>1, <2>1, <3>1
    <2> HIDE DEF index, lacking
    <2> QED BY <2>1
<1>8. AddToWaiting(f, n, input, d) = Added(f, n, index, main, lost)
    <2>1. WithEntries(g, n, filled) =
              Frame(f.stack, [f.waiting EXCEPT ![n] = filled], KeysWith(f.keys, n, filled),
                    f.arrived, f.dropped \cup lost)
        <3> HIDE DEF g, lost, filled
        <3> QED BY <1>2, WithEntriesIs
    <2> DEFINE B == Other(entries, index)
               h == Frame(f.stack, [f.waiting EXCEPT ![n] = B], KeysWith(f.keys, n, B),
                          f.arrived, f.dropped \cup lost)
    <2>2. Completed(g, n, filled, index) = h
        <3>1. Completed(g, n, filled, index) = WithEntries(g, n, B)
            <4>1. Completed(g, n, filled, index) = WithEntries(g, n, Other(filled, index))
                BY DEF Completed, Other
            <4>2. Other(filled, index) = B
                BY FilledOther
            <4> HIDE DEF g, filled, index, B
            <4> QED BY <4>1, <4>2
        <3> HIDE DEF g, lost, B, filled, index
        <3> QED BY <1>2, <3>1, WithEntriesIs
    <2>3. Push(h, n, main) =
              Frame(<<ItemOf(n, main)>> \o f.stack, [f.waiting EXCEPT ![n] = B],
                    KeysWith(f.keys, n, B), f.arrived, f.dropped \cup lost)
        <3> HIDE DEF lost, B, main
        <3>1. Shape(h) /\ h.stack = f.stack /\ h.waiting = [f.waiting EXCEPT ![n] = B]
              /\ h.keys = KeysWith(f.keys, n, B)
              /\ h.arrived = f.arrived /\ h.dropped = f.dropped \cup lost
            BY FrameParts
        <3> HIDE DEF h
        <3> QED BY <3>1, PushIs DEF ItemOf
    <2> HIDE DEF g, lost, main, filled, h
    <2>4. AddToWaiting(f, n, input, d) =
              IF Missing \in Range(main)
              THEN Frame(f.stack, [f.waiting EXCEPT ![n] = filled], KeysWith(f.keys, n, filled),
                         f.arrived, f.dropped \cup lost)
              ELSE Frame(<<ItemOf(n, main)>> \o f.stack, [f.waiting EXCEPT ![n] = B],
                         KeysWith(f.keys, n, B), f.arrived, f.dropped \cup lost)
        BY <1>3, <2>1, <2>2, <2>3
    <2> HIDE DEF index
    <2> QED BY <2>4, Zenon DEF Added, filled
<1>9. Splits(entries, index, main, lost, n, input)
    <2> SUFFICES ASSUME NEW i \in Inputs, NEW c \in Made
                 PROVE  LET B == Other(entries, index)
                            O == i # input /\ Holds(main, i, c)
                            L == InDropped(lost, n, i, c)
                        IN  /\ InEntries(entries, i, c) <=> InEntries(B, i, c) \/ O \/ L
                            /\ OnceInEntries(entries, i, c) <=>
                                  OnceInEntries(B, i, c) /\ ~(InEntries(B, i, c) /\ (O \/ L))
                            /\ ~(O /\ L)
        BY DEF Splits
    <2>0. c # Missing
        BY EmptyIsNoDatum
    <2> DEFINE B == Other(entries, index)
               O == i # input /\ Holds(main, i, c)
               L == InDropped(lost, n, i, c)
    <2>1. O <=> Holds(old, i, c)
        <3>1. DOMAIN main = 1 .. N /\ DOMAIN old = 1 .. N
            <4> HIDE DEF old, main
            <4> QED BY <1>5, <1>6
        <3> HIDE DEF old, main
        <3> QED BY <1>5, <1>6, <2>0, <3>1 DEF Holds
    <2>2. CASE lacking # {}
        <3>1. old = entries[index] /\ index \in DOMAIN entries
            BY <1>4, <2>2
        <3>2. ~L
            BY <2>2 DEF InDropped
        <3> HIDE DEF old, lost, index, O, L, lacking, main
        <3> QED BY <2>1, <3>1, <3>2, EntrySplit DEF O, L, B
    <2>3. CASE lacking = {}
        <3>1. ~Holds(old, i, c)
            BY <2>0, <2>3 DEF Holds
        <3>2. CASE index \in DOMAIN entries
            <4>1. L <=> \E j \in Inputs : /\ j <= N /\ entries[index][j] # Missing
                                          /\ j = i /\ entries[index][j] = c
                <5>1. lost = {[to |-> n, input |-> j, datum |-> entries[index][j]] :
                                 j \in {k \in Inputs : k <= N /\ entries[index][k] # Missing}}
                    BY <2>3, <3>2
                <5> HIDE DEF lost, index, entries
                <5> QED BY <5>1 DEF InDropped
            <4>2. L <=> i <= N /\ entries[index][i] = c
                <5> HIDE DEF L, index, entries
                <5> QED BY <2>0, <4>1
            <4>3. i <= N <=> i \in 1 .. N
                BY <1>a, InputsAreNumbers
            <4>4. DOMAIN entries[index] = 1 .. N
                <5> HIDE DEF index
                <5> QED BY <1>1, <3>2
            <4>5. L <=> Holds(entries[index], i, c)
                <5> HIDE DEF L, index, entries
                <5> QED BY <4>2, <4>3, <4>4 DEF Holds
            <4> HIDE DEF old, lost, index, O, L, lacking, main
            <4> QED BY <2>1, <3>1, <3>2, <4>5, EntrySplit DEF O, L, B
        <3>3. CASE index \notin DOMAIN entries
            <4>1. ~L
                <5>1. lost = {}
                    BY <3>3
                <5> HIDE DEF lost
                <5> QED BY <5>1 DEF InDropped
            <4> HIDE DEF old, lost, index, O, L, lacking, main
            <4> QED BY <2>1, <3>1, <3>3, <4>1, OtherAlone DEF O, L, B
        <3> QED BY <3>2, <3>3
    <2> QED BY <2>2, <2>3
<1> HIDE DEF index, main, lost
<1> QED BY <1>4, <1>6, <1>7, <1>8, <1>9

(* What a step may add to the data of a run: only nodes of T get data, and *)
(* what is put on the stack for them lacks none.                           *)
Grown(f, g, T) ==
    /\ Range(g.keys) \subseteq Range(f.keys) \cup T
    /\ \A x \in Range(g.stack) : x \in Range(f.stack) \/ (x.node \in T /\ Empty \notin Range(x.main))
    /\ \A n \in Nodes \ T : g.arrived[n] = f.arrived[n]

(* Steps that each only add data add only data together.                    *)
LEMMA GrownOn ==
    ASSUME NEW f, NEW g, NEW h, NEW T, NEW U, Grown(f, g, T), Grown(g, h, T), T \subseteq U
    PROVE  Grown(f, h, U)
BY DEF Grown

(* A datum d has been added to what arrived at an input. *)
OneArrived(a, b, n, i, d) ==
    /\ b \in [Nodes -> [Inputs -> Seq(Made)]]
    /\ \A m \in Nodes, j \in Inputs :
           Range(b[m][j]) = IF m = n /\ j = i THEN Range(a[m][j]) \cup {d} ELSE Range(a[m][j])
    /\ \A m \in Nodes \ {n} : b[m] = a[m]

(* What has arrived when one datum is passed.                               *)
LEMMA Arrived ==
    ASSUME NEW a, a \in [Nodes -> [Inputs -> Seq(Made)]], NEW n \in Nodes, NEW i \in Inputs, NEW d \in Made
    PROVE  OneArrived(a, WithArrived(a, n, i, d), n, i, d)
<1> DEFINE t == Append(a[n][i], d)
           b == [a EXCEPT ![n][i] = t]
<1>1. t \in Seq(Made) /\ Range(t) = Range(a[n][i]) \cup {d}
    BY AtTheEnd
<1> HIDE DEF t
<1>2. b \in [Nodes -> [Inputs -> Seq(Made)]] /\ b[n][i] = t
      /\ (\A m \in Nodes \ {n} : b[m] = a[m]) /\ (\A j \in Inputs \ {i} : b[n][j] = a[n][j])
    BY <1>1
<1> HIDE DEF b
<1>3. \A m \in Nodes, j \in Inputs :
          Range(b[m][j]) = IF m = n /\ j = i THEN Range(a[m][j]) \cup {d} ELSE Range(a[m][j])
    BY <1>1, <1>2
<1>4. WithArrived(a, n, i, d) = b
    BY DEF b, t, WithArrived
<1> QED BY <1>2, <1>3, <1>4 DEF OneArrived

(* What the entries of a node hold when one has been filled.                *)
LEMMA FilledSplit ==
    ASSUME NEW entries, NEW index, NEW main, NEW i, NEW d
    PROVE  /\ InEntries(Filled(entries, index, main), i, d) <=>
                 InEntries(Other(entries, index), i, d) \/ Holds(main, i, d)
           /\ OnceInEntries(Filled(entries, index, main), i, d) <=>
                 /\ OnceInEntries(Other(entries, index), i, d)
                 /\ ~(InEntries(Other(entries, index), i, d) /\ Holds(main, i, d))
<1> DEFINE F == Filled(entries, index, main)
<1>1. Other(F, index) = Other(entries, index) /\ index \in DOMAIN F /\ F[index] = main
    BY FilledOther
<1> HIDE DEF F
<1>2. /\ InEntries(F, i, d) <=> InEntries(Other(F, index), i, d) \/ Holds(F[index], i, d)
      /\ OnceInEntries(F, i, d) <=>
            /\ OnceInEntries(Other(F, index), i, d)
            /\ ~(InEntries(Other(F, index), i, d) /\ Holds(F[index], i, d))
    BY <1>1, EntrySplit
<1> QED BY <1>1, <1>2 DEF F

(* The entries of a node with a new one, or without one, are entries.      *)
LEMMA EntriesStay ==
    ASSUME NEW w, NEW nodes, IsWaiting(w, nodes), NEW n \in Nodes, NEW index \in Nat, NEW main
    PROVE  /\ IsFiniteSet(DOMAIN Filled(w[n], index, main)) /\ DOMAIN Filled(w[n], index, main) \subseteq Nat
           /\ IsFiniteSet(DOMAIN Other(w[n], index)) /\ DOMAIN Other(w[n], index) \subseteq Nat
           /\ \A x \in DOMAIN Other(w[n], index) : IsEntry(n, Other(w[n], index)[x])
           /\ IsEntry(n, main) =>
                 \A x \in DOMAIN Filled(w[n], index, main) : IsEntry(n, Filled(w[n], index, main)[x])
<1> DEFINE entries == w[n]
           F == Filled(entries, index, main)
           B == Other(entries, index)
<1>1. IsFiniteSet(DOMAIN entries) /\ DOMAIN entries \subseteq Nat
      /\ \A x \in DOMAIN entries : IsEntry(n, entries[x])
    BY DEF IsWaiting
<1>2. DOMAIN F = DOMAIN entries \cup {index} /\ DOMAIN B = DOMAIN entries \ {index}
      /\ \A x \in DOMAIN B : B[x] = entries[x]
    BY DEF Filled, Other
<1>3. \A x \in DOMAIN F : F[x] = main \/ (x \in DOMAIN entries /\ F[x] = entries[x])
    BY FilledOther
<1> HIDE DEF entries, F, B
<1>4. IsFiniteSet(DOMAIN F) /\ IsFiniteSet(DOMAIN B)
    <2>1. IsFiniteSet(DOMAIN entries \cup {index})
        BY <1>1, FS_AddElement
    <2>2. IsFiniteSet(DOMAIN entries \ {index})
        BY <1>1, FS_RemoveElement
    <2>3. DOMAIN F = DOMAIN entries \cup {index} /\ DOMAIN B = DOMAIN entries \ {index}
        BY <1>2
    <2> QED BY <2>1, <2>2, <2>3
<1>5. DOMAIN F \subseteq Nat /\ DOMAIN B \subseteq Nat
    BY <1>1, <1>2
<1>6. \A x \in DOMAIN B : IsEntry(n, B[x])
    BY <1>1, <1>2
<1>7. IsEntry(n, main) => \A x \in DOMAIN F : IsEntry(n, F[x])
    BY <1>1, <1>3
<1> QED BY <1>4, <1>5, <1>6, <1>7 DEF F, B, entries

(* A complete entry makes an item, which holds what the entry held.         *)
LEMMA ItemOfIs ==
    ASSUME NEW n \in Nodes, NEW k \in Inputs, NEW main, main \in [1 .. k -> Made \cup {Empty}]
    PROVE  /\ ItemOf(n, main) \in Item
           /\ \A m, i, d : Has(ItemOf(n, main), m, i, d) <=> m = n /\ Holds(main, i, d)
<1>1. main \in [1 .. k -> Datum \cup {Empty}]
    BY DEF Datum
<1>2. ItemOf(n, main) \in [node : Nodes, disabled : BOOLEAN, main : [1 .. k -> Datum \cup {Empty}]]
    BY <1>1 DEF ItemOf
<1>3. ItemOf(n, main) \in Item
    BY <1>2 DEF Item
<1> QED BY <1>3 DEF ItemOf, Has, Holds

(* A datum c has arrived at an input, and is not in its place yet. *)
Arrives(f, h, n, input, c) ==
    /\ Shape(h) /\ h.stack = f.stack /\ h.waiting = f.waiting /\ h.keys = f.keys
    /\ h.dropped = f.dropped
    /\ OneArrived(f.arrived, h.arrived, n, input, c)

(* What is lost was to reach the node whose entry was replaced.             *)
LEMMA DroppedAt ==
    ASSUME NEW n, NEW lost, lost \subseteq [to : {n}, input : Inputs, datum : Made]
    PROVE  \A m, i, d : InDropped(lost, m, i, d) => m = n
<1> SUFFICES ASSUME NEW m, NEW i, NEW d, [to |-> m, input |-> i, datum |-> d] \in lost PROVE m = n
    BY DEF InDropped
<1>1. [to |-> m, input |-> i, datum |-> d] \in [to : {n}, input : Inputs, datum : Made]
    OBVIOUS
<1>2. [to |-> m, input |-> i, datum |-> d].to \in {n}
    BY <1>1
<1> QED BY <1>2

(* A datum passed to a node with several inputs is in one place, and every  *)
(* other datum where it was.                                                *)
LEMMA AddedKeeps ==
    ASSUME NEW f, FrameOK(f), NEW h, NEW S, AllKept(f, S),
           NEW n \in Nodes, NEW input \in Inputs, NEW c \in Made,
           c \notin Range(f.arrived[n][input]), Arrives(f, h, n, input, c),
           numberOfInputs(n) \in Inputs, input \in 1 .. numberOfInputs(n),
           NEW index \in Nat, NEW main \in [1 .. numberOfInputs(n) -> Made \cup {Missing}], NEW lost,
           main[input] = c, lost \subseteq [to : {n}, input : Inputs, datum : Made],
           Splits(f.waiting[n], index, main, lost, n, input)
    PROVE  LET g == Added(h, n, index, main, lost)
           IN  FrameOK(g) /\ g.arrived = h.arrived /\ Grown(f, g, {n}) /\ AllKept(g, S)
<1> DEFINE g == Added(h, n, index, main, lost)
           B == Other(f.waiting[n], index)
           F == Filled(f.waiting[n], index, main)
<1>0. /\ f.stack \in Seq(Item) /\ IsWaiting(f.waiting, f.keys)
      /\ f.dropped \subseteq [to : Nodes, input : Inputs, datum : Made]
      /\ f.dropped \cup lost \subseteq [to : Nodes, input : Inputs, datum : Made]
      /\ DOMAIN f.waiting = Nodes
    BY DEF FrameOK, IsWaiting
<1>a. \A m, i, d : InDropped(lost, m, i, d) => m = n
    BY DroppedAt
<1>1. ASSUME NEW m \in Nodes, NEW i \in Inputs, NEW d \in Made
      PROVE  d \in Range(h.arrived[m][i]) <=>
                 d \in Range(f.arrived[m][i]) \/ (m = n /\ i = input /\ d = c)
    BY DEF Arrives, OneArrived
<1>2. ASSUME NEW i \in Inputs, NEW d
      PROVE  Holds(main, i, d) <=> (i = input /\ d = c) \/ (i # input /\ Holds(main, i, d))
    BY DEF Holds
<1>3. CASE Missing \in Range(main)
    <2>1. g = Frame(f.stack, [f.waiting EXCEPT ![n] = F], KeysWith(f.keys, n, F), h.arrived, f.dropped \cup lost)
        BY <1>3, Zenon DEF Added, Arrives
    <2> HIDE DEF g, F
    <2>2. /\ Shape(g) /\ g.stack = f.stack /\ g.waiting = [f.waiting EXCEPT ![n] = F]
          /\ g.keys = KeysWith(f.keys, n, F) /\ g.arrived = h.arrived /\ g.dropped = f.dropped \cup lost
        BY <2>1, FrameParts
    <2>3. IsEntry(n, main)
        BY <1>3 DEF IsEntry
    <2>4. IsWaiting(g.waiting, g.keys) /\ Range(g.keys) \subseteq Range(f.keys) \cup {n}
        <3>1. IsFiniteSet(DOMAIN F) /\ DOMAIN F \subseteq Nat /\ \A x \in DOMAIN F : IsEntry(n, F[x])
            BY <1>0, <2>3, EntriesStay DEF F
        <3>2. /\ IsWaiting([f.waiting EXCEPT ![n] = F], KeysWith(f.keys, n, F))
              /\ Range(KeysWith(f.keys, n, F)) \subseteq Range(f.keys) \cup {n}
            BY <1>0, <3>1, KeysFollow
        <3> QED BY <2>2, <3>2
    <2>5. FrameOK(g)
        BY <1>0, <2>2, <2>4 DEF FrameOK, Arrives, OneArrived
    <2>6. Grown(f, g, {n})
        BY <2>2, <2>4 DEF Grown, Arrives, OneArrived
    <2>7. ASSUME NEW m \in Nodes, NEW i \in Inputs, NEW d \in Made
          PROVE  Kept(g, S, m, i, d)
        <3>1. Kept(f, S, m, i, d)
            BY DEF AllKept
        <3>2. InDropped(g.dropped, m, i, d) <=>
                  InDropped(f.dropped, m, i, d) \/ (m = n /\ InDropped(lost, n, i, d))
            <4>1. InDropped(lost, m, i, d) <=> m = n /\ InDropped(lost, n, i, d)
                BY <1>a
            <4>2. InDropped(g.dropped, m, i, d) <=> InDropped(f.dropped, m, i, d) \/ InDropped(lost, m, i, d)
                BY <2>2 DEF InDropped
            <4> QED BY <4>1, <4>2
        <3>3. g.waiting[n] = F /\ (m # n => g.waiting[m] = f.waiting[m])
            BY <1>0, <2>2
        <3>4. /\ InEntries(F, i, d) <=> InEntries(B, i, d) \/ Holds(main, i, d)
              /\ OnceInEntries(F, i, d) <=>
                    OnceInEntries(B, i, d) /\ ~(InEntries(B, i, d) /\ Holds(main, i, d))
            BY FilledSplit DEF F
        <3>5. LET O == i # input /\ Holds(main, i, d)
                  L == InDropped(lost, n, i, d)
              IN  /\ InEntries(f.waiting[n], i, d) <=> InEntries(B, i, d) \/ O \/ L
                  /\ OnceInEntries(f.waiting[n], i, d) <=>
                        OnceInEntries(B, i, d) /\ ~(InEntries(B, i, d) /\ (O \/ L))
                  /\ ~(O /\ L)
            BY DEF Splits
        <3> HIDE DEF B
        <3>6. CASE m # n
            BY <1>1, <2>2, <3>1, <3>2, <3>3, <3>6 DEF Kept
        <3>7. CASE m = n /\ ~(i = input /\ d = c)
            BY <1>1, <1>2, <2>2, <3>1, <3>2, <3>3, <3>4, <3>5, <3>7 DEF Kept
        <3>8. CASE m = n /\ i = input /\ d = c
            BY <1>1, <1>2, <2>2, <3>1, <3>2, <3>3, <3>4, <3>5, <3>8 DEF Kept
        <3> QED BY <3>6, <3>7, <3>8
    <2> QED BY <2>2, <2>5, <2>6, <2>7 DEF AllKept, g
<1>4. CASE Missing \notin Range(main)
    <2> DEFINE x == ItemOf(n, main)
    <2>1. g = Frame(<<x>> \o f.stack, [f.waiting EXCEPT ![n] = B], KeysWith(f.keys, n, B), h.arrived,
                    f.dropped \cup lost)
        BY <1>4, Zenon DEF Added, Arrives
    <2>a. main \in [1 .. numberOfInputs(n) -> Made]
        BY <1>4 DEF Range
    <2>b. x \in Item /\ (\A m, i, d : Has(x, m, i, d) <=> m = n /\ Holds(main, i, d))
        BY <2>a, ItemOfIs
    <2>c. x.node = n /\ Empty \notin Range(x.main)
        BY <2>a, EmptyIsNoDatum DEF ItemOf, Range
    <2> HIDE DEF g, B, x
    <2>2. /\ Shape(g) /\ g.stack = <<x>> \o f.stack /\ g.waiting = [f.waiting EXCEPT ![n] = B]
          /\ g.keys = KeysWith(f.keys, n, B) /\ g.arrived = h.arrived /\ g.dropped = f.dropped \cup lost
        <3> DEFINE s == <<x>> \o f.stack
                   w == [f.waiting EXCEPT ![n] = B]
                   ks == KeysWith(f.keys, n, B)
                   D == f.dropped \cup lost
        <3> HIDE DEF s, w, ks, D
        <3>1. g = Frame(s, w, ks, h.arrived, D)
            BY <2>1 DEF s, w, ks, D
        <3>2. /\ Shape(g) /\ g.stack = s /\ g.waiting = w /\ g.keys = ks /\ g.arrived = h.arrived
              /\ g.dropped = D
            BY <3>1, FrameParts
        <3> QED BY <3>2 DEF s, w, ks, D
    <2>4. IsWaiting(g.waiting, g.keys) /\ Range(g.keys) \subseteq Range(f.keys) \cup {n}
        <3>1. IsFiniteSet(DOMAIN B) /\ DOMAIN B \subseteq Nat /\ \A y \in DOMAIN B : IsEntry(n, B[y])
            BY <1>0, EntriesStay DEF B
        <3>2. /\ IsWaiting([f.waiting EXCEPT ![n] = B], KeysWith(f.keys, n, B))
              /\ Range(KeysWith(f.keys, n, B)) \subseteq Range(f.keys) \cup {n}
            BY <1>0, <3>1, KeysFollow
        <3> QED BY <2>2, <3>2
    <2>d. g.stack \in Seq(Item) /\ Range(g.stack) = Range(f.stack) \cup {x}
        BY <1>0, <2>2, <2>b, InFront
    <2>5. FrameOK(g)
        BY <1>0, <2>2, <2>4, <2>d DEF FrameOK, Arrives, OneArrived
    <2>6. Grown(f, g, {n})
        BY <2>2, <2>4, <2>d, <2>c DEF Grown, Arrives, OneArrived
    <2>7. ASSUME NEW m \in Nodes, NEW i \in Inputs, NEW d \in Made
          PROVE  Kept(g, S, m, i, d)
        <3>1. Kept(f, S, m, i, d)
            BY DEF AllKept
        <3>2. InDropped(g.dropped, m, i, d) <=>
                  InDropped(f.dropped, m, i, d) \/ (m = n /\ InDropped(lost, n, i, d))
            <4>1. InDropped(lost, m, i, d) <=> m = n /\ InDropped(lost, n, i, d)
                BY <1>a
            <4>2. InDropped(g.dropped, m, i, d) <=> InDropped(f.dropped, m, i, d) \/ InDropped(lost, m, i, d)
                BY <2>2 DEF InDropped
            <4> QED BY <4>1, <4>2
        <3>3. g.waiting[n] = B /\ (m # n => g.waiting[m] = f.waiting[m])
            BY <1>0, <2>2
        <3>4. /\ InStack(g.stack, m, i, d) <=> InStack(f.stack, m, i, d) \/ (m = n /\ Holds(main, i, d))
              /\ OnceInStack(g.stack, m, i, d) <=>
                    OnceInStack(f.stack, m, i, d) /\ ~(InStack(f.stack, m, i, d) /\ m = n /\ Holds(main, i, d))
            BY <1>0, <2>2, <2>b, StackSplit
        <3>5. LET O == i # input /\ Holds(main, i, d)
                  L == InDropped(lost, n, i, d)
              IN  /\ InEntries(f.waiting[n], i, d) <=> InEntries(B, i, d) \/ O \/ L
                  /\ OnceInEntries(f.waiting[n], i, d) <=>
                        OnceInEntries(B, i, d) /\ ~(InEntries(B, i, d) /\ (O \/ L))
                  /\ ~(O /\ L)
            BY DEF Splits, B
        <3>6. CASE m # n
            BY <1>1, <2>2, <3>1, <3>2, <3>3, <3>4, <3>6 DEF Kept
        <3>7. CASE m = n /\ ~(i = input /\ d = c)
            BY <1>1, <1>2, <2>2, <3>1, <3>2, <3>3, <3>4, <3>5, <3>7 DEF Kept
        <3>8. CASE m = n /\ i = input /\ d = c
            BY <1>1, <1>2, <2>2, <3>1, <3>2, <3>3, <3>4, <3>5, <3>8 DEF Kept
        <3> QED BY <3>6, <3>7, <3>8
    <2> QED BY <2>2, <2>5, <2>6, <2>7 DEF AllKept, g
<1> QED BY <1>3, <1>4

(* So it is when the node has one input, and the datum goes on the stack.   *)
LEMMA PushKeeps ==
    ASSUME NEW f, FrameOK(f), NEW h, NEW S, AllKept(f, S),
           NEW n \in Nodes, NEW c \in Made, 1 \in Inputs,
           c \notin Range(f.arrived[n][1]), Arrives(f, h, n, 1, c)
    PROVE  LET g == Push(h, n, <<c>>)
           IN  FrameOK(g) /\ g.arrived = h.arrived /\ Grown(f, g, {n}) /\ AllKept(g, S)
<1> DEFINE g == Push(h, n, <<c>>)
           x == ItemOf(n, <<c>>)
<1>0. /\ f.stack \in Seq(Item) /\ IsWaiting(f.waiting, f.keys)
      /\ f.dropped \subseteq [to : Nodes, input : Inputs, datum : Made]
    BY DEF FrameOK
<1>1. ASSUME NEW m \in Nodes, NEW i \in Inputs, NEW d \in Made
      PROVE  d \in Range(h.arrived[m][i]) <=>
                 d \in Range(f.arrived[m][i]) \/ (m = n /\ i = 1 /\ d = c)
    BY DEF Arrives, OneArrived
<1>2. <<c>> \in [1 .. 1 -> Made] /\ \A i, d : Holds(<<c>>, i, d) <=> i = 1 /\ d = c
    BY DEF Holds
<1>3. x \in Item /\ \A m, i, d : Has(x, m, i, d) <=> m = n /\ i = 1 /\ d = c
    <2>1. <<c>> \in [1 .. 1 -> Made \cup {Empty}]
        BY <1>2
    <2>2. x \in Item /\ \A m, i, d : Has(x, m, i, d) <=> m = n /\ Holds(<<c>>, i, d)
        BY <2>1, ItemOfIs
    <2> QED BY <1>2, <2>2
<1>4. x.node = n /\ Empty \notin Range(x.main)
    <2>1. x.node = n /\ x.main = <<c>>
        BY DEF ItemOf
    <2>2. Range(<<c>>) = {c}
        BY DEF Range
    <2> QED BY <2>1, <2>2, EmptyIsNoDatum
<1>5. g = Frame(<<x>> \o f.stack, f.waiting, f.keys, h.arrived, f.dropped)
    BY PushIs DEF Arrives, ItemOf
<1> HIDE DEF g, x
<1>6. /\ Shape(g) /\ g.stack = <<x>> \o f.stack /\ g.waiting = f.waiting
      /\ g.keys = f.keys /\ g.arrived = h.arrived /\ g.dropped = f.dropped
    <2> DEFINE s == <<x>> \o f.stack
    <2> HIDE DEF s
    <2>1. g = Frame(s, f.waiting, f.keys, h.arrived, f.dropped)
        BY <1>5 DEF s
    <2>2. /\ Shape(g) /\ g.stack = s /\ g.waiting = f.waiting
          /\ g.keys = f.keys /\ g.arrived = h.arrived /\ g.dropped = f.dropped
        BY <2>1, FrameParts
    <2> QED BY <2>2 DEF s
<1>7. g.stack \in Seq(Item) /\ Range(g.stack) = Range(f.stack) \cup {x}
    BY <1>0, <1>3, <1>6, InFront
<1>8. FrameOK(g)
    BY <1>0, <1>6, <1>7 DEF FrameOK, Arrives, OneArrived
<1>9. Grown(f, g, {n})
    BY <1>4, <1>6, <1>7 DEF Grown, Arrives, OneArrived
<1>10. ASSUME NEW m \in Nodes, NEW i \in Inputs, NEW d \in Made
       PROVE  Kept(g, S, m, i, d)
    <2>1. Kept(f, S, m, i, d)
        BY DEF AllKept
    <2>2. /\ InStack(g.stack, m, i, d) <=> InStack(f.stack, m, i, d) \/ (m = n /\ i = 1 /\ d = c)
          /\ OnceInStack(g.stack, m, i, d) <=>
                OnceInStack(f.stack, m, i, d) /\ ~(InStack(f.stack, m, i, d) /\ m = n /\ i = 1 /\ d = c)
        BY <1>0, <1>3, <1>6, StackSplit
    <2> QED BY <1>1, <1>6, <2>1, <2>2 DEF Kept
<1> QED BY <1>6, <1>8, <1>9, <1>10 DEF AllKept, g

(* What one connection does with a datum that has not been passed on yet.   *)
LEMMA Delivered ==
    ASSUME ConfigOK, NEW f, FrameOK(f), NEW S, AllKept(f, S), NEW e \in graph.edges, NEW d \in Made,
           d \notin Range(f.arrived[e.to][e.input])
    PROVE  LET g == addNodeToBeExecuted(f, e, d)
           IN  /\ FrameOK(g) /\ AllKept(g, S) /\ Grown(f, g, {e.to})
               /\ OneArrived(f.arrived, g.arrived, e.to, e.input, d)
<1> DEFINE n == e.to
           input == e.input
           a == WithArrived(f.arrived, n, input, d)
           h == Frame(f.stack, f.waiting, f.keys, a, f.dropped)
           g == addNodeToBeExecuted(f, e, d)
<1>1. n \in Nodes /\ input \in Inputs /\ numberOfInputs(n) \in Inputs /\ input \in 1 .. numberOfInputs(n)
    BY ConfigGraph, InputsOfNode
<1>2. PassTo(f, n, input, d) = h
    <2>1. Shape(f)
        BY DEF FrameOK
    <2> HIDE DEF n, input
    <2> QED BY <2>1, ArriveIs
<1>3. g = IF numberOfInputs(n) > 1 THEN AddToWaiting(h, n, input, d) ELSE Push(h, n, <<d>>)
    <2> DEFINE k == PassTo(f, n, input, d)
    <2>1. g = IF numberOfInputs(n) > 1 THEN AddToWaiting(k, n, input, d) ELSE Push(k, n, <<d>>)
        BY Zenon DEF addNodeToBeExecuted, PassTo
    <2> HIDE DEF h, g
    <2> QED BY <1>2, <2>1
<1>4. /\ Shape(h) /\ h.stack = f.stack /\ h.waiting = f.waiting /\ h.keys = f.keys
      /\ h.arrived = a /\ h.dropped = f.dropped
    <2> HIDE DEF a
    <2> QED BY FrameParts
<1>5. OneArrived(f.arrived, a, n, input, d)
    <2>1. f.arrived \in [Nodes -> [Inputs -> Seq(Made)]]
        BY DEF FrameOK
    <2> HIDE DEF n, input
    <2> QED BY <1>1, <2>1, Arrived
<1> HIDE DEF n, input, a, h, g
<1>6. Arrives(f, h, n, input, d)
    BY <1>4, <1>5 DEF Arrives
<1>7. FrameOK(h)
    BY <1>4, <1>5 DEF FrameOK, OneArrived
<1>8. FrameOK(g) /\ g.arrived = h.arrived /\ Grown(f, g, {n}) /\ AllKept(g, S)
    <2>1. CASE numberOfInputs(n) > 1
        <3>1. PICK index \in Nat, main \in [1 .. numberOfInputs(n) -> Made \cup {Missing}],
                 lost \in SUBSET [to : {n}, input : Inputs, datum : Made] :
                  /\ AddToWaiting(h, n, input, d) = Added(h, n, index, main, lost)
                  /\ main[input] = d
                  /\ Splits(h.waiting[n], index, main, lost, n, input)
            BY <1>1, <1>7, AddToWaitingIs
        <3>2. d \notin Range(f.arrived[n][input])
            BY DEF n, input
        <3>3. LET k == Added(h, n, index, main, lost)
              IN  FrameOK(k) /\ k.arrived = h.arrived /\ Grown(f, k, {n}) /\ AllKept(k, S)
            <4>1. Splits(f.waiting[n], index, main, lost, n, input)
                BY <1>4, <3>1
            <4> QED BY <1>1, <1>6, <3>1, <3>2, <4>1, AddedKeeps
        <3>4. g = Added(h, n, index, main, lost)
            BY <1>3, <2>1, <3>1
        <3> QED BY <3>3, <3>4
    <2>2. CASE ~(numberOfInputs(n) > 1)
        <3>1. 1 \in Inputs /\ input = 1
            BY <1>1, <2>2, InputsAreNumbers
        <3>2. d \notin Range(f.arrived[n][1])
            BY <3>1 DEF n, input
        <3>3. LET k == Push(h, n, <<d>>)
              IN  FrameOK(k) /\ k.arrived = h.arrived /\ Grown(f, k, {n}) /\ AllKept(k, S)
            BY <1>1, <1>6, <3>1, <3>2, PushKeeps
        <3>4. g = Push(h, n, <<d>>)
            BY <1>3, <2>2
        <3> QED BY <3>3, <3>4
    <2> QED BY <2>1, <2>2
<1> QED BY <1>4, <1>5, <1>8 DEF n, input, g

-------------------------------------------------------------------------------
(* A run passes its data on                                                 *)

(* AddChildren, as a sequence of frames *)
MadeOf(n, run, e) == [from |-> n, run |-> run, output |-> e.output]
Next1(g, n, outs, run, k) ==
    LET e == children[n][k]
    IN  IF e.output \notin outs THEN g ELSE addNodeToBeExecuted(g, e, MadeOf(n, run, e))
Chain(F, f, n, outs, run, K) ==
    F = [k \in 0 .. K |-> IF k = 0 THEN f ELSE Next1(F[k - 1], n, outs, run, k)]

(* The frames a run goes through exist, for any number of connections.      *)
LEMMA ChainExists ==
    ASSUME NEW f, NEW n, NEW outs, NEW run
    PROVE  \A K \in Nat : \E F : Chain(F, f, n, outs, run, K)
<1> DEFINE T == {K \in Nat : \E F : Chain(F, f, n, outs, run, K)}
<1>1. 0 \in T
    <2> DEFINE F == [k \in 0 .. 0 |-> f]
    <2>1. Chain(F, f, n, outs, run, 0)
        BY DEF Chain
    <2> HIDE DEF F
    <2> QED BY <2>1
<1>2. ASSUME NEW K \in Nat, K \in T PROVE K + 1 \in T
    <2>1. PICK F : Chain(F, f, n, outs, run, K)
        BY <1>2
    <2> DEFINE H == [k \in 0 .. K + 1 |-> IF k = K + 1 THEN Next1(F[K], n, outs, run, K + 1) ELSE F[k]]
    <2>2. DOMAIN F = 0 .. K
        BY <2>1 DEF Chain
    <2>a. \A k \in 0 .. K : F[k] = IF k = 0 THEN f ELSE Next1(F[k - 1], n, outs, run, k)
        <3> TAKE k \in 0 .. K
        <3> DEFINE R == [j \in 0 .. K |-> IF j = 0 THEN f ELSE Next1(F[j - 1], n, outs, run, j)]
        <3>1. R[k] = IF k = 0 THEN f ELSE Next1(F[k - 1], n, outs, run, k)
            OBVIOUS
        <3>2. F = R
            BY <2>1 DEF Chain
        <3> HIDE DEF R
        <3> QED BY <3>1, <3>2
    <2>3. \A k \in 0 .. K : H[k] = F[k]
        OBVIOUS
    <2>4. H[K + 1] = Next1(F[K], n, outs, run, K + 1) /\ F[K] = H[K]
        OBVIOUS
    <2>5. DOMAIN H = 0 .. K + 1 /\ H = [k \in 0 .. K + 1 |-> H[k]]
        OBVIOUS
    <2> HIDE DEF H
    <2>6. \A k \in 0 .. K + 1 : H[k] = IF k = 0 THEN f ELSE Next1(H[k - 1], n, outs, run, k)
        <3> TAKE k \in 0 .. K + 1
        <3>1. CASE k = K + 1
            <4>1. k - 1 = K /\ k # 0
                BY <3>1
            <4> QED BY <2>4, <3>1, <4>1
        <3>2. CASE k # K + 1
            <4>1. k \in 0 .. K /\ (k # 0 => k - 1 \in 0 .. K)
                BY <3>2
            <4> QED BY <2>3, <2>a, <4>1
        <3> QED BY <3>1, <3>2
    <2>7. Chain(H, f, n, outs, run, K + 1)
        BY <2>5, <2>6 DEF Chain
    <2> QED BY <2>7
<1>3. Nat \subseteq T
    <2> HIDE DEF T
    <2> QED BY <1>1, <1>2, SetInduction
<1> QED BY <1>3

(* The same, without the domain.                                            *)
Steps(F, f, n, outs, run) ==
    F[0] = f /\ \A k \in 1 .. Len(children[n]) : F[k] = Next1(F[k - 1], n, outs, run, k)

(* AddChildren is the last of them.                                         *)
LEMMA AddChildrenIs ==
    ASSUME ConfigOK, NEW f, NEW n \in Nodes, NEW outs, NEW run
    PROVE  \E F : Steps(F, f, n, outs, run) /\ AddChildren(f, n, outs, run) = F[Len(children[n])]
<1> DEFINE K == Len(children[n])
           A == CHOOSE F : Chain(F, f, n, outs, run, K)
<1>1. K \in Nat
    BY ChildrenDistinct
<1>2. Chain(A, f, n, outs, run, K)
    <2> HIDE DEF K
    <2>1. \E F : Chain(F, f, n, outs, run, K)
        BY <1>1, ChainExists
    <2> QED BY <2>1, Zenon
<1>3. AddChildren(f, n, outs, run) = A[K]
    BY Zenon DEF AddChildren, Chain, Next1, MadeOf
<1> HIDE DEF A, K
<1> DEFINE R == [k \in 0 .. K |-> IF k = 0 THEN f ELSE Next1(A[k - 1], n, outs, run, k)]
<1>4. R[0] = f /\ \A k \in 1 .. K : R[k] = Next1(A[k - 1], n, outs, run, k)
    BY <1>1
<1>5. A = R
    BY <1>2 DEF Chain
<1> HIDE DEF R
<1>6. A[0] = f /\ \A k \in 1 .. K : A[k] = Next1(A[k - 1], n, outs, run, k)
    BY <1>4, <1>5
<1>7. Steps(A, f, n, outs, run)
    BY <1>6 DEF Steps, K
<1> QED BY <1>3, <1>7 DEF K

(* What has arrived that had not before is the data of a run of n. *)
FromRun(f, g, n, run, k) ==
    \A m \in Nodes, i \in Inputs : \A d \in Range(g.arrived[m][i]) :
        \/ d \in Range(f.arrived[m][i])
        \/ /\ d.from = n /\ d.run = run
           /\ \E j \in 1 .. k : /\ children[n][j].to = m /\ children[n][j].input = i
                                /\ children[n][j].output = d.output

(* The nodes a node is connected to.                                        *)
ChildNodes(n) == {e.to : e \in OutOf(n)}

(* A run passes new data on over each connection once: every datum stays in *)
(* one place.                                                               *)
LEMMA ChildrenKeep ==
    ASSUME ConfigOK, NEW f, FrameOK(f), NEW S, AllKept(f, S), NEW n \in Nodes, NEW outs, NEW run \in Nat,
           \A m \in Nodes, i \in Inputs : \A d \in Range(f.arrived[m][i]) : d.from = n => d.run # run
    PROVE  LET g == AddChildren(f, n, outs, run)
           IN  /\ FrameOK(g) /\ AllKept(g, S) /\ Grown(f, g, ChildNodes(n))
               /\ FromRun(f, g, n, run, Len(children[n]))
<1> DEFINE K == Len(children[n])
           T == ChildNodes(n)
<1>a. PICK F : Steps(F, f, n, outs, run) /\ AddChildren(f, n, outs, run) = F[Len(children[n])]
    BY AddChildrenIs
<1>1. /\ F[0] = f /\ AddChildren(f, n, outs, run) = F[K]
      /\ \A k \in 1 .. K : F[k] = Next1(F[k - 1], n, outs, run, k)
    BY <1>a DEF Steps
<1>2. /\ children[n] \in Seq(OutOf(n)) /\ K \in Nat
      /\ \A k, l \in DOMAIN children[n] : children[n][k] = children[n][l] => k = l
    BY ChildrenDistinct
<1>3. \A k \in 1 .. K : children[n][k] \in OutOf(n) /\ k \in DOMAIN children[n]
    BY <1>2
<1> HIDE DEF K
<1> DEFINE Good(k) == /\ FrameOK(F[k]) /\ AllKept(F[k], S) /\ Grown(f, F[k], T) /\ FromRun(f, F[k], n, run, k)
<1>4. Good(0)
    BY <1>1 DEF Grown, FromRun
<1>5. ASSUME NEW k \in 0 .. K - 1, Good(k) PROVE Good(k + 1)
    <2> DEFINE e == children[n][k + 1]
               d == MadeOf(n, run, e)
               g == addNodeToBeExecuted(F[k], e, d)
    <2>1. k + 1 \in 1 .. K /\ (k + 1) - 1 = k /\ k \in Nat
        BY <1>2
    <2>2. F[k + 1] = IF e.output \notin outs THEN F[k] ELSE g
        <3>1. F[k + 1] = Next1(F[k], n, outs, run, k + 1)
            BY <1>1, <2>1
        <3> QED BY <3>1, Zenon DEF Next1
    <2>3. FromRun(f, F[k], n, run, k + 1)
        <3>1. \A j \in 1 .. k : j \in 1 .. k + 1
            BY <2>1
        <3> QED BY <1>5, <3>1 DEF FromRun
    <2>4. CASE e.output \notin outs
        <3>1. F[k + 1] = F[k]
            BY <2>2, <2>4
        <3> QED BY <1>5, <2>3, <3>1
    <2>5. CASE e.output \in outs
        <3>1. F[k + 1] = g
            BY <2>2, <2>5
        <3>2. e \in graph.edges /\ e \in OutOf(n) /\ e.from = n
            BY <1>3, <2>1 DEF OutOf
        <3>3. e.to \in Nodes /\ e.input \in Inputs /\ e.output \in Outputs
            BY <3>2, ConfigGraph, InputsOfNode
        <3>4. d \in Made /\ d.from = n /\ d.run = run /\ d.output = e.output
            BY <3>3, NodeStackAssumption DEF Made, MadeOf
        <3>5. ASSUME d \in Range(F[k].arrived[e.to][e.input]) PROVE FALSE
            <4>1. d \notin Range(f.arrived[e.to][e.input])
                BY <3>3, <3>4
            <4>2. PICK j \in 1 .. k : /\ children[n][j].to = e.to /\ children[n][j].input = e.input
                                      /\ children[n][j].output = d.output
                BY <1>5, <3>3, <3>5, <4>1 DEF FromRun
            <4>3. j \in 1 .. K /\ j # k + 1
                BY <1>2, <2>1
            <4>4. children[n][j] \in OutOf(n)
                BY <1>3, <4>3
            <4>5. children[n][j] = e
                <5>1. \A a, b \in Edge : a.from = b.from /\ a.to = b.to /\ a.input = b.input
                                          /\ a.output = b.output => a = b
                    BY DEF Edge
                <5>2. children[n][j] \in Edge /\ e \in Edge /\ children[n][j].from = n
                    BY <3>2, <4>4, ConfigGraph DEF OutOf, IsGraph
                <5> HIDE DEF e
                <5> QED BY <3>2, <3>4, <4>2, <5>1, <5>2
            <4> QED BY <1>2, <1>3, <2>1, <4>3, <4>5
        <3> HIDE DEF d, e
        <3>a. /\ FrameOK(g) /\ AllKept(g, S) /\ Grown(F[k], g, {e.to})
              /\ OneArrived(F[k].arrived, g.arrived, e.to, e.input, d)
            BY <1>5, <3>2, <3>4, <3>5, Delivered
        <3> HIDE DEF g
        <3>6. /\ FrameOK(g) /\ AllKept(g, S) /\ Grown(F[k], g, {e.to})
              /\ \A m \in Nodes, i \in Inputs :
                     Range(g.arrived[m][i]) = IF m = e.to /\ i = e.input
                                              THEN Range(F[k].arrived[m][i]) \cup {d}
                                              ELSE Range(F[k].arrived[m][i])
            BY <3>a DEF OneArrived
        <3>7. Grown(f, g, T)
            <4>1. e.to \in T
                BY <3>2 DEF ChildNodes
            <4>2. Grown(F[k], g, T)
                BY <3>6, <4>1 DEF Grown
            <4> HIDE DEF T
            <4> QED BY <1>5, <4>2, GrownOn
        <3>8. FromRun(f, g, n, run, k + 1)
            <4> SUFFICES ASSUME NEW m \in Nodes, NEW i \in Inputs, NEW c \in Range(g.arrived[m][i]),
                                c \notin Range(f.arrived[m][i])
                         PROVE  /\ c.from = n /\ c.run = run
                                /\ \E j \in 1 .. k + 1 :
                                      /\ children[n][j].to = m /\ children[n][j].input = i
                                      /\ children[n][j].output = c.output
                BY DEF FromRun
            <4>1. CASE c \in Range(F[k].arrived[m][i])
                BY <2>3, <4>1 DEF FromRun
            <4>2. CASE c \notin Range(F[k].arrived[m][i])
                <5>1. m = e.to /\ i = e.input /\ c = d
                    BY <3>6, <4>2
                <5>2. k + 1 \in 1 .. k + 1
                    BY <2>1
                <5> QED BY <3>4, <5>1, <5>2 DEF e
            <4> QED BY <4>1, <4>2
        <3> QED BY <3>1, <3>6, <3>7, <3>8
    <2> QED BY <2>4, <2>5
<1>6. Good(K)
    <2> DEFINE U == {k \in Nat : k <= K => Good(k)}
    <2> HIDE DEF Good
    <2>1. 0 \in U
        BY <1>4
    <2>2. \A k \in Nat : k \in U => k + 1 \in U
        <3> SUFFICES ASSUME NEW k \in Nat, k \in U, k + 1 <= K PROVE Good(k + 1)
            OBVIOUS
        <3>1. k \in 0 .. K - 1 /\ k <= K
            BY <1>2
        <3> QED BY <1>5, <3>1
    <2>3. Nat \subseteq U
        <3> HIDE DEF U
        <3> QED BY <2>1, <2>2, SetInduction
    <2>4. K <= K
        BY <1>2
    <2> QED BY <1>2, <2>3, <2>4
<1> QED BY <1>1, <1>6 DEF K

-------------------------------------------------------------------------------
(* The check of what waits                                                  *)

(* A node that data waits for has an input.                                 *)
LEMMA WaitingHasInputs ==
    ASSUME ConfigOK, NEW n \in Nodes, NEW x, IsEntry(n, x)
    PROVE  numberOfInputs(n) \in Inputs
<1> DEFINE into == {e.input : e \in {f \in graph.edges : f.to = n}}
<1>1. CASE into = {}
    <2>1. numberOfInputs(n) = 0
        BY <1>1 DEF numberOfInputs
    <2>2. x \in [1 .. 0 -> Made \cup {Missing}] /\ Missing \in Range(x)
        BY <2>1 DEF IsEntry
    <2>3. DOMAIN x = {}
        BY <2>2
    <2> QED BY <2>2, <2>3 DEF Range
<1>2. CASE into # {}
    <2>1. PICK e \in graph.edges : e.to = n
        BY <1>2
    <2> QED BY <2>1, ConfigGraph, InputsOfNode
<1> QED BY <1>1, <1>2

(* When a node is run with what waits for it, its data moves to the stack.  *)
LEMMA WithoutKeeps ==
    ASSUME ConfigOK, NEW f, FrameOK(f), NEW S, AllKept(f, S), NEW n \in Range(f.keys)
    PROVE  LET g == RunWithout(f, n)
           IN  /\ FrameOK(g) /\ AllKept(g, S) /\ g.arrived = f.arrived
               /\ Range(g.keys) \subseteq Range(f.keys)
               /\ \E x \in Item : x.node = n /\ g.stack = <<x>> \o f.stack
<1> DEFINE entries == f.waiting[n]
           index == Min(DOMAIN entries)
           main == [i \in DOMAIN entries[index] |->
                       IF entries[index][i] = Missing THEN Empty ELSE entries[index][i]]
           B == Other(entries, index)
           h == Frame(f.stack, [f.waiting EXCEPT ![n] = B], KeysWith(f.keys, n, B), f.arrived, f.dropped)
           x == ItemOf(n, main)
           g == RunWithout(f, n)
<1>0. /\ f.stack \in Seq(Item) /\ IsWaiting(f.waiting, f.keys) /\ Shape(f)
      /\ f.dropped \subseteq [to : Nodes, input : Inputs, datum : Made]
      /\ f.arrived \in [Nodes -> [Inputs -> Seq(Made)]] /\ DOMAIN f.waiting = Nodes
    BY DEF FrameOK, IsWaiting
<1>1. n \in Nodes /\ DOMAIN entries # {} /\ DOMAIN entries \subseteq Nat
      /\ \A y \in DOMAIN entries : IsEntry(n, entries[y])
    BY <1>0 DEF IsWaiting
<1>2. index \in DOMAIN entries /\ index \in Nat
    <2> HIDE DEF entries
    <2> QED BY <1>1, MinIsLeast
<1>3. IsEntry(n, entries[index]) /\ numberOfInputs(n) \in Inputs
    <2>1. IsEntry(n, entries[index])
        BY <1>1, <1>2
    <2> QED BY <1>1, <2>1, WaitingHasInputs
<1>4. entries[index] \in [1 .. numberOfInputs(n) -> Made \cup {Missing}]
    BY <1>3 DEF IsEntry
<1>5. main \in [1 .. numberOfInputs(n) -> Made \cup {Empty}]
    <2> HIDE DEF index, entries
    <2> QED BY <1>4
<1>6. \A i, d : d \in Made => (Holds(main, i, d) <=> Holds(entries[index], i, d))
    <2> HIDE DEF index, entries
    <2> QED BY <1>4, EmptyIsNoDatum DEF Holds
<1>7. g = Push(Completed(f, n, entries, index), n, main)
    BY Zenon DEF RunWithout
<1>8. Completed(f, n, entries, index) = h
    <2>1. Completed(f, n, entries, index) = WithEntries(f, n, B)
        BY DEF Completed, Other
    <2> HIDE DEF B, index, entries
    <2> QED BY <1>0, <2>1, WithEntriesIs
<1>9. /\ Shape(h) /\ h.stack = f.stack /\ h.waiting = [f.waiting EXCEPT ![n] = B]
      /\ h.keys = KeysWith(f.keys, n, B) /\ h.arrived = f.arrived /\ h.dropped = f.dropped
    <2> HIDE DEF B
    <2> QED BY FrameParts
<1>10. IsFiniteSet(DOMAIN B) /\ DOMAIN B \subseteq Nat /\ \A y \in DOMAIN B : IsEntry(n, B[y])
    <2> HIDE DEF index
    <2> QED BY <1>0, <1>1, <1>2, EntriesStay
<1>11. ASSUME NEW i, NEW d \in Made
       PROVE  /\ InEntries(entries, i, d) <=> InEntries(B, i, d) \/ Holds(main, i, d)
              /\ OnceInEntries(entries, i, d) <=>
                    OnceInEntries(B, i, d) /\ ~(InEntries(B, i, d) /\ Holds(main, i, d))
    <2> HIDE DEF index, main, entries
    <2>1. Holds(main, i, d) <=> Holds(entries[index], i, d)
        BY <1>6
    <2> QED BY <1>2, <2>1, EntrySplit
<1>12. x \in Item /\ (\A m, i, d : Has(x, m, i, d) <=> m = n /\ Holds(main, i, d)) /\ x.node = n
    <2> HIDE DEF main
    <2>1. x.node = n
        BY DEF ItemOf
    <2> QED BY <1>1, <1>3, <1>5, <2>1, ItemOfIs
<1>13. g = Frame(<<x>> \o f.stack, h.waiting, h.keys, f.arrived, f.dropped)
    <2> HIDE DEF g, h, main, index, entries
    <2>1. g = Push(h, n, main)
        BY <1>7, <1>8
    <2>2. Push(h, n, main) = Frame(<<x>> \o h.stack, h.waiting, h.keys, h.arrived, h.dropped)
        BY <1>9, PushIs DEF ItemOf
    <2> HIDE DEF x
    <2> QED BY <1>9, <2>1, <2>2
<1> HIDE DEF g, h, x, main, B, index
<1>14. /\ Shape(g) /\ g.stack = <<x>> \o f.stack /\ g.waiting = h.waiting
       /\ g.keys = h.keys /\ g.arrived = f.arrived /\ g.dropped = f.dropped
    <2> DEFINE s == <<x>> \o f.stack
    <2> HIDE DEF s
    <2>1. g = Frame(s, h.waiting, h.keys, f.arrived, f.dropped)
        BY <1>13 DEF s
    <2>2. /\ Shape(g) /\ g.stack = s /\ g.waiting = h.waiting
          /\ g.keys = h.keys /\ g.arrived = f.arrived /\ g.dropped = f.dropped
        BY <2>1, FrameParts
    <2> QED BY <2>2 DEF s
<1>15. IsWaiting(g.waiting, g.keys) /\ Range(g.keys) \subseteq Range(f.keys)
    <2>1. /\ IsWaiting([f.waiting EXCEPT ![n] = B], KeysWith(f.keys, n, B))
          /\ Range(KeysWith(f.keys, n, B)) \subseteq Range(f.keys) \cup {n}
        BY <1>0, <1>1, <1>10, KeysFollow
    <2> QED BY <1>9, <1>14, <2>1
<1>16. FrameOK(g)
    <2>1. g.stack \in Seq(Item)
        BY <1>0, <1>12, <1>14, InFront
    <2> QED BY <1>0, <1>14, <1>15, <2>1 DEF FrameOK
<1>17. ASSUME NEW m \in Nodes, NEW i \in Inputs, NEW d \in Made
       PROVE  Kept(g, S, m, i, d)
    <2>1. Kept(f, S, m, i, d)
        BY DEF AllKept
    <2>2. /\ InStack(g.stack, m, i, d) <=> InStack(f.stack, m, i, d) \/ (m = n /\ Holds(main, i, d))
          /\ OnceInStack(g.stack, m, i, d) <=>
                OnceInStack(f.stack, m, i, d) /\ ~(InStack(f.stack, m, i, d) /\ m = n /\ Holds(main, i, d))
        BY <1>0, <1>12, <1>14, StackSplit
    <2>3. g.waiting[n] = B /\ (m # n => g.waiting[m] = f.waiting[m])
        BY <1>0, <1>1, <1>9, <1>14
    <2>4. CASE m = n
        BY <1>11, <1>14, <2>1, <2>2, <2>3, <2>4 DEF Kept
    <2>5. CASE m # n
        BY <1>14, <2>1, <2>2, <2>3, <2>5 DEF Kept
    <2> QED BY <2>4, <2>5
<1> QED BY <1>12, <1>14, <1>15, <1>16, <1>17 DEF AllKept, g

(* What the check of what waits does, and when it leaves the stack empty.  *)
Checked(f, g) ==
    /\ \/ g = f
       \/ /\ f.stack = <<>>
          /\ \E n \in Range(f.keys), x \in Item :
                CanRun(f, n) /\ x.node = n /\ g.stack = <<x>> \o f.stack
    /\ g.stack = <<>> => g = f /\ \A n \in Range(f.keys) : ~CanRun(f, n)

(* The check of the waiting nodes keeps the data, and leaves the stack empty*)
(* only if no node can run.                                                 *)
LEMMA CheckKeeps ==
    ASSUME ConfigOK, NEW f, FrameOK(f), NEW S, AllKept(f, S)
    PROVE  LET g == CheckWaiting(f)
           IN  /\ FrameOK(g) /\ AllKept(g, S) /\ g.arrived = f.arrived
               /\ Range(g.keys) \subseteq Range(f.keys) /\ Checked(f, g)
<1> DEFINE ready == {k \in DOMAIN f.keys : CanRun(f, f.keys[k])}
           g == CheckWaiting(f)
<1>1. g = IF f.stack = <<>> /\ ready # {} THEN RunWithout(f, f.keys[Min(ready)]) ELSE f
    BY Zenon DEF CheckWaiting
<1>2. f.keys \in Seq(Nodes) /\ f.stack \in Seq(Item)
    BY DEF FrameOK, IsWaiting
<1> HIDE DEF g
<1>3. CASE f.stack = <<>> /\ ready # {}
    <2> DEFINE n == f.keys[Min(ready)]
    <2>1. Min(ready) \in DOMAIN f.keys /\ CanRun(f, n)
        <3>1. ready \subseteq Nat /\ ready # {}
            BY <1>2, <1>3
        <3>2. Min(ready) \in ready
            <4> HIDE DEF ready
            <4> QED BY <3>1, MinIsLeast
        <3> QED BY <3>2
    <2>2. n \in Range(f.keys) /\ g = RunWithout(f, n)
        BY <1>1, <1>3, <2>1 DEF Range
    <2> HIDE DEF n
    <2>3. /\ FrameOK(g) /\ AllKept(g, S) /\ g.arrived = f.arrived
          /\ Range(g.keys) \subseteq Range(f.keys)
          /\ \E x \in Item : x.node = n /\ g.stack = <<x>> \o f.stack
        BY <2>2, WithoutKeeps
    <2>4. PICK x \in Item : x.node = n /\ g.stack = <<x>> \o f.stack
        BY <2>3
    <2>5. g.stack # <<>>
        <3>1. <<x>> \o f.stack \in Seq(Item) /\ Len(<<x>> \o f.stack) = Len(f.stack) + 1 /\ Len(f.stack) \in Nat
            BY <1>2, InFront
        <3> QED BY <2>4, <3>1
    <2> QED BY <1>3, <2>1, <2>2, <2>3, <2>4, <2>5 DEF Checked, g
<1>4. CASE ~(f.stack = <<>> /\ ready # {})
    <2>1. g = f
        BY <1>1, <1>4
    <2>2. f.stack = <<>> => \A n \in Range(f.keys) : ~CanRun(f, n)
        BY <1>4 DEF Range
    <2> QED BY <2>1, <2>2 DEF Checked, g
<1> QED BY <1>3, <1>4

-------------------------------------------------------------------------------
(* The stack                                                                *)

(* Items move between the stack and those that were used. *)
Apart(S, x) == \A n \in Nodes, i \in Inputs, d \in Made : Has(x, n, i, d) => ~InItems(S, n, i, d)

(* A frame with another stack.                                              *)
LEMMA FrameWithStack ==
    ASSUME NEW f, FrameOK(f), NEW s \in Seq(Item)
    PROVE  LET g == Frame(s, f.waiting, f.keys, f.arrived, f.dropped)
           IN  FrameOK(g) /\ g.stack = s /\ g.waiting = f.waiting /\ g.keys = f.keys
               /\ g.arrived = f.arrived /\ g.dropped = f.dropped
<1> DEFINE g == Frame(s, f.waiting, f.keys, f.arrived, f.dropped)
<1>1. /\ Shape(g) /\ g.stack = s /\ g.waiting = f.waiting /\ g.keys = f.keys
      /\ g.arrived = f.arrived /\ g.dropped = f.dropped
    BY FrameParts
<1> HIDE DEF g
<1>2. FrameOK(g)
    BY <1>1 DEF FrameOK
<1> QED BY <1>1, <1>2 DEF g

(* An item is taken off the stack, ...                                      *)
LEMMA TakenOff ==
    ASSUME NEW f, FrameOK(f), NEW S, AllKept(f, S), f.stack # <<>>
    PROVE  LET g == Frame(Tail(f.stack), f.waiting, f.keys, f.arrived, f.dropped)
               x == Head(f.stack)
           IN  FrameOK(g) /\ x \in Item /\ AllKept(g, S \cup {x}) /\ Apart(S, x)
<1> DEFINE s == Tail(f.stack)
           x == Head(f.stack)
           g == Frame(s, f.waiting, f.keys, f.arrived, f.dropped)
<1>1. s \in Seq(Item) /\ x \in Item /\ f.stack = <<x>> \o s
    BY HeadAndTail DEF FrameOK
<1> HIDE DEF s, x
<1>2. FrameOK(g) /\ g.stack = s /\ g.waiting = f.waiting /\ g.keys = f.keys
      /\ g.arrived = f.arrived /\ g.dropped = f.dropped
    BY <1>1, FrameWithStack
<1> HIDE DEF g
<1>3. ASSUME NEW n \in Nodes, NEW i \in Inputs, NEW d \in Made
      PROVE  Kept(g, S \cup {x}, n, i, d) /\ (Has(x, n, i, d) => ~InItems(S, n, i, d))
    <2>1. Kept(f, S, n, i, d)
        BY DEF AllKept
    <2>2. /\ InStack(f.stack, n, i, d) <=> InStack(s, n, i, d) \/ Has(x, n, i, d)
          /\ OnceInStack(f.stack, n, i, d) <=>
                OnceInStack(s, n, i, d) /\ ~(InStack(s, n, i, d) /\ Has(x, n, i, d))
        BY <1>1, StackSplit
    <2>3. InItems(S \cup {x}, n, i, d) <=> InItems(S, n, i, d) \/ Has(x, n, i, d)
        BY DEF InItems
    <2> QED BY <1>2, <2>1, <2>2, <2>3 DEF Kept
<1> QED BY <1>1, <1>2, <1>3 DEF AllKept, Apart, g, s, x

(* ... or put back on it.                                                   *)
LEMMA PutOn ==
    ASSUME NEW f, FrameOK(f), NEW S, NEW x \in Item, AllKept(f, S \cup {x}), Apart(S, x)
    PROVE  LET g == Frame(<<x>> \o f.stack, f.waiting, f.keys, f.arrived, f.dropped)
           IN  FrameOK(g) /\ AllKept(g, S)
<1> DEFINE s == <<x>> \o f.stack
           g == Frame(s, f.waiting, f.keys, f.arrived, f.dropped)
<1>1. s \in Seq(Item) /\ f.stack \in Seq(Item)
    BY InFront DEF FrameOK
<1>2. \A n, i, d : /\ InStack(s, n, i, d) <=> InStack(f.stack, n, i, d) \/ Has(x, n, i, d)
                   /\ OnceInStack(s, n, i, d) <=>
                         OnceInStack(f.stack, n, i, d) /\ ~(InStack(f.stack, n, i, d) /\ Has(x, n, i, d))
    BY <1>1, StackSplit
<1> HIDE DEF s
<1>3. FrameOK(g) /\ g.stack = s /\ g.waiting = f.waiting /\ g.keys = f.keys
      /\ g.arrived = f.arrived /\ g.dropped = f.dropped
    BY <1>1, FrameWithStack
<1> HIDE DEF g
<1>4. ASSUME NEW n \in Nodes, NEW i \in Inputs, NEW d \in Made
      PROVE  Kept(g, S, n, i, d)
    <2>1. Kept(f, S \cup {x}, n, i, d) /\ (Has(x, n, i, d) => ~InItems(S, n, i, d))
        BY DEF AllKept, Apart
    <2>2. InItems(S \cup {x}, n, i, d) <=> InItems(S, n, i, d) \/ Has(x, n, i, d)
        BY DEF InItems
    <2> QED BY <1>2, <1>3, <2>1, <2>2 DEF Kept
<1> QED BY <1>3, <1>4 DEF AllKept, g, s

(* The first item is disabled. *)
FirstDisabled(s) == [s EXCEPT ![1].disabled = TRUE]

(* handleWaitingState disables the first item and changes nothing else of   *)
(* the stack, ...                                                           *)
LEMMA DisabledIs ==
    ASSUME NEW s \in Seq(Item)
    PROVE  /\ FirstDisabled(s) \in Seq(Item) /\ DOMAIN FirstDisabled(s) = DOMAIN s
           /\ \A k \in DOMAIN s : /\ FirstDisabled(s)[k].node = s[k].node
                                  /\ FirstDisabled(s)[k].main = s[k].main
<1> DEFINE x == [s[1] EXCEPT !.disabled = TRUE]
           t == [s EXCEPT ![1] = x]
<1>1. FirstDisabled(s) = t
    BY DEF FirstDisabled
<1>2. ASSUME 1 \in DOMAIN s PROVE x \in Item /\ x.node = s[1].node /\ x.main = s[1].main
    <2>1. s[1] \in Item
        BY <1>2
    <2>2. PICK k \in Inputs : s[1] \in [node : Nodes, disabled : BOOLEAN, main : [1 .. k -> Datum \cup {Empty}]]
        BY <2>1 DEF Item
    <2> DEFINE M == [1 .. k -> Datum \cup {Empty}]
    <2>3. s[1] \in [node : Nodes, disabled : BOOLEAN, main : M]
        BY <2>2
    <2> HIDE DEF M
    <2>4. x \in [node : Nodes, disabled : BOOLEAN, main : M] /\ x.node = s[1].node /\ x.main = s[1].main
        BY <2>3
    <2> QED BY <2>4 DEF Item, M
<1> HIDE DEF x
<1>3. DOMAIN t = DOMAIN s /\ \A k \in DOMAIN s : t[k] = IF k = 1 THEN x ELSE s[k]
    OBVIOUS
<1>4. \A k \in DOMAIN s : t[k] \in Item
    BY <1>2, <1>3
<1>5. t \in Seq(Item)
    <2>1. DOMAIN s = 1 .. Len(s) /\ Len(s) \in Nat
        OBVIOUS
    <2>2. t = [k \in 1 .. Len(s) |-> t[k]]
        BY <2>1
    <2> HIDE DEF t
    <2>3. t \in [1 .. Len(s) -> Item]
        BY <1>3, <1>4, <2>1, <2>2
    <2> QED BY <2>1, <2>3
<1> HIDE DEF t
<1> QED BY <1>1, <1>2, <1>3, <1>5

(* ... so that the data stays where it was.                                 *)
LEMMA DisabledKeeps ==
    ASSUME NEW f, FrameOK(f), NEW S, AllKept(f, S)
    PROVE  LET g == Frame(FirstDisabled(f.stack), f.waiting, f.keys, f.arrived, f.dropped)
           IN  FrameOK(g) /\ AllKept(g, S)
<1> DEFINE s == FirstDisabled(f.stack)
           g == Frame(s, f.waiting, f.keys, f.arrived, f.dropped)
<1>1. s \in Seq(Item) /\ DOMAIN s = DOMAIN f.stack
      /\ \A k \in DOMAIN s : s[k].node = f.stack[k].node /\ s[k].main = f.stack[k].main
    BY DisabledIs DEF FrameOK
<1> HIDE DEF s
<1>2. \A k \in DOMAIN s : \A n, i, d : Has(s[k], n, i, d) <=> Has(f.stack[k], n, i, d)
    BY <1>1 DEF Has
<1>3. FrameOK(g) /\ g.stack = s /\ g.waiting = f.waiting /\ g.keys = f.keys
      /\ g.arrived = f.arrived /\ g.dropped = f.dropped
    BY <1>1, FrameWithStack
<1> HIDE DEF g
<1>4. ASSUME NEW n \in Nodes, NEW i \in Inputs, NEW d \in Made
      PROVE  Kept(g, S, n, i, d)
    <2>1. Kept(f, S, n, i, d)
        BY DEF AllKept
    <2>2. InStack(s, n, i, d) <=> InStack(f.stack, n, i, d)
        BY <1>1, <1>2 DEF InStack
    <2>3. OnceInStack(s, n, i, d) <=> OnceInStack(f.stack, n, i, d)
        BY <1>1, <1>2 DEF OnceInStack
    <2> QED BY <1>3, <2>1, <2>2, <2>3 DEF Kept
<1> QED BY <1>3, <1>4 DEF AllKept, g, s

(* What the engine keeps of the data, ... *)
Gone == spent \cup forgotten
Used == Gone \cup (IF current = None THEN {} ELSE {current})

(* ... what has arrived: of runs that were made, over a connection, ...    *)
ArrivedIsMade == \A n \in Nodes, i \in Inputs : \A d \in Range(arrived[n][i]) :
    d.run <= made[d.from] /\ \E e \in graph.edges : e.to = n /\ e.input = i

(* ... and what was used or forgotten, each datum once.                    *)
UsedOnce ==
    /\ Gone \subseteq Item /\ (current = None \/ current \in Item)
    /\ \A n \in Nodes, i \in Inputs, d \in Made : OnceInItems(Gone, n, i, d)
    /\ \A x \in forgotten : Apart(spent, x)
    /\ current # None => Apart(Gone, current)

(* The invariant of the data.                                               *)
DataInv ==
    /\ ConfigOK /\ FrameOK(Now) /\ AllKept(Now, Used) /\ UsedOnce /\ ArrivedIsMade
    /\ made \in [Nodes -> 0 .. MaxRuns]
    /\ (phase \in {"node", "putting"}) = (current # None)

(* The variables, as fields of a frame.                                     *)
LEMMA NowParts ==
    /\ Now.stack = stack /\ Now.waiting = waiting /\ Now.keys = keys
    /\ Now.arrived = arrived /\ Now.dropped = dropped
    /\ Now = Frame(stack, waiting, keys, arrived, dropped) /\ Shape(Now)
BY DEF Now, Frame, Shape

(* What the variables become, as a frame.                                  *)
LEMMA NowBecomes ==
    ASSUME NEW g, FrameOK(g), Becomes(g) PROVE Now' = g
<1>1. Now' = Frame(g.stack, g.waiting, g.keys, g.arrived, g.dropped)
    BY DEF Becomes, Now, Frame
<1> QED BY <1>1 DEF FrameOK, Shape

(* No node is running: None is not an item.                                 *)
LEMMA NoneIsNoItem == None \notin Item
BY NodeStackAssumption, ItemsAre

(* The shape of the waiting data is a matter of the graph alone.            *)
LEMMA FrameStays ==
    ASSUME UNCHANGED graph, NEW g, FrameOK(g), Now' = g
    PROVE  FrameOK(Now)'
<1>1. \A n : numberOfInputs(n)' = numberOfInputs(n)
    BY DEF numberOfInputs
<1>2. \A n, x : IsEntry(n, x)' <=> IsEntry(n, x)
    BY <1>1 DEF IsEntry
<1> QED BY <1>2 DEF FrameOK, IsWaiting

-------------------------------------------------------------------------------
(* The data invariant                                                       *)

(* The data invariant holds when a run starts, with one item on the stack.  *)
LEMMA DataInit ==
    ASSUME Init PROVE DataInv
<1> DEFINE x == [node |-> graph.start, disabled |-> FALSE, main |-> <<Start>>]
<1>1. ConfigOK /\ graph.start \in Nodes
    <2>1. ConfigOK
        BY DEF Init, ConfigOK
    <2> QED BY <2>1, ConfigGraph DEF IsGraph
<1>2. x \in Item
    <2>1. <<Start>> \in [1 .. 1 -> Datum \cup {Empty}]
        BY DEF Datum
    <2>2. x \in [node : Nodes, disabled : BOOLEAN, main : [1 .. 1 -> Datum \cup {Empty}]]
        BY <1>1, <2>1
    <2> QED BY <2>2, NodeStackAssumption DEF Item
<1>3. \A n, i : \A d \in Made : ~Has(x, n, i, d)
    <2>1. \A d \in Made : d # Start
        BY NodeStackAssumption DEF Made, Start
    <2> QED BY <2>1 DEF Has
<1> HIDE DEF x
<1>4. stack = <<x>>
    BY DEF Init, x
<1>5. /\ waiting = [n \in Nodes |-> <<>>] /\ keys = <<>> /\ dropped = {} /\ spent = {} /\ forgotten = {}
      /\ current = None /\ arrived = [n \in Nodes |-> [i \in Inputs |-> <<>>]] /\ made = [n \in Nodes |-> 0] /\ phase = "loop"
    BY DEF Init
<1>6. FrameOK(Now)
    <2>1. Shape(Now)
        BY NowParts
    <2>2. stack \in Seq(Item)
        BY <1>2, <1>4
    <2>3. IsWaiting(waiting, keys)
        <3>1. DOMAIN waiting = Nodes /\ \A n \in Nodes : DOMAIN waiting[n] = {}
            BY <1>5
        <3>2. IsFiniteSet({})
            BY FS_EmptySet
        <3>3. keys \in Seq(Nodes) /\ DOMAIN keys = {}
            BY <1>5
        <3>4. IsInjective(keys) /\ Range(keys) = {}
            BY <3>3 DEF IsInjective, Range
        <3> QED BY <3>1, <3>2, <3>3, <3>4 DEF IsWaiting
    <2>4. arrived \in [Nodes -> [Inputs -> Seq(Made)]]
        BY <1>5
    <2>5. dropped \subseteq [to : Nodes, input : Inputs, datum : Made]
        BY <1>5
    <2> QED BY <2>1, <2>2, <2>3, <2>4, <2>5, NowParts DEF FrameOK
<1>7. Used = {}
    BY <1>5 DEF Used, Gone
<1>8. \A n \in Nodes, i \in Inputs : Range(arrived[n][i]) = {}
    <2>1. \A n \in Nodes, i \in Inputs : arrived[n][i] = <<>>
        BY <1>5
    <2> QED BY <2>1 DEF Range
<1>9. ASSUME NEW n \in Nodes, NEW i \in Inputs, NEW d \in Made PROVE Kept(Now, Used, n, i, d)
    <2>1. ~InStack(stack, n, i, d) /\ OnceInStack(stack, n, i, d)
        <3>1. \A k \in DOMAIN stack : stack[k] = x
            BY <1>4
        <3> QED BY <1>3, <3>1 DEF InStack, OnceInStack
    <2>2. ~InEntries(waiting[n], i, d) /\ OnceInEntries(waiting[n], i, d)
        <3>1. DOMAIN waiting[n] = {}
            BY <1>5
        <3> QED BY <3>1 DEF InEntries, OnceInEntries
    <2>3. ~InItems(Used, n, i, d) /\ ~InDropped(dropped, n, i, d)
        BY <1>5, <1>7 DEF InItems, InDropped
    <2> QED BY <1>8, <2>1, <2>2, <2>3, NowParts DEF Kept
<1>10. UsedOnce
    BY <1>5 DEF UsedOnce, Gone, OnceInItems
<1>11. ArrivedIsMade
    BY <1>8 DEF ArrivedIsMade
<1>12. made \in [Nodes -> 0 .. MaxRuns]
    BY <1>5, NodeStackAssumption
<1> QED BY <1>1, <1>5, <1>6, <1>9, <1>10, <1>11, <1>12 DEF DataInv, AllKept

(* Most steps leave the data alone.                                         *)
LEMMA DataStays ==
    ASSUME DataInv, UNCHANGED <<config, frame, made, spent, current, forgotten>>,
           (phase' \in {"node", "putting"}) = (current' # None)
    PROVE  DataInv'
<1>1. Now' = Now
    BY DEF Now, frame, data
<1>2. FrameOK(Now)'
    BY <1>1, FrameStays DEF DataInv, config
<1>3. Used' = Used /\ Gone' = Gone
    BY DEF Used, Gone
<1>4. AllKept(Now, Used)'
    <2>1. AllKept(Now', Used')
        BY <1>1, <1>3 DEF DataInv
    <2> QED BY <2>1 DEF AllKept, Kept
<1>5. UsedOnce' /\ ArrivedIsMade' /\ ConfigOK'
    BY <1>3 DEF DataInv, UsedOnce, OnceInItems, Apart, InItems, ArrivedIsMade, ConfigOK, config, frame, data
<1> QED BY <1>2, <1>4, <1>5 DEF DataInv

(* AllKept is about what is there, whatever the state.                      *)
LEMMA KeptThen ==
    ASSUME NEW g, NEW S, Now' = g, Used' = S, AllKept(g, S)
    PROVE  AllKept(Now, Used)'
<1>1. AllKept(Now', Used')
    OBVIOUS
<1> QED BY <1>1 DEF AllKept, Kept

(* The item of a node that has run is used up.                              *)
LEMMA UsedUp ==
    ASSUME UsedOnce, NEW x \in Item, Apart(Gone, x), current = x \/ current = None,
           current' = None, spent' = spent \cup {x}, UNCHANGED forgotten
    PROVE  UsedOnce' /\ Used' = Gone \cup {x}
<1>1. Gone' = Gone \cup {x}
    BY DEF Gone
<1>2. ASSUME NEW n \in Nodes, NEW i \in Inputs, NEW d \in Made
      PROVE  OnceInItems(Gone', n, i, d)
    BY <1>1 DEF UsedOnce, OnceInItems, Apart, InItems
<1>3. ASSUME NEW y \in forgotten PROVE Apart(spent', y)
    <2> SUFFICES ASSUME NEW n \in Nodes, NEW i \in Inputs, NEW d \in Made,
                        Has(y, n, i, d), InItems(spent', n, i, d)
                 PROVE  FALSE
        BY DEF Apart
    <2>1. ~InItems(spent, n, i, d)
        BY DEF UsedOnce, Apart
    <2>2. Has(x, n, i, d)
        BY <2>1 DEF InItems
    <2>3. InItems(Gone, n, i, d)
        BY DEF InItems, Gone
    <2> QED BY <2>2, <2>3 DEF Apart
<1>4. Gone' \subseteq Item
    BY <1>1 DEF UsedOnce
<1>5. UsedOnce'
    BY <1>2, <1>3, <1>4 DEF UsedOnce, OnceInItems, Apart, InItems
<1> QED BY <1>1, <1>5 DEF Used

(* The loop takes an item from the stack: it runs, or it is used up.        *)
LEMMA DataNext ==
    ASSUME DataInv, NextNode PROVE DataInv'
<1> DEFINE x == Head(stack)
           g == Frame(Tail(stack), waiting, keys, arrived, dropped)
<1>1. /\ stack # <<>> /\ phase = "loop" /\ stack' = Tail(stack)
      /\ UNCHANGED <<config, waiting, keys, arrived, dropped, made, forgotten>>
      /\ \/ spent' = spent \cup {x} /\ UNCHANGED <<current, phase>>
         \/ current' = x /\ phase' = "node" /\ UNCHANGED spent
    BY DEF NextNode, FilteredOut, data, past
<1>2. current = None
    BY <1>1 DEF DataInv
<1>3. Used = Gone
    BY <1>2 DEF Used
<1>4. FrameOK(g) /\ x \in Item /\ AllKept(g, Gone \cup {x}) /\ Apart(Gone, x)
    <2>1. FrameOK(Now) /\ AllKept(Now, Gone) /\ Now.stack # <<>>
        BY <1>1, <1>3, NowParts DEF DataInv
    <2> QED BY <2>1, TakenOff, NowParts
<1>5. Now' = g
    BY <1>1 DEF Now, Frame
<1>6. x # None
    BY <1>4, NoneIsNoItem
<1> HIDE DEF g, x
<1>7. UsedOnce' /\ Used' = Gone \cup {x}
    <2>1. CASE spent' = spent \cup {x} /\ UNCHANGED <<current, phase>>
        <3>1. UsedOnce /\ current' = None
            BY <1>2, <2>1 DEF DataInv
        <3> QED BY <1>1, <1>2, <1>4, <2>1, <3>1, UsedUp
    <2>2. CASE current' = x /\ phase' = "node" /\ UNCHANGED spent
        <3>1. Gone' = Gone
            BY <1>1, <2>2 DEF Gone
        <3> QED BY <1>1, <1>4, <1>6, <2>2, <3>1 DEF DataInv, UsedOnce, Used, Apart, OnceInItems, InItems
    <2> QED BY <1>1, <2>1, <2>2
<1>8. FrameOK(Now)' /\ AllKept(Now, Used)'
    BY <1>1, <1>4, <1>5, <1>7, FrameStays, KeptThen DEF config
<1>9. ArrivedIsMade' /\ ConfigOK'
    BY <1>1 DEF DataInv, ArrivedIsMade, ConfigOK, config
<1> QED BY <1>1, <1>2, <1>6, <1>7, <1>8, <1>9 DEF DataInv

(* The item of a node that fails or waits is put back.                      *)
LEMMA DataPutBack ==
    ASSUME DataInv, current # None, PutBack(current), current' = None, phase' \notin {"node", "putting"},
           UNCHANGED <<config, data, made, spent, forgotten>>
    PROVE  DataInv'
<1> DEFINE g == Frame(<<current>> \o stack, waiting, keys, arrived, dropped)
<1>1. stack' = <<current>> \o stack /\ UNCHANGED <<waiting, keys, arrived, dropped>>
    BY DEF PutBack, data
<1>2. Used = Gone \cup {current} /\ Used' = Gone /\ Gone' = Gone
    BY DEF Used, Gone
<1>3. current \in Item /\ Apart(Gone, current)
    BY DEF DataInv, UsedOnce
<1>4. FrameOK(g) /\ AllKept(g, Gone)
    <2>1. FrameOK(Now) /\ AllKept(Now, Gone \cup {current})
        BY <1>2 DEF DataInv
    <2> QED BY <1>3, <2>1, PutOn, NowParts
<1>5. Now' = g
    BY <1>1 DEF Now, Frame
<1> HIDE DEF g
<1>6. FrameOK(Now)' /\ AllKept(Now, Used)'
    BY <1>2, <1>4, <1>5, FrameStays, KeptThen DEF config
<1>7. UsedOnce'
    BY <1>2 DEF DataInv, UsedOnce, OnceInItems, Apart, InItems
<1>8. ArrivedIsMade' /\ ConfigOK'
    BY <1>1 DEF DataInv, ArrivedIsMade, ConfigOK, config
<1> QED BY <1>6, <1>7, <1>8 DEF DataInv

(* A node that has run, and passed nothing on.                              *)
LEMMA HasRun ==
    ASSUME DataInv, current # None, current' = None, spent' = spent \cup {current}, UNCHANGED forgotten
    PROVE  UsedOnce' /\ Used' = Used
<1>1. UsedOnce /\ current \in Item /\ Apart(Gone, current) /\ Used = Gone \cup {current}
    BY DEF DataInv, UsedOnce, Used
<1> QED BY <1>1, UsedUp

(* A node that returns null uses its item up and passes nothing on.         *)
LEMMA DataNull ==
    ASSUME DataInv, NodeReturnsNull PROVE DataInv'
<1>1. /\ current # None /\ current' = None /\ phase' = "loop" /\ spent' = spent \cup {current}
      /\ UNCHANGED <<config, frame, made, forgotten>>
    BY DEF DataInv, NodeReturnsNull, past
<1>2. UsedOnce' /\ Used' = Used
    BY <1>1, HasRun
<1>3. Now' = Now
    BY <1>1 DEF Now, frame, data
<1>4. FrameOK(Now)' /\ AllKept(Now, Used)'
    BY <1>1, <1>2, <1>3, FrameStays, KeptThen DEF DataInv, config
<1>5. ArrivedIsMade' /\ ConfigOK'
    BY <1>1 DEF DataInv, ArrivedIsMade, ConfigOK, config, frame, data
<1> QED BY <1>1, <1>2, <1>4, <1>5 DEF DataInv

(* What starts again: the stack as it is, or with the node that waited      *)
(* disabled.                                                                *)
LEMMA StartsAgain ==
    ASSUME Resume \/ Retry
    PROVE  /\ stack' = FirstDisabled(stack) \/ stack' = stack
           /\ current' = None /\ phase' = "loop" /\ UNCHANGED <<config, data, made, spent>>
BY DEF Resume, Retry, Restart, FirstDisabled

(* A resume or a retry forgets the item that was off the stack, and keeps   *)
(* the rest.                                                                *)
LEMMA DataResume ==
    ASSUME DataInv, Resume \/ Retry PROVE DataInv'
<1> DEFINE g == Frame(FirstDisabled(stack), waiting, keys, arrived, dropped)
<1>1. /\ stack' = FirstDisabled(stack) \/ stack' = stack
      /\ phase' = "loop" /\ current' = None
      /\ UNCHANGED <<config, waiting, keys, arrived, dropped, made, spent>>
    BY StartsAgain DEF data
<1>2. forgotten' = IF current = None THEN forgotten ELSE forgotten \cup {current}
    <2>1. CASE Resume
        <3>1. current = None
            BY <2>1 DEF Resume, DataInv
        <3> QED BY <2>1, <3>1 DEF Resume
    <2>2. CASE Retry
        BY <2>2 DEF Retry
    <2> QED BY <2>1, <2>2
<1>3. Gone' = Used /\ Used' = Used
    BY <1>1, <1>2 DEF Used, Gone
<1>4. FrameOK(g) /\ AllKept(g, Used)
    BY DisabledKeeps, NowParts DEF DataInv
<1>5. Now' = g \/ Now' = Now
    BY <1>1 DEF Now, Frame
<1> HIDE DEF g
<1>6. FrameOK(Now)' /\ AllKept(Now, Used)'
    BY <1>1, <1>3, <1>4, <1>5, FrameStays, KeptThen DEF config, DataInv
<1>7. UsedOnce'
    <2>1. CASE current = None
        BY <1>1, <1>2, <1>3, <2>1 DEF DataInv, UsedOnce, Used, OnceInItems, Apart, InItems
    <2>2. CASE current # None
        <3>1. current \in Item /\ Apart(Gone, current) /\ Gone' = Gone \cup {current}
            BY <1>3, <2>2 DEF DataInv, UsedOnce, Used
        <3>2. ASSUME NEW n \in Nodes, NEW i \in Inputs, NEW d \in Made
              PROVE  OnceInItems(Gone', n, i, d)
            BY <3>1 DEF DataInv, UsedOnce, OnceInItems, Apart, InItems
        <3>3. Apart(spent, current)
            BY <3>1 DEF Apart, InItems, Gone
        <3>4. \A x \in forgotten' : Apart(spent, x)
            BY <1>2, <2>2, <3>3 DEF DataInv, UsedOnce
        <3>5. Gone' \subseteq Item
            BY <3>1 DEF DataInv, UsedOnce
        <3> QED BY <1>1, <3>2, <3>4, <3>5 DEF UsedOnce, OnceInItems, Apart, InItems
    <2> QED BY <2>1, <2>2
<1>8. ArrivedIsMade' /\ ConfigOK'
    BY <1>1 DEF DataInv, ArrivedIsMade, ConfigOK, config
<1> QED BY <1>1, <1>6, <1>7, <1>8 DEF DataInv

(* A node has run: g is what its children made of the data.                *)
Passes(n, g) ==
    /\ Grown(Now, g, ChildNodes(n)) /\ FrameOK(g) /\ AllKept(g, Used)
    /\ FromRun(Now, g, n, made[n] + 1, Len(children[n]))

(* A node that succeeds leaves the data alone if it is the destination, or  *)
(* passes it on.                                                            *)
LEMMA SucceedsIs ==
    ASSUME DataInv, current # None, NEW outs, NEW how, Succeeds(outs, how)
    PROVE  /\ unchecked' = TRUE /\ current' = None /\ phase' \in {"loop", "added"}
           /\ Now' = Now \/ \E g : Passes(current.node, g) /\ Now' = g
<1> DEFINE n == current.node
           run == made[n] + 1
           g == AddChildren(Now, n, outs, run)
<1>1. n \in Nodes
    <2>1. current \in Item
        BY DEF DataInv, UsedOnce
    <2> QED BY <2>1 DEF Item
<1>2. /\ unchecked' = TRUE /\ current' = None /\ phase' \in {"loop", "added"}
      /\ UNCHANGED frame \/ Becomes(g)
    <2> HIDE DEF g
    <2>1. IF n = graph.destination THEN phase' = "loop" /\ UNCHANGED frame
          ELSE phase' = "added" /\ Becomes(g)
        BY Zenon DEF Succeeds, g
    <2>2. unchecked' = TRUE /\ current' = None
        BY Zenon DEF Succeeds
    <2> QED BY <2>1, <2>2
<1>3. CASE UNCHANGED frame
    <2>1. Now' = Now
        BY <1>3 DEF Now, frame, data
    <2> QED BY <1>2, <2>1
<1>4. CASE Becomes(g)
    <2> HIDE DEF n
    <2>1. run \in Nat
        <3>1. made[n] \in 0 .. MaxRuns
            BY <1>1 DEF DataInv
        <3> QED BY <3>1, NodeStackAssumption
    <2>2. \A m \in Nodes, i \in Inputs : \A d \in Range(Now.arrived[m][i]) : d.from = n => d.run # run
        <3> SUFFICES ASSUME NEW m \in Nodes, NEW i \in Inputs, NEW d \in Range(arrived[m][i]), d.from = n
                     PROVE  d.run # run
            BY NowParts
        <3>1. d.run <= made[n]
            BY DEF DataInv, ArrivedIsMade
        <3>2. d \in Made
            <4>1. arrived[m][i] \in Seq(Made)
                BY NowParts DEF DataInv, FrameOK
            <4> QED BY <4>1 DEF Range
        <3>3. d.run \in Nat /\ made[n] \in Nat
            BY <1>1, <3>2, NodeStackAssumption DEF DataInv, Made
        <3> QED BY <3>1, <3>3
    <2>3. FrameOK(Now) /\ AllKept(Now, Used) /\ ConfigOK
        BY DEF DataInv
    <2> HIDE DEF run
    <2>4. /\ FrameOK(g) /\ AllKept(g, Used) /\ Grown(Now, g, ChildNodes(n))
          /\ FromRun(Now, g, n, run, Len(children[n]))
        BY <1>1, <2>1, <2>2, <2>3, ChildrenKeep
    <2> HIDE DEF g
    <2>5. Passes(n, g)
        BY <2>4 DEF Passes, run
    <2>6. Now' = g
        BY <1>4, <2>4, NowBecomes
    <2> QED BY <1>2, <2>5, <2>6 DEF n
<1> QED BY <1>2, <1>3, <1>4

(* What the check of what waits leaves of the data.                         *)
LEMMA ChecksIs ==
    ASSUME DataInv, Checks
    PROVE  /\ current = None /\ current' = None /\ unchecked' = FALSE /\ phase = "added" /\ phase' = "loop"
           /\ UNCHANGED <<config, arrived, made, spent, forgotten, reports>>
           /\ \E g : /\ FrameOK(g) /\ AllKept(g, Used) /\ Range(g.keys) \subseteq Range(keys)
                     /\ Checked(Now, g) /\ Now' = g
<1> DEFINE g == CheckWaiting(Now)
<1>1. /\ phase = "added" /\ phase' = "loop" /\ unchecked' = FALSE /\ UNCHANGED <<current, config>>
      /\ UNCHANGED <<made, spent, forgotten, reports>> /\ Becomes(g)
    BY Zenon DEF Checks, result, past, ending
<1>2. current = None
    BY <1>1 DEF DataInv
<1>3. /\ FrameOK(g) /\ AllKept(g, Used) /\ g.arrived = arrived
      /\ Range(g.keys) \subseteq Range(keys) /\ Checked(Now, g)
    BY CheckKeeps, NowParts DEF DataInv
<1> HIDE DEF g
<1>4. Now' = g /\ arrived' = arrived
    BY <1>1, <1>3, NowBecomes DEF Becomes
<1> QED BY <1>1, <1>2, <1>3, <1>4

(* It keeps the data invariant.                                             *)
LEMMA DataChecks ==
    ASSUME DataInv, Checks PROVE DataInv'
<1>1. /\ current = None /\ current' = None /\ phase' = "loop"
      /\ UNCHANGED <<config, arrived, made, spent, forgotten>>
    BY ChecksIs
<1>2. PICK g : FrameOK(g) /\ AllKept(g, Used) /\ Now' = g
    BY ChecksIs
<1>3. Used' = Used /\ Gone' = Gone
    BY <1>1 DEF Used, Gone
<1>4. FrameOK(Now)' /\ AllKept(Now, Used)'
    BY <1>1, <1>2, <1>3, FrameStays, KeptThen DEF config
<1>5. UsedOnce' /\ ArrivedIsMade' /\ ConfigOK'
    BY <1>1, <1>3 DEF DataInv, UsedOnce, OnceInItems, Apart, InItems, ArrivedIsMade, ConfigOK, config
<1> QED BY <1>1, <1>4, <1>5 DEF DataInv

(* So does a node that succeeds: the data it makes is new.                  *)
LEMMA DataSucceeds ==
    ASSUME DataInv, current # None, UNCHANGED <<config, past>>,
           NEW outs, NEW how, Succeeds(outs, how)
    PROVE  DataInv'
<1> DEFINE n == current.node
<1>1. n \in Nodes
    <2>1. current \in Item
        BY DEF DataInv, UsedOnce
    <2> QED BY <2>1 DEF Item
<1>2. made[n] < MaxRuns /\ made' = [made EXCEPT ![n] = @ + 1] /\ spent' = spent \cup {current}
    BY Zenon DEF Succeeds
<1>a. current' = None /\ phase' \notin {"node", "putting"}
    BY SucceedsIs
<1> HIDE DEF n
<1>3. UsedOnce' /\ Used' = Used
    BY <1>2, <1>a, HasRun DEF past
<1>4. /\ made' \in [Nodes -> 0 .. MaxRuns] /\ made'[n] = made[n] + 1
      /\ \A m \in Nodes : made[m] \in Nat /\ made'[m] \in Nat /\ made[m] <= made'[m]
    <2>1. made \in [Nodes -> 0 .. MaxRuns] /\ MaxRuns \in Nat
        BY NodeStackAssumption DEF DataInv
    <2> QED BY <1>1, <1>2, <2>1
<1>5. ConfigOK' /\ UNCHANGED graph
    BY DEF DataInv, ConfigOK, config
<1>6. \A m \in Nodes, i \in Inputs : \A d \in Range(arrived[m][i]) :
          d.run <= made'[d.from] /\ \E e \in graph.edges : e.to = m /\ e.input = i
    <2> SUFFICES ASSUME NEW m \in Nodes, NEW i \in Inputs, NEW d \in Range(arrived[m][i])
                 PROVE  d.run <= made'[d.from] /\ \E e \in graph.edges : e.to = m /\ e.input = i
        OBVIOUS
    <2>1. d.run <= made[d.from] /\ \E e \in graph.edges : e.to = m /\ e.input = i
        BY DEF DataInv, ArrivedIsMade
    <2>2. d \in Made
        <3>1. arrived[m][i] \in Seq(Made)
            BY NowParts DEF DataInv, FrameOK
        <3> QED BY <3>1 DEF Range
    <2>3. d.run \in Nat /\ d.from \in Nodes
        BY <2>2 DEF Made
    <2> QED BY <1>4, <2>1, <2>3
<1>7. CASE Now' = Now
    <2>1. FrameOK(Now)' /\ AllKept(Now, Used)'
        BY <1>3, <1>5, <1>7, FrameStays, KeptThen DEF DataInv
    <2>2. arrived' = arrived
        BY <1>7 DEF Now
    <2>3. ArrivedIsMade'
        BY <1>5, <1>6, <2>2 DEF ArrivedIsMade
    <2> QED BY <1>3, <1>4, <1>5, <1>a, <2>1, <2>3 DEF DataInv
<1>8. ASSUME NEW g, Passes(n, g), Now' = g PROVE DataInv'
    <2>1. FrameOK(g) /\ AllKept(g, Used)
        BY <1>8 DEF Passes
    <2>2. FrameOK(Now)' /\ AllKept(Now, Used)'
        BY <1>3, <1>5, <1>8, <2>1, FrameStays, KeptThen
    <2>3. arrived' = g.arrived
        BY <1>8 DEF Now
    <2>4. ArrivedIsMade'
        <3> SUFFICES ASSUME NEW m \in Nodes, NEW i \in Inputs, NEW d \in Range(g.arrived[m][i])
                     PROVE  d.run <= made'[d.from] /\ \E e \in graph.edges : e.to = m /\ e.input = i
            BY <1>5, <2>3 DEF ArrivedIsMade
        <3>1. CASE d \in Range(arrived[m][i])
            BY <1>6, <3>1
        <3>2. CASE d \notin Range(arrived[m][i])
            <4>1. PICK j \in 1 .. Len(children[n]) :
                      /\ d.from = n /\ d.run = made[n] + 1
                      /\ children[n][j].to = m /\ children[n][j].input = i
                BY <1>8, <3>2, NowParts DEF Passes, FromRun
            <4>2. children[n] \in Seq(OutOf(n))
                BY <1>1, ChildrenDistinct DEF DataInv
            <4>3. children[n][j] \in OutOf(n)
                BY <4>1, <4>2
            <4>4. children[n][j] \in graph.edges
                BY <4>3 DEF OutOf
            <4>5. d.run <= made'[d.from]
                BY <1>1, <1>4, <4>1
            <4> QED BY <4>1, <4>4, <4>5
        <3> QED BY <3>1, <3>2
    <2> QED BY <1>3, <1>4, <1>5, <1>a, <2>2, <2>4 DEF DataInv
<1>9. Now' = Now \/ \E g : Passes(n, g) /\ Now' = g
    BY SucceedsIs DEF n
<1> QED BY <1>7, <1>8, <1>9

(* Every step keeps the data invariant.                                     *)
LEMMA DataStep ==
    ASSUME DataInv, [Next]_vars PROVE DataInv'
<1>1. CASE LoopEnds \/ TimesOut \/ processSuccessExecution \/ Closed \/ Reported \/ Cancel \/ NodeWaits
    <2>1. UNCHANGED <<config, frame, made, spent, current, forgotten>>
        BY <1>1 DEF LoopEnds, TimesOut, processSuccessExecution, Closed, Reported, Cancel, NodeWaits,
                    result, past
    <2>2. (phase' \in {"node", "putting"}) = (current' # None)
        BY <1>1 DEF DataInv, LoopEnds, TimesOut, processSuccessExecution, Closed, Report, Reported, Cancel,
                    NodeWaits
    <2> QED BY <2>1, <2>2, DataStays
<1>2. CASE NextNode
    BY <1>2, DataNext
<1>3. CASE NodeReturns \/ NodeFailsAndGoesOn
    <2>1. current # None /\ UNCHANGED <<config, past>>
        BY <1>3 DEF DataInv, NodeReturns, NodeFailsAndGoesOn
    <2>2. PICK outs, how : Succeeds(outs, how)
        BY <1>3, Zenon DEF NodeReturns, NodeFailsAndGoesOn
    <2> QED BY <2>1, <2>2, DataSucceeds
<1>4. CASE NodeReturnsNull
    BY <1>4, DataNull
<1>5. CASE NodeFails \/ WaitingIsPutBack
    <2>1. /\ current # None /\ PutBack(current) /\ current' = None /\ phase' \notin {"node", "putting"}
          /\ UNCHANGED <<config, data, made, spent, forgotten>>
        BY <1>5 DEF DataInv, NodeFails, WaitingIsPutBack, result, past
    <2> QED BY <2>1, DataPutBack
<1>6. CASE Resume \/ Retry
    BY <1>6, DataResume
<1>7. CASE Checks
    BY <1>7, DataChecks
<1>8. CASE UNCHANGED vars
    <2>1. UNCHANGED <<config, frame, made, spent, current, phase, forgotten>>
        BY <1>8 DEF vars, result, past
    <2> QED BY <2>1, DataStays DEF DataInv
<1> QED BY <1>1, <1>2, <1>3, <1>4, <1>5, <1>6, <1>7, <1>8 DEF Next

-------------------------------------------------------------------------------
(* The rest of the state, and the theorems about the data                   *)

Outcomes == {"success", "error", "waiting"}
Reports == {"canceled", "error", "waiting", "success"}

(* The types of what controls a run, as the proof needs them.               *)
ControlInv ==
    /\ runs \in [Nodes -> Seq(Outcomes)]
    /\ last \in Nodes \cup {None}
    /\ phase \in {"loop", "node", "added", "putting", "ending", "closing", "reporting", "ended"}
    /\ status \in {"running"} \cup Reports
    /\ error \in BOOLEAN /\ waitTill \in BOOLEAN /\ aborted \in BOOLEAN
    /\ reports \in Seq(Reports)
    /\ restarts \in 0 .. MaxRestarts
    /\ unchecked \in BOOLEAN /\ late \in BOOLEAN
    /\ phase = "closing" => status # "running"

(* The type invariant follows.                                              *)
LEMMA TypesFollow ==
    ASSUME DataInv, ControlInv PROVE TypeOK
<1>1. /\ stack \in Seq(Item) /\ IsWaiting(waiting, keys)
      /\ arrived \in [Nodes -> [Inputs -> Seq(Made)]]
      /\ dropped \subseteq [to : Nodes, input : Inputs, datum : Made]
    BY NowParts DEF DataInv, FrameOK
<1>2. stack \in Seq(Range(stack)) /\ Range(stack) \subseteq Item
    <2>1. DOMAIN stack = 1 .. Len(stack) /\ Len(stack) \in Nat /\ stack \in [1 .. Len(stack) -> Item]
        BY <1>1
    <2>2. stack \in [1 .. Len(stack) -> Range(stack)]
        BY <2>1 DEF Range
    <2> QED BY <2>1, <2>2 DEF Range
<1>3. (\A x \in Range(stack) \cup spent \cup forgotten : IsItem(x)) /\ (current = None \/ IsItem(current))
    BY <1>2, ItemsAre DEF DataInv, UsedOnce, Gone
<1> QED BY <1>1, <1>2, <1>3 DEF DataInv, ControlInv, ConfigOK, TypeOK, Outcomes, Reports

(* The types of what controls a run, at the start, ...                      *)
LEMMA ControlInit ==
    ASSUME Init PROVE ControlInv
<1>1. runs \in [Nodes -> Seq(Outcomes)]
    BY DEF Init
<1>2. 0 \in 0 .. MaxRestarts
    BY NodeStackAssumption
<1>3. <<>> \in Seq(Reports)
    OBVIOUS
<1>4. /\ last = None /\ phase = "loop" /\ status = "running" /\ error = FALSE /\ waitTill = FALSE
      /\ aborted = FALSE /\ reports = <<>> /\ restarts = 0 /\ unchecked = FALSE /\ late = FALSE
    BY DEF Init
<1> QED BY <1>1, <1>2, <1>3, <1>4 DEF ControlInv

(* ... of the run data with a run added, or with runs removed, ...          *)
LEMMA RunsTyped ==
    ASSUME NEW f \in [Nodes -> Seq(Outcomes)], NEW n
    PROVE  /\ \A how \in Outcomes : [f EXCEPT ![n] = Append(@, how)] \in [Nodes -> Seq(Outcomes)]
           /\ [f EXCEPT ![n] = Front(@)] \in [Nodes -> Seq(Outcomes)]
<1>1. ASSUME n \in Nodes PROVE Front(f[n]) \in Seq(Outcomes)
    <2> DEFINE s == f[n]
    <2>1. s \in Seq(Outcomes)
        BY <1>1
    <2> HIDE DEF s
    <2>2. \A k \in 1 .. Len(s) - 1 : s[k] \in Outcomes
        BY <2>1
    <2>3. SubSeq(s, 1, Len(s) - 1) \in Seq(Outcomes)
        BY <2>1, <2>2, SubSeqProperties
    <2> QED BY <2>3 DEF Front, s
<1>2. \A how \in Outcomes : [f EXCEPT ![n] = Append(@, how)] \in [Nodes -> Seq(Outcomes)]
    <2> TAKE how \in Outcomes
    <2> DEFINE t == Append(f[n], how)
    <2>1. n \in Nodes => t \in Seq(Outcomes)
        OBVIOUS
    <2> HIDE DEF t
    <2>2. [f EXCEPT ![n] = t] \in [Nodes -> Seq(Outcomes)]
        BY <2>1
    <2> QED BY <2>2 DEF t
<1>3. [f EXCEPT ![n] = Front(@)] \in [Nodes -> Seq(Outcomes)]
    <2> DEFINE t == Front(f[n])
               g == [f EXCEPT ![n] = t]
    <2>1. g \in [Nodes -> Seq(Outcomes)]
        <3> HIDE DEF t
        <3> QED BY <1>1 DEF t
    <2> QED BY <2>1
<1> QED BY <1>2, <1>3

(* ... and after every step.                                                *)
LEMMA ControlStep ==
    ASSUME DataInv, ControlInv, [Next]_vars PROVE ControlInv'
<1>1. CASE LoopEnds \/ TimesOut \/ Reported
    BY <1>1 DEF LoopEnds, TimesOut, Reported, ControlInv, result, ending, past, Reports
<1>2. CASE NextNode
    BY <1>2 DEF NextNode, FilteredOut, ControlInv, ending, past
<1>a. ASSUME current # None PROVE current.node \in Nodes
    <2>1. current \in Item
        BY <1>a DEF DataInv, UsedOnce
    <2> QED BY <2>1 DEF Item
<1>b. current # None => current.node \in Nodes
    BY <1>a
<1>c. runs \in [Nodes -> Seq(Outcomes)]
    BY DEF ControlInv
<1>3. ASSUME NEW outs, NEW how \in Outcomes, Succeeds(outs, how), current # None
      PROVE  /\ runs' \in [Nodes -> Seq(Outcomes)] /\ last' \in Nodes /\ unchecked' \in BOOLEAN
             /\ phase' \in {"loop", "added"}
    <2>1. runs' = [runs EXCEPT ![current.node] = Append(@, how)] /\ last' = current.node
        BY <1>3, Zenon DEF Succeeds, Ran
    <2>2. unchecked' = TRUE /\ phase' \in {"loop", "added"}
        BY <1>3, SucceedsIs
    <2> QED BY <1>3, <1>b, <1>c, <2>1, <2>2, RunsTyped
<1>4. CASE NodeReturns
    <2>1. current # None /\ UNCHANGED <<error, waitTill, aborted, reports, late, status, restarts>>
        BY <1>4 DEF DataInv, NodeReturns, ending, past
    <2>2. PICK outs : Succeeds(outs, "success")
        BY <1>4, Zenon DEF NodeReturns
    <2>3. "success" \in Outcomes
        BY DEF Outcomes
    <2>4. /\ runs' \in [Nodes -> Seq(Outcomes)] /\ last' \in Nodes /\ unchecked' \in BOOLEAN
          /\ phase' \in {"loop", "added"}
        BY <1>3, <2>1, <2>2, <2>3
    <2> QED BY <2>1, <2>4 DEF ControlInv
<1>5. CASE NodeFailsAndGoesOn
    <2>1. current # None /\ error' = TRUE
          /\ UNCHANGED <<waitTill, aborted, reports, late, status, restarts>>
        BY <1>5 DEF DataInv, NodeFailsAndGoesOn, ending, past
    <2>2. Succeeds(PassedOn, "error")
        BY <1>5 DEF NodeFailsAndGoesOn
    <2>3. "error" \in Outcomes
        BY DEF Outcomes
    <2>4. /\ runs' \in [Nodes -> Seq(Outcomes)] /\ last' \in Nodes /\ unchecked' \in BOOLEAN
          /\ phase' \in {"loop", "added"}
        BY <1>3, <2>1, <2>2, <2>3
    <2> QED BY <2>1, <2>4 DEF ControlInv
<1>6. CASE NodeReturnsNull \/ Checks \/ WaitingIsPutBack
    BY <1>6 DEF NodeReturnsNull, Checks, WaitingIsPutBack, ControlInv, result, ending, past
<1>7. CASE NodeFails \/ NodeWaits
    <2>1. /\ current # None /\ phase' \in {"ending", "putting"} /\ error' \in BOOLEAN /\ waitTill' \in BOOLEAN
          /\ UNCHANGED <<aborted, reports, late, status, restarts, unchecked>>
        BY <1>7 DEF DataInv, ControlInv, NodeFails, NodeWaits, ending, past
    <2>2. PICK how \in Outcomes : Ran(current.node, how)
        BY <1>7 DEF NodeFails, NodeWaits, Outcomes
    <2>3. runs' = [runs EXCEPT ![current.node] = Append(@, how)] /\ last' = current.node
        BY <2>2 DEF Ran
    <2>4. runs' \in [Nodes -> Seq(Outcomes)]
        BY <1>c, <2>3, RunsTyped
    <2> QED BY <1>b, <2>1, <2>3, <2>4 DEF ControlInv
<1>8. CASE Cancel
    <2>1. reports' \in Seq(Reports)
        BY <1>8 DEF Cancel, ControlInv, Reports
    <2> QED BY <1>8, <2>1 DEF Cancel, ControlInv, result, past, Reports
<1>9. CASE processSuccessExecution
    BY <1>9 DEF processSuccessExecution, ControlInv, result, ending, past, Reports
<1>10. CASE Closed
    <2>1. reports' \in Seq(Reports) /\ phase' \in {"reporting", "ended"}
        <3>1. status \in Reports
            BY <1>10 DEF Closed, ControlInv
        <3> QED BY <1>10, <3>1 DEF Closed, Report, ControlInv
    <2> QED BY <1>10, <2>1 DEF Closed, ControlInv, result, past
<1>11. CASE Resume \/ Retry
    <2> DEFINE popped == [runs EXCEPT ![last'] = Front(@)]
    <2>1. /\ phase' = "loop" /\ status' = "running" /\ restarts < MaxRestarts /\ restarts' = restarts + 1
          /\ error' = FALSE /\ waitTill' = FALSE /\ aborted' = FALSE /\ reports' = <<>> /\ late' = FALSE
        BY <1>11 DEF Resume, Retry, Restart
    <2>2. popped \in [Nodes -> Seq(Outcomes)]
        BY <1>c, RunsTyped
    <2>3. PICK ran \in {runs, popped} : runs' = IF waitTill THEN [ran EXCEPT ![last'] = Front(@)] ELSE ran
        BY <1>11 DEF Resume, Retry, Restart
    <2>4. ran \in [Nodes -> Seq(Outcomes)]
        BY <1>c, <2>2
    <2>5. runs' \in [Nodes -> Seq(Outcomes)]
        BY <2>3, <2>4, RunsTyped
    <2>6. restarts' \in 0 .. MaxRestarts
        BY <2>1, NodeStackAssumption DEF ControlInv
    <2>7. reports' \in Seq(Reports)
        BY <2>1
    <2>8. last' \in Nodes \cup {None} /\ unchecked' \in BOOLEAN
        <3>1. CASE Resume
            BY <3>1 DEF Resume, ControlInv
        <3>2. CASE Retry
            <4>1. phase = "node" => current # None
                BY DEF DataInv
            <4>2. last' \in Nodes \cup {None}
                BY <1>b, <3>2, <4>1 DEF Retry, LastInRow, ControlInv
            <4> QED BY <3>2, <4>2 DEF Retry, ControlInv
        <3> QED BY <1>11, <3>1, <3>2
    <2> QED BY <2>1, <2>5, <2>6, <2>7, <2>8 DEF ControlInv
<1>12. CASE UNCHANGED vars
    BY <1>12 DEF vars, result, ending, past, ControlInv
<1> QED BY <1>1, <1>2, <1>4, <1>5, <1>6, <1>7, <1>8, <1>9, <1>10, <1>11, <1>12 DEF Next

(* The whole of it *)
Inv == DataInv /\ ControlInv

(* The inductive invariant of the run loop: the data it keeps (the stack,   *)
(* the waiting data and its keys, what has arrived, what was used and what  *)
(* was lost), and the types of the rest.                                    *)
THEOREM InvHolds == Spec => []Inv
<1>1. Init => Inv
    BY DataInit, ControlInit DEF Inv
<1>2. Inv /\ [Next]_vars => Inv'
    BY DataStep, ControlStep DEF Inv
<1> QED BY <1>1, <1>2, PTL DEF Spec

(* The execution data of the run loop has the shape the code relies on: a   *)
(* key for each node with waiting data, entries only as long as an input is *)
(* missing.                                                                 *)
THEOREM TypesHold == Spec => []TypeOK
<1>1. Inv => TypeOK
    BY TypesFollow DEF Inv
<1> QED BY <1>1, InvHolds, PTL

(* A set without two elements has one or none.                              *)
LEMMA AtMostOne ==
    ASSUME NEW T, \A x, y \in T : x = y
    PROVE  Cardinality(T) = IF T = {} THEN 0 ELSE 1
<1>1. CASE T = {}
    BY <1>1, FS_EmptySet
<1>2. CASE T # {}
    <2>1. PICK x \in T : TRUE
        BY <1>2
    <2>2. T = {x}
        BY <2>1
    <2> QED BY <1>2, <2>2, FS_Singleton
<1> QED BY <1>1, <1>2

(* A datum that has arrived is in one place, counted over all of them.      *)
LEMMA OnePlace ==
    ASSUME DataInv, NEW n \in Nodes, NEW i \in Inputs, NEW d \in Range(arrived[n][i])
    PROVE  Places(n, i, d) = 1
<1> DEFINE A == {k \in DOMAIN stack : Has(stack[k], n, i, d)}
           B == {index \in DOMAIN waiting[n] : waiting[n][index][i] = d}
           C == {x \in spent : Has(x, n, i, d)}
           F == {x \in forgotten : Has(x, n, i, d)}
           D == current # None /\ Has(current, n, i, d)
           E == [to |-> n, input |-> i, datum |-> d] \in dropped
<1>1. d \in Made
    <2>1. arrived[n][i] \in Seq(Made)
        BY NowParts DEF DataInv, FrameOK
    <2> QED BY <2>1 DEF Range
<1>2. /\ Kept(Now, Used, n, i, d) /\ OnceInItems(Gone, n, i, d)
      /\ \A x \in forgotten : Has(x, n, i, d) => ~InItems(spent, n, i, d)
      /\ current # None => (Has(current, n, i, d) => ~InItems(Gone, n, i, d))
    BY <1>1 DEF DataInv, AllKept, UsedOnce, Apart
<1>3. (\A x, y \in A : x = y) /\ (A # {} <=> InStack(stack, n, i, d))
    BY <1>2, NowParts DEF Kept, OnceInStack, InStack
<1>4. \A index \in DOMAIN waiting[n] : waiting[n][index][i] = d <=> Holds(waiting[n][index], i, d)
    <2>1. PICK e \in graph.edges : e.to = n /\ e.input = i
        BY DEF DataInv, ArrivedIsMade
    <2>2. i \in 1 .. numberOfInputs(n)
        BY <2>1, ConfigGraph, InputsOfNode DEF DataInv
    <2>3. \A index \in DOMAIN waiting[n] : IsEntry(n, waiting[n][index])
        BY NowParts DEF DataInv, FrameOK, IsWaiting
    <2>4. \A index \in DOMAIN waiting[n] : i \in DOMAIN waiting[n][index]
        BY <2>2, <2>3 DEF IsEntry
    <2> QED BY <2>4 DEF Holds
<1>5. (\A x, y \in B : x = y) /\ (B # {} <=> InEntries(waiting[n], i, d))
    BY <1>2, <1>4, NowParts DEF Kept, OnceInEntries, InEntries
<1>6. /\ \A x, y \in C : x = y
      /\ \A x, y \in F : x = y
      /\ C # {} => F = {}
    BY <1>2 DEF OnceInItems, InItems, Gone
<1>7. /\ InItems(Used, n, i, d) <=> C # {} \/ F # {} \/ D
      /\ D => C = {} /\ F = {}
    BY <1>2 DEF InItems, Used, Gone
<1>8. E <=> InDropped(dropped, n, i, d)
    BY DEF InDropped
<1>9. /\ Cardinality(A) = IF A = {} THEN 0 ELSE 1
      /\ Cardinality(B) = IF B = {} THEN 0 ELSE 1
      /\ Cardinality(C) = IF C = {} THEN 0 ELSE 1
      /\ Cardinality(F) = IF F = {} THEN 0 ELSE 1
    <2> HIDE DEF A, B, C, F
    <2> QED BY <1>3, <1>5, <1>6, AtMostOne
<1>10. Places(n, i, d) = Cardinality(A) + Cardinality(B) + Cardinality(C) + Cardinality(F)
                         + (IF D THEN 1 ELSE 0) + (IF E THEN 1 ELSE 0)
    BY DEF Places
<1> HIDE DEF A, B, C, D, E, F
<1>11. \/ A # {} /\ B = {} /\ C = {} /\ F = {} /\ ~D /\ ~E
       \/ A = {} /\ B # {} /\ C = {} /\ F = {} /\ ~D /\ ~E
       \/ A = {} /\ B = {} /\ C # {} /\ F = {} /\ ~D /\ ~E
       \/ A = {} /\ B = {} /\ C = {} /\ F # {} /\ ~D /\ ~E
       \/ A = {} /\ B = {} /\ C = {} /\ F = {} /\ D /\ ~E
       \/ A = {} /\ B = {} /\ C = {} /\ F = {} /\ ~D /\ E
    BY <1>2, <1>3, <1>5, <1>6, <1>7, <1>8, NowParts DEF Kept
<1> QED BY <1>9, <1>10, <1>11

(* Each datum that was passed over a connection is in one place: on the     *)
(* stack, waiting, in the hands of the node that runs, used, replaced by the*)
(* entry of a later run, or forgotten, since the row of a canceled execution*)
(* was written while its node ran, and a retry started from that row.       *)
(* Nothing else loses a datum (neither a node that fails and is put back nor*)
(* a resume), and no datum is used twice.                                   *)
THEOREM DataConserved == Spec => []Conserved
<1>1. Inv => Conserved
    BY OnePlace DEF Inv, Conserved
<1> QED BY <1>1, InvHolds, PTL

-------------------------------------------------------------------------------
(* What a success leaves                                                    *)

(* The variables of the next state, as fields of a frame.                   *)
LEMMA NowThen ==
    ASSUME NEW g, Now' = g
    PROVE  stack' = g.stack /\ keys' = g.keys /\ arrived' = g.arrived
BY DEF Now

(* Once the stack is empty, nothing that waits can run, ... *)
NothingReady == \A n \in Range(keys) : ~CanRun([keys |-> keys], n)

(* ... and that it is empty is what a success means.                       *)
ReadyInv ==
    /\ phase \notin {"node", "putting"} /\ stack = <<>> /\ ~unchecked => NothingReady
    /\ phase = "putting" => waitTill
    /\ phase = "ending" /\ ~error /\ ~waitTill /\ status # "canceled" => stack = <<>>
    /\ phase = "closing" /\ status = "success" => stack = <<>>
    /\ "success" \in Range(reports) => phase \in {"reporting", "ended"} /\ stack = <<>>

(* A run starts with something on the stack, and no report.                 *)
LEMMA ReadyInit ==
    ASSUME Init PROVE ReadyInv
<1>1. stack # <<>> /\ phase = "loop" /\ Range(reports) = {}
    BY DEF Init, Range
<1> QED BY <1>1 DEF ReadyInv

(* Whether a waiting node can run depends on the workflow and on which nodes*)
(* wait.                                                                    *)
LEMMA ReadyStays ==
    ASSUME NothingReady, UNCHANGED <<config, keys>> PROVE NothingReady'
BY DEF NothingReady, CanRun, config

(* What has been reported with one more report.                             *)
LEMMA AppendedTo ==
    ASSUME NEW r \in Seq(Reports), NEW x \in Reports
    PROVE  Range(Append(r, x)) = Range(r) \cup {x}
BY AtTheEnd

(* Every step keeps it: the stack is left empty only after a check that let *)
(* no node run.                                                             *)
LEMMA ReadyStep ==
    ASSUME DataInv, ControlInv, ReadyInv, [Next]_vars PROVE ReadyInv'
<1>1. CASE LoopEnds \/ TimesOut
    <2>1. phase = "loop" /\ phase' = "ending" /\ UNCHANGED <<config, stack, keys, reports, unchecked, error, waitTill>>
        BY <1>1 DEF LoopEnds, TimesOut, frame, data, ending
    <2>2. status' = "canceled" \/ stack' = <<>>
        BY <1>1 DEF LoopEnds, TimesOut, frame
    <2> QED BY <2>1, <2>2, ReadyStays DEF ReadyInv
<1>2. CASE Reported
    <2>1. phase = "reporting" /\ phase' = "ended" /\ UNCHANGED <<config, stack, keys, reports, unchecked>>
        BY <1>2 DEF Reported, frame, data, ending
    <2> QED BY <2>1, ReadyStays DEF ReadyInv
<1>3. CASE NextNode
    <2>1. phase = "loop" /\ UNCHANGED reports /\ ((phase' = "loop" /\ unchecked' = TRUE) \/ phase' = "node")
        BY <1>3 DEF NextNode, FilteredOut, ending
    <2> QED BY <2>1 DEF ReadyInv
<1>4. CASE NodeReturns \/ NodeFailsAndGoesOn
    <2>1. phase = "node" /\ current # None /\ UNCHANGED reports
        BY <1>4 DEF DataInv, NodeReturns, NodeFailsAndGoesOn, ending
    <2>2. PICK outs, how : Succeeds(outs, how)
        BY <1>4, Zenon DEF NodeReturns, NodeFailsAndGoesOn
    <2>3. unchecked' = TRUE /\ phase' \in {"loop", "added"}
        BY <2>1, <2>2, SucceedsIs
    <2> QED BY <2>1, <2>3 DEF ReadyInv
<1>a. CASE Checks
    <2>1. phase = "added" /\ phase' = "loop" /\ UNCHANGED <<config, reports>>
        BY <1>a, ChecksIs
    <2>2. PICK g : Checked(Now, g) /\ Now' = g
        BY <1>a, ChecksIs
    <2>3. ASSUME stack' = <<>> PROVE NothingReady'
        <3>1. stack' = g.stack /\ keys' = g.keys
            BY <2>2, NowThen
        <3>2. g = Now /\ \A n \in Range(keys) : ~CanRun(Now, n)
            BY <2>2, <2>3, <3>1, NowParts DEF Checked
        <3>3. keys' = keys
            BY <3>1, <3>2, NowParts
        <3> QED BY <2>1, <3>2, <3>3, NowParts DEF NothingReady, CanRun, config
    <2> QED BY <2>1, <2>3 DEF ReadyInv
<1>5. CASE NodeReturnsNull
    <2>1. phase = "node" /\ phase' = "loop" /\ unchecked' = TRUE /\ UNCHANGED reports
        BY <1>5 DEF NodeReturnsNull, ending
    <2> QED BY <2>1 DEF ReadyInv
<1>b. CASE NodeWaits
    <2>1. phase = "node" /\ phase' = "putting" /\ waitTill' = TRUE /\ UNCHANGED reports
        BY <1>b DEF NodeWaits, ending
    <2> QED BY <2>1 DEF ReadyInv
<1>6. CASE NodeFails \/ WaitingIsPutBack
    <2>1. /\ phase \in {"node", "putting"} /\ current # None /\ phase' = "ending" /\ UNCHANGED reports
          /\ stack' = <<current>> \o stack /\ (error' = TRUE \/ waitTill' = TRUE)
        BY <1>6 DEF DataInv, ReadyInv, ControlInv, NodeFails, WaitingIsPutBack, PutBack, ending
    <2>2. stack' # <<>>
        <3>1. current \in Item /\ stack \in Seq(Item)
            BY <2>1, NowParts DEF DataInv, UsedOnce, FrameOK
        <3>2. Len(<<current>> \o stack) = Len(stack) + 1 /\ Len(stack) \in Nat
            BY <3>1, InFront
        <3> QED BY <2>1, <3>2
    <2> QED BY <2>1, <2>2 DEF ReadyInv
<1>7. CASE Cancel
    <2>1. /\ phase # "ended" /\ status' = "canceled" /\ reports' = Append(reports, "canceled")
          /\ UNCHANGED <<config, stack, keys, phase, unchecked, error, waitTill>>
        BY <1>7 DEF Cancel, frame, data
    <2>2. Range(reports') = Range(reports) \cup {"canceled"}
        <3>1. "canceled" \in Reports /\ reports \in Seq(Reports)
            BY DEF Reports, ControlInv
        <3> QED BY <2>1, <3>1, AppendedTo
    <2> QED BY <2>1, <2>2, ReadyStays DEF ReadyInv
<1>8. CASE processSuccessExecution
    <2>1. /\ phase = "ending" /\ phase' = "closing" /\ UNCHANGED <<config, stack, keys, unchecked, reports>>
          /\ status' = "success" => ~error /\ ~waitTill /\ status # "canceled"
        BY <1>8 DEF processSuccessExecution, frame, data, ending
    <2> QED BY <2>1, ReadyStays DEF ReadyInv
<1>9. CASE Closed
    <2>1. /\ phase = "closing" /\ UNCHANGED <<config, stack, keys, unchecked>>
          /\ \/ phase' = "ended" /\ UNCHANGED reports
             \/ phase' = "reporting" /\ reports' = Append(reports, status)
        BY <1>9 DEF Closed, Report, frame, data
    <2>2. Range(reports') \subseteq Range(reports) \cup {status}
        <3>1. status \in Reports /\ reports \in Seq(Reports)
            BY <2>1 DEF ControlInv
        <3>2. Range(Append(reports, status)) = Range(reports) \cup {status}
            BY <3>1, AppendedTo
        <3> QED BY <2>1, <3>2
    <2> QED BY <2>1, <2>2, ReadyStays DEF ReadyInv
<1>10. CASE Resume \/ Retry
    <2>1. /\ phase' = "loop" /\ reports' = <<>> /\ UNCHANGED <<config, keys>>
          /\ stack' = FirstDisabled(stack) \/ stack' = stack
        BY <1>10, StartsAgain DEF Resume, Retry, Restart, data
    <2>2. stack' = <<>> => stack = <<>>
        <3>1. stack \in Seq(Item)
            BY NowParts DEF DataInv, FrameOK
        <3>2. DOMAIN FirstDisabled(stack) = DOMAIN stack
            BY <3>1, DisabledIs
        <3> QED BY <2>1, <3>1, <3>2
    <2>3. Range(reports') = {}
        BY <2>1 DEF Range
    <2>4. ~unchecked' => ~unchecked /\ current = None
        BY <1>10 DEF Resume, Retry, DataInv, ControlInv
    <2>5. current = None => phase \notin {"node", "putting"}
        BY DEF DataInv
    <2> QED BY <2>1, <2>2, <2>3, <2>4, <2>5, ReadyStays DEF ReadyInv
<1>11. CASE UNCHANGED vars
    <2>1. UNCHANGED <<config, stack, keys, reports, unchecked, phase, status, error, waitTill>>
        BY <1>11 DEF vars, frame, data, ending
    <2> QED BY <2>1, ReadyStays DEF ReadyInv
<1> QED BY <1>1, <1>2, <1>3, <1>4, <1>5, <1>6, <1>7, <1>8, <1>9, <1>10, <1>11, <1>a, <1>b DEF Next

(* So what waits when a run succeeds waits for the inputs of a node that    *)
(* needs them all.                                                          *)
LEMMA LeftIsNeeded ==
    ASSUME DataInv, ReadyInv PROVE LeftOnlyByNeed
<1> SUFFICES ASSUME reports = <<"success">>, Acyclic, ~unchecked, NEW n \in Range(keys)
             PROVE  \E m \in Range(keys) : m \in graph.needsAll /\ m \in parents[n] \cup {n}
    BY DEF LeftOnlyByNeed
<1>1. "success" \in Range(reports)
    BY DEF Range
<1>2. NothingReady
    BY <1>1 DEF ReadyInv
<1>3. Range(keys) \in SUBSET Nodes
    BY NowParts DEF DataInv, FrameOK, IsWaiting
<1>4. PICK m \in Range(keys) \cap (parents[n] \cup {n}) : Range(keys) \cap parents[m] = {}
    BY <1>3, SomeWaitFirst DEF DataInv
<1>5. m \in graph.needsAll
    BY <1>2, <1>4 DEF NothingReady, CanRun
<1> QED BY <1>4, <1>5

(* A run without loops that succeeds leaves waiting only what waits for a   *)
(* node that needs all its inputs: the check after each run starts every    *)
(* other one. Left out are the runs whose last node passed over the check,  *)
(* and a retry from a row that was written before the check was done.       *)
THEOREM NothingLeftUnneeded == Spec => []LeftOnlyByNeed
<1>1. Init => ReadyInv
    BY ReadyInit
<1>2. Inv /\ ReadyInv /\ [Next]_vars => ReadyInv'
    BY ReadyStep DEF Inv
<1>3. Inv /\ ReadyInv => LeftOnlyByNeed
    BY LeftIsNeeded DEF Inv
<1> QED BY <1>1, <1>2, <1>3, InvHolds, PTL DEF Spec

-------------------------------------------------------------------------------
(* Inputs that are missing                                                  *)

(* The nodes that have, or wait for, data; nothing reaches a node any more *)
(* once none of them is above it.                                          *)
Busy == Range(keys) \cup {x.node : x \in Range(stack)}
        \cup (IF current = None THEN {} ELSE {current.node})
Lacks(x) == Empty \in Range(x.main)
Quiet(x) == parents[x.node] \cap Busy = {}
QuietInv == Acyclic => \A x \in Items : Lacks(x) => Quiet(x)

(* The first item lacks no input.                                           *)
LEMMA QuietInit ==
    ASSUME Init PROVE QuietInv
<1> DEFINE x == [node |-> graph.start, disabled |-> FALSE, main |-> <<Start>>]
<1>1. ~Lacks(x)
    <2>1. Start # Empty
        BY DEF Start, Empty
    <2> QED BY <2>1 DEF Lacks, Range
<1>2. Items = {x}
    <2> HIDE DEF x
    <2>1. stack = <<x>> /\ spent = {} /\ current = None
        BY DEF Init, x
    <2> QED BY <2>1 DEF Items, Range
<1> QED BY <1>1, <1>2 DEF QuietInv

(* Whether the workflow has loops does not change.                          *)
LEMMA AcyclicStays ==
    ASSUME UNCHANGED config PROVE Acyclic' = Acyclic
BY DEF Acyclic, config

(* A step that makes no node busy and puts no new item on the stack keeps   *)
(* it, ...                                                                  *)
LEMMA QuietStays ==
    ASSUME QuietInv, UNCHANGED config, Busy' \subseteq Busy,
           \A x \in Items' : \E y \in Items : y.node = x.node /\ y.main = x.main
    PROVE  QuietInv'
<1> SUFFICES ASSUME Acyclic, NEW x \in Items', Lacks(x) PROVE Quiet(x)'
    BY AcyclicStays DEF QuietInv, Lacks
<1>1. PICK y \in Items : y.node = x.node /\ y.main = x.main
    OBVIOUS
<1>2. parents[y.node] \cap Busy = {}
    BY <1>1 DEF QuietInv, Lacks, Quiet
<1> QED BY <1>1, <1>2 DEF Quiet, config

(* ... one that changes neither in particular.                              *)
LEMMA QuietSame ==
    ASSUME QuietInv, UNCHANGED <<config, stack, keys, spent, current>> PROVE QuietInv'
<1>1. Busy' = Busy /\ Items' = Items
    BY DEF Busy, Items
<1> QED BY <1>1, QuietStays

(* A node is above the parents its children are, or are above.              *)
LEMMA ChildrenBelow ==
    ASSUME ConfigOK, Acyclic, NEW n, NEW m \in Nodes, NEW k \in ChildNodes(n), k \in parents[m] \cup {m}
    PROVE  n \in parents[m]
<1>1. PICK e \in graph.edges : e.from = n /\ e.to = k
    BY DEF ChildNodes, OutOf
<1> QED BY <1>1, SourceIsParent

(* The nodes of the items of a stack. *)
NodesOf(s) == {x.node : x \in Range(s)}

(* What the items are made of.                                              *)
LEMMA ItemsTyped ==
    ASSUME DataInv PROVE Items \subseteq Item /\ \A x \in Items : x.node \in Nodes
<1>1. Range(stack) \subseteq Item
    <2>1. stack \in Seq(Item)
        BY NowParts DEF DataInv, FrameOK
    <2> QED BY <2>1 DEF Range
<1>2. Items \subseteq Item
    BY <1>1 DEF Items, DataInv, UsedOnce, Gone
<1>3. \A x \in Item : x.node \in Nodes
    BY DEF Item
<1> QED BY <1>2, <1>3

(* The run of a node keeps it: its children are below it, ...               *)
LEMMA QuietPasses ==
    ASSUME DataInv, DataInv', QuietInv, current # None, current' = None, UNCHANGED config,
           spent' = spent \cup {current}, NEW g, Passes(current.node, g), Now' = g
    PROVE  QuietInv'
<1> DEFINE n == current.node
           T == ChildNodes(n)
<1> SUFFICES ASSUME Acyclic, NEW x \in Items', Lacks(x) PROVE parents[x.node] \cap Busy' = {}
    BY AcyclicStays DEF QuietInv, Quiet, Lacks, config
<1>1. stack' = g.stack /\ keys' = g.keys
    BY NowThen
<1>2. /\ Range(g.keys) \subseteq Range(keys) \cup T
      /\ \A y \in Range(g.stack) : y \in Range(stack) \/ (y.node \in T /\ ~Lacks(y))
    BY NowParts DEF Passes, Grown, Lacks
<1>3. Range(keys) \cup NodesOf(stack) \cup {n} = Busy
    BY DEF Busy, NodesOf
<1>4. Busy' = Range(g.keys) \cup NodesOf(g.stack)
    BY <1>1 DEF Busy, NodesOf
<1>5. x \in Items
    BY <1>1, <1>2 DEF Items
<1>6. x.node \in Nodes /\ ConfigOK
    BY <1>5, ItemsTyped DEF DataInv
<1>7. Busy' \subseteq Busy \cup T
    BY <1>2, <1>3, <1>4 DEF NodesOf
<1>8. parents[x.node] \cap Busy = {} /\ n \in Busy
    BY <1>3, <1>5 DEF QuietInv, Quiet
<1>9. ASSUME NEW k \in T, k \in parents[x.node] PROVE FALSE
    <2>1. n \in parents[x.node]
        BY <1>6, <1>9, ChildrenBelow
    <2> QED BY <1>8, <2>1
<1> QED BY <1>7, <1>8, <1>9

(* ... and the check runs a node without an input only if nothing above it  *)
(* waits.                                                                   *)
LEMMA QuietChecks ==
    ASSUME DataInv, QuietInv, Checks PROVE QuietInv'
<1>1. current = None /\ current' = None /\ UNCHANGED <<config, spent>>
    BY ChecksIs
<1>2. PICK g : Range(g.keys) \subseteq Range(keys) /\ Checked(Now, g) /\ Now' = g
    BY ChecksIs
<1>3. stack' = g.stack /\ keys' = g.keys
    BY <1>2, NowThen
<1>4. Busy' = Range(g.keys) \cup NodesOf(g.stack) /\ Busy = Range(keys) \cup NodesOf(stack)
    BY <1>1, <1>3 DEF Busy, NodesOf
<1>5. CASE g = Now
    <2>1. Items' \subseteq Items /\ Busy' \subseteq Busy
        BY <1>1, <1>3, <1>4, <1>5, NowParts DEF Items
    <2> QED BY <1>1, <2>1, QuietStays
<1>6. ASSUME NEW m \in Range(keys), NEW y \in Item,
             stack = <<>>, CanRun(Now, m), y.node = m, g.stack = <<y>> \o stack
      PROVE  QuietInv'
    <2> SUFFICES ASSUME Acyclic, NEW x \in Items', Lacks(x) PROVE parents[x.node] \cap Busy' = {}
        BY <1>1, AcyclicStays DEF QuietInv, Quiet, Lacks, config
    <2>1. Range(g.stack) = {y}
        <3>1. stack \in Seq(Item) /\ Range(stack) = {}
            BY <1>6, NowParts DEF DataInv, FrameOK, Range
        <3>2. Range(<<y>> \o stack) = Range(stack) \cup {y}
            BY <3>1, InFront
        <3> QED BY <1>6, <3>1, <3>2
    <2>2. NodesOf(g.stack) = {m}
        BY <1>6, <2>1 DEF NodesOf
    <2>3. Busy' \subseteq Range(keys)
        BY <1>2, <1>4, <2>2
    <2>4. CASE x = y
        <3>1. Range(keys) \cap parents[m] = {}
            BY <1>6, NowParts DEF CanRun
        <3> QED BY <1>6, <2>3, <2>4, <3>1
    <2>5. CASE x # y
        <3>1. x \in Items
            BY <1>1, <1>3, <2>1, <2>5 DEF Items
        <3>2. parents[x.node] \cap Busy = {}
            BY <3>1 DEF QuietInv, Quiet
        <3> QED BY <1>4, <2>3, <3>2
    <2> QED BY <2>4, <2>5
<1> QED BY <1>2, <1>5, <1>6, NowParts DEF Checked

(* Every step keeps it.                                                     *)
LEMMA QuietStep ==
    ASSUME DataInv, QuietInv, [Next]_vars PROVE QuietInv'
<1>0. /\ stack \in Seq(Item) /\ (current = None \/ current \in Item)
      /\ DataInv'
    BY DataStep, NowParts DEF DataInv, FrameOK, UsedOnce
<1>1. CASE LoopEnds \/ TimesOut \/ processSuccessExecution \/ Closed \/ Reported \/ Cancel \/ NodeWaits
           \/ UNCHANGED vars
    <2>1. UNCHANGED <<config, stack, keys, spent, current>>
        BY <1>1 DEF LoopEnds, TimesOut, processSuccessExecution, Closed, Reported, Cancel, NodeWaits,
                    vars, result, frame, data
    <2> QED BY <2>1, QuietSame
<1>2. CASE NextNode
    <2>1. /\ stack # <<>> /\ current = None /\ stack' = Tail(stack) /\ UNCHANGED <<config, keys>>
          /\ \/ spent' = spent \cup {Head(stack)} /\ current' = None
             \/ current' = Head(stack) /\ UNCHANGED spent
        BY <1>2 DEF DataInv, NextNode, FilteredOut, data
    <2>2. Range(stack) = Range(Tail(stack)) \cup {Head(stack)} /\ Head(stack) \in Item
        BY <1>0, <2>1, HeadAndTail
    <2>3. Head(stack) # None
        BY <2>2, NoneIsNoItem
    <2>4. Items' \subseteq Items
        BY <2>1, <2>2, <2>3 DEF Items
    <2>5. Busy' \subseteq Busy
        BY <2>1, <2>2, <2>3 DEF Busy
    <2> QED BY <2>1, <2>4, <2>5, QuietStays
<1>3. CASE NodeReturns \/ NodeFailsAndGoesOn
    <2>1. current # None /\ UNCHANGED <<config, past>>
        BY <1>3 DEF DataInv, NodeReturns, NodeFailsAndGoesOn
    <2>2. PICK outs, how : Succeeds(outs, how)
        BY <1>3, Zenon DEF NodeReturns, NodeFailsAndGoesOn
    <2>3. spent' = spent \cup {current}
        BY <2>2, Zenon DEF Succeeds
    <2>4. current' = None /\ (Now' = Now \/ \E g : Passes(current.node, g) /\ Now' = g)
        BY <2>1, <2>2, SucceedsIs
    <2>5. CASE Now' = Now
        <3>1. stack' = stack /\ keys' = keys
            BY <2>5, NowParts, NowThen
        <3>2. Items' \subseteq Items
            BY <2>1, <2>3, <2>4, <3>1 DEF Items
        <3>3. Busy' \subseteq Busy
            BY <2>1, <2>4, <3>1 DEF Busy
        <3> QED BY <2>1, <3>2, <3>3, QuietStays
    <2>6. ASSUME NEW g, Passes(current.node, g), Now' = g PROVE QuietInv'
        BY <1>0, <2>1, <2>3, <2>4, <2>6, QuietPasses
    <2> QED BY <2>4, <2>5, <2>6
<1>4. CASE NodeReturnsNull
    <2>1. current # None /\ current' = None /\ UNCHANGED <<config, stack, keys>> /\ spent' = spent \cup {current}
        BY <1>4 DEF DataInv, NodeReturnsNull, frame, data
    <2>2. Items' \subseteq Items
        BY <2>1 DEF Items
    <2>3. Busy' \subseteq Busy
        BY <2>1 DEF Busy
    <2> QED BY <2>1, <2>2, <2>3, QuietStays
<1>5. CASE NodeFails \/ WaitingIsPutBack
    <2>1. /\ current # None /\ current' = None /\ UNCHANGED <<config, keys, spent>>
          /\ stack' = <<current>> \o stack
        BY <1>5 DEF DataInv, NodeFails, WaitingIsPutBack, PutBack, data, result
    <2>2. Range(stack') = Range(stack) \cup {current}
        BY <1>0, <2>1, InFront
    <2>3. Items' \subseteq Items
        BY <2>1, <2>2 DEF Items
    <2>4. Busy' \subseteq Busy
        BY <2>1, <2>2 DEF Busy
    <2> QED BY <2>1, <2>3, <2>4, QuietStays
<1>6. CASE Resume \/ Retry
    <2>1. /\ stack' = FirstDisabled(stack) \/ stack' = stack
          /\ current' = None /\ UNCHANGED <<config, keys, spent>>
        BY <1>6, StartsAgain DEF data
    <2>2. \A y \in Range(stack') : \E x \in Range(stack) : x.node = y.node /\ x.main = y.main
        <3>1. DOMAIN stack' = DOMAIN stack /\ \A k \in DOMAIN stack : /\ stack'[k].node = stack[k].node
                                                                       /\ stack'[k].main = stack[k].main
            BY <1>0, <2>1, DisabledIs
        <3> QED BY <3>1 DEF Range
    <2>3. Busy' \subseteq Busy
        BY <2>1, <2>2 DEF Busy
    <2>4. \A y \in Items' : \E x \in Items : x.node = y.node /\ x.main = y.main
        BY <2>1, <2>2 DEF Items
    <2> QED BY <2>1, <2>3, <2>4, QuietStays
<1>7. CASE Checks
    BY <1>7, QuietChecks
<1> QED BY <1>1, <1>2, <1>3, <1>4, <1>5, <1>6, <1>7 DEF Next

(* So no step passes a datum to an input that an item went without.         *)
LEMMA NothingArrives ==
    ASSUME DataInv, QuietInv, [Next]_vars, Acyclic, NEW x \in Items, NEW i \in DOMAIN x.main,
           x.main[i] = Empty
    PROVE  arrived'[x.node][i] = arrived[x.node][i]
<1>1. Lacks(x) /\ Quiet(x)
    BY DEF QuietInv, Lacks, Range
<1>2. CASE LoopEnds \/ TimesOut \/ processSuccessExecution \/ Closed \/ Reported \/ Cancel \/ NextNode
           \/ NodeReturnsNull \/ NodeFails \/ NodeWaits \/ WaitingIsPutBack \/ UNCHANGED vars
    <2>1. UNCHANGED arrived
        BY <1>2 DEF LoopEnds, TimesOut, processSuccessExecution, Closed, Reported, Cancel, NextNode,
                    NodeReturnsNull, NodeFails, NodeWaits, WaitingIsPutBack, vars, result, frame, data
    <2> QED BY <2>1
<1>3. CASE Resume \/ Retry
    BY <1>3, StartsAgain DEF data
<1>4. CASE Checks
    BY <1>4, ChecksIs
<1>5. CASE NodeReturns \/ NodeFailsAndGoesOn
    <2>1. current # None
        BY <1>5 DEF DataInv, NodeReturns, NodeFailsAndGoesOn
    <2>2. PICK outs, how : Succeeds(outs, how)
        BY <1>5, Zenon DEF NodeReturns, NodeFailsAndGoesOn
    <2>3. CASE Now' = Now
        BY <2>3, NowParts, NowThen
    <2>4. ASSUME NEW g, Passes(current.node, g), Now' = g
          PROVE  arrived'[x.node][i] = arrived[x.node][i]
        <3>1. arrived' = g.arrived
            BY <2>4, NowThen
        <3>2. \A m \in Nodes \ ChildNodes(current.node) : g.arrived[m] = arrived[m]
            BY <2>4, NowParts DEF Passes, Grown
        <3>3. x.node \in Nodes
            BY ItemsTyped
        <3>4. ASSUME x.node \in ChildNodes(current.node) PROVE FALSE
            <4>1. current.node \in parents[x.node]
                BY <3>3, <3>4, ChildrenBelow DEF DataInv
            <4>2. current.node \in Busy
                BY <2>1 DEF Busy
            <4> QED BY <1>1, <4>1, <4>2 DEF Quiet
        <3> QED BY <3>1, <3>2, <3>3, <3>4
    <2>5. Now' = Now \/ \E g : Passes(current.node, g) /\ Now' = g
        BY <2>1, <2>2, SucceedsIs
    <2> QED BY <2>3, <2>4, <2>5
<1> QED BY <1>2, <1>3, <1>4, <1>5 DEF Next

(* In a workflow without loops, a node that was started without one of its  *)
(* inputs did not start too early: nothing arrives at that input afterwards.*)
THEOREM MissingInputsStayMissing == Spec => MissingInputNeverArrives
<1> DEFINE A == Acyclic => \A x \in Items : \A i \in DOMAIN x.main :
                    x.main[i] = Empty => arrived'[x.node][i] = arrived[x.node][i]
<1>1. Init => QuietInv
    BY QuietInit
<1>2. Inv /\ QuietInv /\ [Next]_vars => QuietInv'
    BY QuietStep DEF Inv
<1>3. Inv /\ QuietInv /\ [Next]_vars => [A]_vars
    BY NothingArrives DEF Inv
<1> QED BY <1>1, <1>2, <1>3, InvHolds, PTL DEF Spec, MissingInputNeverArrives

-------------------------------------------------------------------------------
(* What is reported                                                         *)

(* What has been reported in each phase.                                   *)
Unreported == {"loop", "node", "added", "putting", "ending", "closing"}

ReportsFollow ==
    /\ phase \in Unreported =>
           /\ ~late
           /\ ~aborted => reports = <<>>
           /\ aborted => reports = <<"canceled">>
    /\ phase = "reporting" => IF aborted THEN late = TRUE /\ Len(reports) = 2
                                          ELSE Len(reports) = 1
    /\ phase = "ended" => Len(reports) = 1 \/ (late = TRUE /\ Len(reports) = 2)

ReportInv ==
    /\ phase \in Unreported \cup {"reporting", "ended"}
    /\ status \in {"running", "canceled", "error", "waiting", "success"}
    /\ reports \in Seq({"running", "canceled", "error", "waiting", "success"})
    /\ aborted \in BOOLEAN /\ late \in BOOLEAN
    /\ ReportsFollow

(* One more report.                                                         *)
LEMMA Appended ==
    ASSUME NEW S, NEW s \in Seq(S), NEW e \in S
    PROVE  Append(s, e) \in Seq(S) /\ Len(Append(s, e)) = Len(s) + 1
<1> QED OBVIOUS

(* The reports of a run that has just started, or has been canceled at once.*)
LEMMA Short == /\ <<>> \in Seq({"running", "canceled", "error", "waiting", "success"})
               /\ <<"canceled">> \in Seq({"running", "canceled", "error", "waiting", "success"})
               /\ Len(<<>>) = 0 /\ Len(<<"canceled">>) = 1
<1> QED OBVIOUS

(* The end of a node reports nothing.                                       *)
LEMMA NodeStep ==
    ASSUME ReportInv,
           \/ NodeReturns \/ NodeReturnsNull \/ NodeFailsAndGoesOn \/ NodeFails \/ NodeWaits
           \/ WaitingIsPutBack \/ Checks
    PROVE  ReportInv'
<1>1. UNCHANGED <<ending, status>>
    BY DEF NodeReturns, NodeReturnsNull, NodeFailsAndGoesOn, NodeFails, NodeWaits, WaitingIsPutBack, Checks
<1>2. phase \in Unreported /\ phase' \in Unreported
    <2>1. CASE NodeReturns \/ NodeFailsAndGoesOn
        <3>1. PICK outs, how : Succeeds(outs, how)
            BY <2>1, Zenon DEF NodeReturns, NodeFailsAndGoesOn
        <3>2. phase' \in {"loop", "added"}
            <4> DEFINE g == AddChildren(Now, current.node, outs, made[current.node] + 1)
            <4>1. IF current.node = graph.destination THEN phase' = "loop" /\ UNCHANGED frame
                  ELSE phase' = "added" /\ Becomes(g)
                BY <3>1, Zenon DEF Succeeds
            <4> HIDE DEF g
            <4> QED BY <4>1
        <3> QED BY <2>1, <3>2 DEF NodeReturns, NodeFailsAndGoesOn, Unreported
    <2>2. CASE NodeReturnsNull \/ NodeFails \/ NodeWaits \/ WaitingIsPutBack \/ Checks
        BY <2>2 DEF NodeReturnsNull, NodeFails, NodeWaits, WaitingIsPutBack, Checks, Unreported
    <2> QED BY <2>1, <2>2
<1> QED BY <1>1, <1>2 DEF ReportInv, ReportsFollow, Unreported, ending

(* Every step keeps it.                                                     *)
LEMMA StepInv == ReportInv /\ [Next]_vars => ReportInv'
<1> SUFFICES ASSUME ReportInv, [Next]_vars PROVE ReportInv'
    OBVIOUS
<1> USE DEF ReportInv, ReportsFollow, Unreported, ending
<1>1. CASE UNCHANGED vars
    BY <1>1 DEF vars
<1>2. CASE LoopEnds \/ TimesOut
    BY <1>2 DEF LoopEnds, TimesOut
<1>3. CASE NextNode
    BY <1>3 DEF NextNode, FilteredOut
<1>4. CASE Cancel
    <2>1. reports' \in Seq({"running", "canceled", "error", "waiting", "success"})
          /\ Len(reports') = Len(reports) + 1
        BY <1>4, Appended DEF Cancel
    <2>2. reports = <<>> => reports' = <<"canceled">>
        BY <1>4 DEF Cancel
    <2>3. CASE phase = "reporting"
        <3>1. ~aborted /\ aborted' /\ late' /\ phase' = "reporting" /\ status' = "canceled"
            BY <1>4, <2>3 DEF Cancel
        <3>2. Len(reports) = 1
            BY <2>3, <3>1
        <3>3. Len(reports') = 2
            BY <2>1, <3>2
        <3>4. late' = TRUE
            BY <3>1, <1>4, <2>3 DEF Cancel
        <3> QED BY <2>1, <3>1, <3>3, <3>4
    <2>4. CASE phase # "reporting"
        <3>1. /\ ~aborted /\ aborted' /\ ~late' /\ phase' = phase /\ phase \in Unreported
              /\ status' = "canceled"
            BY <1>4, <2>4 DEF Cancel
        <3>2. reports' = <<"canceled">>
            BY <2>2, <3>1
        <3>3. late' = FALSE
            BY <1>4, <2>4 DEF Cancel
        <3>4. status' \in {"running", "canceled", "error", "waiting", "success"}
            BY <3>1
        <3> QED BY <2>1, <3>1, <3>2, <3>3, <3>4
    <2> QED BY <2>3, <2>4
<1>5. CASE processSuccessExecution
    BY <1>5 DEF processSuccessExecution
<1>6. CASE Closed
    <2>1. CASE aborted
        BY <1>6, <2>1 DEF Closed, Report
    <2>2. CASE ~aborted
        <3>1. reports' = Append(reports, status) /\ phase' = "reporting"
              /\ UNCHANGED <<aborted, late, status>>
            BY <1>6, <2>2 DEF Closed, Report
        <3>2. reports' \in Seq({"running", "canceled", "error", "waiting", "success"})
              /\ Len(reports') = Len(reports) + 1
            BY <3>1, Appended
        <3>3. Len(reports) = 0
            BY <1>6, <2>2 DEF Closed
        <3> QED BY <2>2, <3>1, <3>2, <3>3
    <2> QED BY <2>1, <2>2
<1>7. CASE Reported
    BY <1>7 DEF Reported
<1>8. CASE Resume \/ Retry
    BY <1>8, Short DEF Resume, Retry, Restart
<1> QED BY <1>1, <1>2, <1>3, <1>4, <1>5, <1>6, <1>7, <1>8, NodeStep DEF Next

(* workflowExecuteAfter runs once for each start of an execution, unless it*)
(* is canceled while it runs.                                              *)
THEOREM ReportedOnceTheorem == Spec => []ReportedOnce
<1>1. Init => ReportInv
    BY Short DEF Init, ReportInv, ReportsFollow, Unreported
<1>2. ReportInv => ReportedOnce
    <2> SUFFICES ASSUME ReportInv PROVE ReportedOnce
        OBVIOUS
    <2>1. CASE phase \in Unreported
        <3>1. reports = <<>> \/ reports = <<"canceled">>
            BY <2>1 DEF ReportInv, ReportsFollow
        <3>2. \A k : k = Len(reports) => k = 0 \/ k = 1
            BY <3>1, Short
        <3>3. phase \notin {"reporting", "ended"}
            BY <2>1 DEF Unreported
        <3>4. ~(Len(reports) > 1)
            <4> DEFINE k == Len(reports)
            <4>1. k = 0 \/ k = 1
                BY <3>2
            <4> HIDE DEF k
            <4>2. ~(k > 1)
                BY <4>1
            <4> QED BY <4>2 DEF k
        <3> QED BY <3>3, <3>4, Zenon DEF ReportedOnce
    <2>2. CASE phase \in {"reporting", "ended"}
        <3>1. Len(reports) = 1 \/ (late = TRUE /\ Len(reports) = 2)
            BY <2>2 DEF ReportInv, ReportsFollow
        <3> QED BY <3>1 DEF ReportedOnce
    <2> QED BY <2>1, <2>2 DEF ReportInv
<1> QED BY <1>1, <1>2, StepInv, PTL DEF Spec
=============================================================================
