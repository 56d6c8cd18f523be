-------------------------- MODULE GradeGraphProofs --------------------------
(* The evaluator finds an order for a grade graph, a branch put in front of a *)
(* node keeps what fed it and a new layer is composited last, for any number  *)
(* of nodes, wires and calls.                                                 *)
EXTENDS GradeGraph, FiniteSetTheorems, TLAPS

\* No wire's end leads back to its start.
NoCycle(W, N) == \A w \in W : ~WouldCreateCycle(W, N, w.from.node, w.to.node)

Acyclic == NoCycle(wires, Nodes)

\* Wires that join only nodes that wires without a cycle join close no cycle.
LEMMA FewerJoints ==
    ASSUME NEW W, NEW N, NEW V, NEW M, NoCycle(W, N), N \subseteq M,
           \A v \in V : \E w \in W : /\ w.from.node = v.from.node
                                     /\ w.to.node = v.to.node
    PROVE  NoCycle(V, M)
<1> SUFFICES ASSUME NEW v \in V
             PROVE  \E S \in SUBSET M : /\ v.to.node \in S /\ Closed(V, S)
                                        /\ v.from.node \notin S
  BY DEF NoCycle, WouldCreateCycle
<1>1. PICK w \in W : w.from.node = v.from.node /\ w.to.node = v.to.node
  OBVIOUS
<1>2. PICK S \in SUBSET N : w.to.node \in S /\ Closed(W, S) /\ w.from.node \notin S
  BY <1>1 DEF NoCycle, WouldCreateCycle
<1>3. Closed(V, S)
  BY <1>2 DEF Closed
<1> QED BY <1>1, <1>2, <1>3

\* add_edge closes no cycle: with the set that shows the new wire harmless, the
\* sets of the old wires are made closed again.
LEMMA AddEdgeNoCycle ==
    ASSUME NEW W, NEW N, NEW from, NEW to, NoCycle(W, N)
    PROVE  NoCycle(AddEdge(W, N, from, to).wires, N)
<1> DEFINE e == [at |-> Cardinality(W) + 1, from |-> from, to |-> to]
<1>1. CASE WouldCreateCycle(W, N, from.node, to.node)
  BY <1>1 DEF AddEdge
<1>2. CASE ~WouldCreateCycle(W, N, from.node, to.node)
  <2>1. AddEdge(W, N, from, to).wires = W \cup {e}
    BY <1>2 DEF AddEdge, PushBack
  <2>2. e.from = from /\ e.to = to
    OBVIOUS
  <2> HIDE DEF e
  <2>3. PICK S \in SUBSET N : to.node \in S /\ Closed(W, S) /\ from.node \notin S
    BY <1>2 DEF WouldCreateCycle
  <2>4. ASSUME NEW w \in W \cup {e}
        PROVE  \E T \in SUBSET N : /\ w.to.node \in T /\ Closed(W \cup {e}, T)
                                   /\ w.from.node \notin T
    <3>1. CASE w = e
      <4>1. Closed(W \cup {e}, S)
        BY <2>2, <2>3 DEF Closed
      <4> QED BY <2>2, <2>3, <3>1, <4>1
    <3>2. CASE w \in W
      <4>1. PICK T \in SUBSET N : w.to.node \in T /\ Closed(W, T) /\ w.from.node \notin T
        BY <3>2 DEF NoCycle, WouldCreateCycle
      <4>2. CASE w.from.node \in S
        <5>1. Closed(W \cup {e}, S \cap T)
          BY <2>2, <2>3, <4>1 DEF Closed
        <5>2. w.to.node \in S
          BY <2>3, <3>2, <4>2 DEF Closed
        <5> QED BY <4>1, <5>1, <5>2
      <4>3. CASE w.from.node \notin S
        <5>1. Closed(W \cup {e}, S \cup T)
          BY <2>2, <2>3, <4>1 DEF Closed
        <5> QED BY <4>1, <4>3, <5>1
      <4> QED BY <4>2, <4>3
    <3> QED BY <3>1, <3>2
  <2> QED BY <2>1, <2>4 DEF NoCycle, WouldCreateCycle
<1> QED BY <1>1, <1>2

\* What stays keeps its ends; only its index moves.
LEMMA EraseJoints ==
    ASSUME NEW W, NEW gone, NEW v \in Erase(W, gone)
    PROVE  \E w \in W : v.from = w.from /\ v.to = w.to
<1> DEFINE index(w) == w.at - Cardinality({x \in gone : x.at < w.at})
<1>1. PICK w \in W \ gone : v = [at |-> index(w), from |-> w.from, to |-> w.to]
  BY DEF Erase
<1> HIDE DEF index
<1> QED BY <1>1

LEMMA EraseNoCycle ==
    ASSUME NEW W, NEW N, NEW gone, NoCycle(W, N)
    PROVE  NoCycle(Erase(W, gone), N)
BY EraseJoints, FewerJoints

\* More nodes do no harm.
LEMMA MoreNodes ==
    ASSUME NEW W, NEW N, NEW M, NoCycle(W, N), N \subseteq M
    PROVE  NoCycle(W, M)
BY FewerJoints

\* What insert_branch leaves behind, wherever it stops.
LEMMA RewiredNoCycle ==
    ASSUME NEW N, NEW base, NEW branch, NEW mixer, NEW sink, NoCycle(wires, N)
    PROVE  NoCycle(Rewired(base, branch, mixer, sink, N).wires, N)
<1> DEFINE cut == RemoveEdge(wires, Rgb(base, 0), Rgb(sink, 0))
           r1 == AddEdge(cut, N, Rgb(base, 0), Rgb(branch, 0))
           r2 == AddEdge(r1.wires, N, Rgb(base, 0), Rgb(mixer, 0))
           r3 == AddEdge(r2.wires, N, Rgb(branch, 0), Rgb(mixer, 1))
           r4 == AddEdge(r3.wires, N, Rgb(mixer, 0), Rgb(sink, 0))
<1>1. NoCycle(cut, N)
  BY EraseNoCycle DEF RemoveEdge
<1>2. Rewired(base, branch, mixer, sink, N).wires
        \in {wires, r1.wires, r2.wires, r3.wires, r4.wires}
  BY DEF Rewired
<1> HIDE DEF cut
<1>3. NoCycle(r1.wires, N)
  BY <1>1, AddEdgeNoCycle
<1> HIDE DEF r1
<1>4. NoCycle(r2.wires, N)
  BY <1>3, AddEdgeNoCycle
<1> HIDE DEF r2
<1>5. NoCycle(r3.wires, N)
  BY <1>4, AddEdgeNoCycle
<1> HIDE DEF r3
<1>6. NoCycle(r4.wires, N)
  BY <1>5, AddEdgeNoCycle
<1> HIDE DEF r4
<1> QED BY <1>2, <1>3, <1>4, <1>5, <1>6

LEMMA ConnectedNoCycle ==
    ASSUME NEW from, NEW to, NoCycle(wires, Nodes)
    PROVE  NoCycle(Connected(wires, from, to).wires, Nodes)
<1> DEFINE erased == Erase(wires, FirstAmong(Occupants(wires, to)))
<1>1. NoCycle(erased, Nodes)
  BY EraseNoCycle
<1>2. Connected(wires, from, to).wires \in
        {wires, AddEdge(erased, Nodes, from, to).wires, AddEdge(wires, Nodes, from, to).wires}
  BY DEF Connected
<1> HIDE DEF erased
<1> QED BY <1>1, <1>2, AddEdgeNoCycle

\* A reordering adds only wires between nodes that were joined.
LEMMA ReorderedJoints ==
    ASSUME NEW mixer, NEW order,
           DOMAIN order = {w.from.node : w \in Layers(wires, mixer)},
           NEW v \in Reordered(wires, mixer, order).wires
    PROVE  \E w \in wires : w.from.node = v.from.node /\ w.to.node = v.to.node
<1> DEFINE layers == Layers(wires, mixer)
           found(l) == Match(wires, Rgb(l.from.node, l.to.port), l.to)
           tried == {l \in layers : \A x \in layers : x.at <= l.at => found(x) # {}}
           gone == UNION {found(l) : l \in tried}
           rest == Erase(wires, gone)
           n == Cardinality(rest)
           added == {[at |-> n + order[s], from |-> Rgb(s, 0), to |-> Rgb(mixer, order[s])] :
                       s \in DOMAIN order}
<1>1. Reordered(wires, mixer, order).wires \in {rest, rest \cup added}
  BY DEF Reordered
<1>2. CASE v \in rest
  BY <1>2, EraseJoints
<1>3. CASE v \in added
  <2> DEFINE index(s) == n + order[s]
  <2>1. PICK s \in DOMAIN order :
           v = [at |-> index(s), from |-> Rgb(s, 0), to |-> Rgb(mixer, order[s])]
    BY <1>3
  <2> HIDE DEF index
  <2>2. v.from.node = s /\ v.to.node = mixer
    BY <2>1 DEF Rgb, Pipe
  <2>3. PICK w \in layers : w.from.node = s
    BY <2>1
  <2>4. w \in wires /\ w.to.node = mixer
    BY <2>3 DEF Layers, Into
  <2> QED BY <2>2, <2>3, <2>4
<1> HIDE DEF rest, added
<1> QED BY <1>1, <1>2, <1>3

LEMMA ReorderedNoCycle ==
    ASSUME NEW mixer, NEW order, NoCycle(wires, Nodes),
           DOMAIN order = {w.from.node : w \in Layers(wires, mixer)}
    PROVE  NoCycle(Reordered(wires, mixer, order).wires, Nodes)
BY ReorderedJoints, FewerJoints

\* A load makes of each wire one between the same nodes.
LEMMA FiledJoints ==
    ASSUME NEW v \in Filed(wires)
    PROVE  \E w \in wires : w.from.node = v.from.node /\ w.to.node = v.to.node
<1> DEFINE index(w) == Cardinality({x \in wires : FiledBefore(x, w)}) + 1
<1>1. PICK w \in wires : v = AsFiled(wires, w)
  BY DEF Filed
<1>2. v = [at |-> index(w), from |-> Pipe(w.from.node, w.from.type, 0),
           to |-> Pipe(w.to.node, w.to.type, 0)]
  BY <1>1 DEF AsFiled
<1> HIDE DEF index
<1> QED BY <1>2 DEF Pipe

\* No call closes a cycle.
LEMMA NextNoCycle == ASSUME Acyclic, [Next]_vars PROVE Acyclic'
<1> USE DEF Acyclic, Answer
<1>1. ASSUME NEW k \in Kinds, AddNode(k) PROVE Acyclic'
  <2>1. wires' = wires /\ Nodes \subseteq Nodes'
    BY <1>1 DEF AddNode, Nodes
  <2> QED BY <2>1, MoreNodes
<1>2. ASSUME NEW a, NEW b, AddRgbEdge(a, b) PROVE Acyclic'
  BY <1>2, AddEdgeNoCycle DEF AddRgbEdge, Nodes
<1>3. ASSUME NEW from, NEW to, ConnectOrReplace(from, to) PROVE Acyclic'
  BY <1>3, ConnectedNoCycle DEF ConnectOrReplace, Nodes
<1>4. ASSUME NEW k, NEW sink, InsertBranch(k, sink) PROVE Acyclic'
  <2> DEFINE branch == Cardinality(Nodes) + 1
             mixer == Cardinality(Nodes) + 2
             all == Nodes \cup {branch, mixer}
  <2>1. PICK base : wires' = Rewired(base, branch, mixer, sink, all).wires
    BY <1>4 DEF InsertBranch
  <2>2. Nodes' = all
    BY <1>4 DEF InsertBranch, Nodes
  <2> HIDE DEF branch, mixer
  <2>3. NoCycle(wires, all)
    BY MoreNodes
  <2> HIDE DEF all
  <2> QED BY <2>1, <2>2, <2>3, RewiredNoCycle
<1>5. ASSUME NEW mixer, NEW layer, AddLayer(mixer, layer) PROVE Acyclic'
  BY <1>5, ConnectedNoCycle DEF AddLayer, Nodes
<1>6. ASSUME NEW mixer, NEW order, SetLayerOrder(mixer, order) PROVE Acyclic'
  BY <1>6, ReorderedNoCycle DEF SetLayerOrder, Nodes
<1>7. ASSUME SaveAndLoad PROVE Acyclic'
  <2>1. wires' = Filed(wires) /\ Nodes' = Nodes
    BY <1>7 DEF SaveAndLoad, Nodes
  <2>2. \A v \in Filed(wires) :
           \E w \in wires : w.from.node = v.from.node /\ w.to.node = v.to.node
    BY FiledJoints
  <2> QED BY <2>1, <2>2, FewerJoints
<1>8. ASSUME UNCHANGED vars PROVE Acyclic'
  BY <1>8 DEF vars, Nodes
<1> QED BY <1>1, <1>2, <1>3, <1>4, <1>5, <1>6, <1>7, <1>8 DEF Next

\* No sequence of calls makes wires close a cycle.
LEMMA GraphAcyclic == Spec => []Acyclic
<1>1. Init => Acyclic
  BY DEF Init, Acyclic, NoCycle
<1> QED BY <1>1, NextNoCycle, PTL DEF Spec
----------------------------------------------------------------------------
\* Wires join nodes of the graph.
Inside(W, N) == \A w \in W : w.from.node \in N /\ w.to.node \in N

LEMMA AddEdgeInside ==
    ASSUME NEW W, NEW N, NEW from, NEW to, Inside(W, N),
           from.node \in N, to.node \in N
    PROVE  Inside(AddEdge(W, N, from, to).wires, N)
<1> DEFINE index == Cardinality(W) + 1
           e == [at |-> index, from |-> from, to |-> to]
<1> HIDE DEF index
<1>1. AddEdge(W, N, from, to).wires \in {W, W \cup {e}}
  BY DEF AddEdge, PushBack, index
<1>2. e.from = from /\ e.to = to
  OBVIOUS
<1> QED BY <1>1, <1>2 DEF Inside

LEMMA EraseInside ==
    ASSUME NEW W, NEW N, NEW gone, Inside(W, N)
    PROVE  Inside(Erase(W, gone), N)
BY EraseJoints DEF Inside

LEMMA ConnectedInside ==
    ASSUME NEW from, NEW to, Inside(wires, Nodes),
           from.node \in Nodes, to.node \in Nodes
    PROVE  Inside(Connected(wires, from, to).wires, Nodes)
<1> DEFINE erased == Erase(wires, FirstAmong(Occupants(wires, to)))
<1>1. Inside(erased, Nodes)
  BY EraseInside
<1>2. Connected(wires, from, to).wires \in
        {wires, AddEdge(erased, Nodes, from, to).wires, AddEdge(wires, Nodes, from, to).wires}
  BY DEF Connected
<1> HIDE DEF erased
<1> QED BY <1>1, <1>2, AddEdgeInside

LEMMA RewiredInside ==
    ASSUME NEW N, NEW base \in N, NEW branch \in N, NEW mixer \in N, NEW sink \in N,
           Inside(wires, N)
    PROVE  Inside(Rewired(base, branch, mixer, sink, N).wires, N)
<1> DEFINE cut == RemoveEdge(wires, Rgb(base, 0), Rgb(sink, 0))
           r1 == AddEdge(cut, N, Rgb(base, 0), Rgb(branch, 0))
           r2 == AddEdge(r1.wires, N, Rgb(base, 0), Rgb(mixer, 0))
           r3 == AddEdge(r2.wires, N, Rgb(branch, 0), Rgb(mixer, 1))
           r4 == AddEdge(r3.wires, N, Rgb(mixer, 0), Rgb(sink, 0))
<1>1. Inside(cut, N)
  BY EraseInside DEF RemoveEdge
<1>2. Rewired(base, branch, mixer, sink, N).wires
        \in {wires, r1.wires, r2.wires, r3.wires, r4.wires}
  BY DEF Rewired
<1>3. \A n, p : Rgb(n, p).node = n
  BY DEF Rgb, Pipe
<1> HIDE DEF cut
<1>4. Inside(r1.wires, N)
  BY <1>1, <1>3, AddEdgeInside
<1> HIDE DEF r1
<1>5. Inside(r2.wires, N)
  BY <1>3, <1>4, AddEdgeInside
<1> HIDE DEF r2
<1>6. Inside(r3.wires, N)
  BY <1>3, <1>5, AddEdgeInside
<1> HIDE DEF r3
<1>7. Inside(r4.wires, N)
  BY <1>3, <1>6, AddEdgeInside
<1> HIDE DEF r4
<1> QED BY <1>2, <1>4, <1>5, <1>6, <1>7

\* Every call leaves the wires inside the graph.
LEMMA NextInside == ASSUME Inside(wires, Nodes), [Next]_vars PROVE Inside(wires', Nodes')
<1> USE DEF Answer
<1> DEFINE Goal == Inside(wires', Nodes')
<1>0. \A n, p : Rgb(n, p).node = n
  BY DEF Rgb, Pipe
<1>1. ASSUME NEW k \in Kinds, AddNode(k) PROVE Goal
  BY <1>1 DEF AddNode, Nodes, Inside
<1>2. ASSUME NEW a \in Nodes, NEW b \in Nodes, AddRgbEdge(a, b) PROVE Goal
  BY <1>0, <1>2, AddEdgeInside DEF AddRgbEdge, Nodes
<1>3. ASSUME NEW from, NEW to, from.node \in Nodes, to.node \in Nodes,
             ConnectOrReplace(from, to)
      PROVE  Goal
  BY <1>3, ConnectedInside DEF ConnectOrReplace, Nodes
<1>4. ASSUME NEW k, NEW sink \in Nodes, InsertBranch(k, sink) PROVE Goal
  <2> DEFINE branch == Cardinality(Nodes) + 1
             mixer == Cardinality(Nodes) + 2
             all == Nodes \cup {branch, mixer}
  <2>1. PICK w \in FirstAmong(Into(wires, sink)) :
           wires' = Rewired(w.from.node, branch, mixer, sink, all).wires
    BY <1>4 DEF InsertBranch
  <2>2. Nodes' = all
    BY <1>4 DEF InsertBranch, Nodes
  <2> HIDE DEF branch, mixer
  <2>3. Inside(wires, all) /\ branch \in all /\ mixer \in all /\ sink \in all
    BY DEF Inside
  <2>4. w.from.node \in all
    BY <2>3 DEF Inside, FirstAmong, Into
  <2> HIDE DEF all
  <2> QED BY <2>1, <2>2, <2>3, <2>4, RewiredInside
<1>5. ASSUME NEW mixer \in Nodes, NEW layer \in Nodes, AddLayer(mixer, layer) PROVE Goal
  BY <1>0, <1>5, ConnectedInside DEF AddLayer, Nodes
<1>6. ASSUME NEW mixer, NEW order, SetLayerOrder(mixer, order) PROVE Goal
  <2>1. \A v \in wires' : \E w \in wires : w.from.node = v.from.node /\ w.to.node = v.to.node
    BY <1>6, ReorderedJoints DEF SetLayerOrder
  <2> QED BY <1>6, <2>1 DEF SetLayerOrder, Nodes, Inside
<1>7. ASSUME SaveAndLoad PROVE Goal
  <2>1. \A v \in wires' : \E w \in wires : w.from.node = v.from.node /\ w.to.node = v.to.node
    BY <1>7, FiledJoints DEF SaveAndLoad
  <2> QED BY <1>7, <2>1 DEF SaveAndLoad, Nodes, Inside
<1>8. ASSUME UNCHANGED vars PROVE Goal
  BY <1>8 DEF vars, Nodes
<1>9. ASSUME NEW a \in Nodes, NEW b \in Nodes, NEW type \in Types, NEW port \in Ports,
             ConnectOrReplace(Pipe(a, type, 0), Pipe(b, type, port))
      PROVE  Goal
  <2>1. Pipe(a, type, 0).node \in Nodes /\ Pipe(b, type, port).node \in Nodes
    BY DEF Pipe
  <2> QED BY <1>3, <1>9, <2>1
<1> QED BY <1>1, <1>2, <1>4, <1>5, <1>6, <1>7, <1>8, <1>9 DEF Next

\* An edge is added or refused, and then the wires stay as they are.
LEMMA AddEdgeAdds ==
    ASSUME NEW W, NEW N, NEW from, NEW to
    PROVE  LET r == AddEdge(W, N, from, to)
           IN  /\ W \subseteq r.wires
               /\ r.ok => \E e \in r.wires : e.from = from /\ e.to = to
<1> DEFINE index == Cardinality(W) + 1
           e == [at |-> index, from |-> from, to |-> to]
<1> HIDE DEF index
<1>1. e.from = from /\ e.to = to
  OBVIOUS
<1>2. AddEdge(W, N, from, to) \in
        {[ok |-> FALSE, wires |-> W], [ok |-> TRUE, wires |-> W \cup {e}]}
  BY DEF AddEdge, PushBack, index
<1> HIDE DEF e
<1> QED BY <1>1, <1>2

\* Of the wires, those that are not erased keep their ends.
LEMMA EraseKeeps ==
    ASSUME NEW W, NEW gone, NEW w \in W \ gone
    PROVE  \E v \in Erase(W, gone) : v.from = w.from /\ v.to = w.to
<1> DEFINE index(x) == x.at - Cardinality({y \in gone : y.at < x.at})
           v == [at |-> index(w), from |-> w.from, to |-> w.to]
<1>1. v \in Erase(W, gone)
  BY DEF Erase
<1> HIDE DEF index
<1> QED BY <1>1

\* A branch that is put in keeps the paths: what a set closed under the new
\* wires takes in, the old wires lead to, the removed one by way of the mixer.
LEMMA RewiredKeepsPaths ==
    ASSUME NEW N, NEW base, NEW branch, NEW mixer, NEW sink,
           Rewired(base, branch, mixer, sink, N).ok,
           NEW S, Closed(Rewired(base, branch, mixer, sink, N).wires, S)
    PROVE  Closed(wires, S)
<1> DEFINE gone == Match(wires, Rgb(base, 0), Rgb(sink, 0))
           cut == RemoveEdge(wires, Rgb(base, 0), Rgb(sink, 0))
           r1 == AddEdge(cut, N, Rgb(base, 0), Rgb(branch, 0))
           r2 == AddEdge(r1.wires, N, Rgb(base, 0), Rgb(mixer, 0))
           r3 == AddEdge(r2.wires, N, Rgb(branch, 0), Rgb(mixer, 1))
           r4 == AddEdge(r3.wires, N, Rgb(mixer, 0), Rgb(sink, 0))
<1>1. r2.ok /\ r4.ok /\ Rewired(base, branch, mixer, sink, N) = r4
  <2>1. Rewired(base, branch, mixer, sink, N)
          \in {[ok |-> FALSE, wires |-> wires], r1, r2, r3, r4}
    BY DEF Rewired
  <2>2. [ok |-> FALSE, wires |-> wires].ok = FALSE
    OBVIOUS
  <2> QED BY <2>2 DEF Rewired
<1>2. \A n, p : Rgb(n, p).node = n
  BY DEF Rgb, Pipe
<1>3. cut = Erase(wires, gone)
  BY DEF RemoveEdge
<1>4. \A w \in gone : w.from = Rgb(base, 0) /\ w.to = Rgb(sink, 0)
  BY DEF Match, FirstAmong
<1> HIDE DEF cut, gone
<1>5. cut \subseteq r1.wires
  BY AddEdgeAdds
<1> HIDE DEF r1
<1>6. r1.wires \subseteq r2.wires /\ \E e \in r2.wires : e.from = Rgb(base, 0) /\ e.to = Rgb(mixer, 0)
  BY <1>1, AddEdgeAdds
<1> HIDE DEF r2
<1>7. r2.wires \subseteq r3.wires
  BY AddEdgeAdds
<1> HIDE DEF r3
<1>8. r3.wires \subseteq r4.wires /\ \E e \in r4.wires : e.from = Rgb(mixer, 0) /\ e.to = Rgb(sink, 0)
  BY <1>1, AddEdgeAdds
<1> HIDE DEF r4
<1>9. Closed(r4.wires, S)
  BY <1>1
<1> SUFFICES ASSUME NEW w \in wires, w.from.node \in S PROVE w.to.node \in S
  BY DEF Closed
<1>10. CASE w \in gone
  <2>1. base \in S
    BY <1>2, <1>4, <1>10
  <2>2. mixer \in S
    BY <1>2, <1>6, <1>7, <1>8, <1>9, <2>1 DEF Closed
  <2>3. sink \in S
    BY <1>2, <1>8, <1>9, <2>2 DEF Closed
  <2> QED BY <1>2, <1>4, <1>10, <2>3
<1>11. CASE w \notin gone
  <2>1. PICK v \in cut : v.from = w.from /\ v.to = w.to
    BY <1>3, <1>11, EraseKeeps
  <2>2. v \in r4.wires
    BY <1>5, <1>6, <1>7, <1>8
  <2> QED BY <1>9, <2>1, <2>2 DEF Closed
<1> QED BY <1>10, <1>11

\* A branch takes no node's picture away from another.
THEOREM BranchesKeepPaths == Spec => BranchKeepsPaths
<1> DEFINE In == Inside(wires, Nodes)
           Kept == ret'.op = "insert_branch" /\ ret'.ok =>
                     \A a, b \in Nodes : Feeds(wires, Nodes, a, b) => Feeds(wires', Nodes', a, b)
<1>1. Init => In
  BY DEF Init, Inside
<1>2. In /\ [Next]_vars => In'
  BY NextInside
<1>3. In /\ [Next]_vars => [Kept]_vars
  <2> SUFFICES ASSUME In, Next, ret'.op = "insert_branch", ret'.ok,
                      NEW a \in Nodes, NEW b \in Nodes, Feeds(wires, Nodes, a, b)
               PROVE  Feeds(wires', Nodes', a, b)
    OBVIOUS
  <2>1. PICK k \in {"Parallel", "Layer"}, sink \in Nodes : InsertBranch(k, sink)
    <3>1. \A op, r : Answer(op, r) => ret'.op = op
      BY DEF Answer
    <3>2. \A k : AddNode(k) => ret'.op = "add_node"
      BY <3>1 DEF AddNode
    <3>3. \A c, d : AddRgbEdge(c, d) => ret'.op = "add_rgb_edge"
      BY <3>1 DEF AddRgbEdge
    <3>4. \A from, to : ConnectOrReplace(from, to) => ret'.op = "connect_or_replace"
      BY <3>1 DEF ConnectOrReplace
    <3>5. \A mixer, layer : AddLayer(mixer, layer) => ret'.op = "add_layer"
      BY <3>1 DEF AddLayer
    <3>6. \A mixer, order : SetLayerOrder(mixer, order) => ret'.op = "set_layer_order"
      BY <3>1 DEF SetLayerOrder
    <3>7. SaveAndLoad => ret'.op = "reload"
      BY <3>1 DEF SaveAndLoad
    <3> QED BY <3>2, <3>3, <3>4, <3>5, <3>6, <3>7 DEF Next
  <2> DEFINE branch == Cardinality(Nodes) + 1
             mixer == Cardinality(Nodes) + 2
             all == Nodes \cup {branch, mixer}
  <2>2. PICK base : /\ wires' = Rewired(base, branch, mixer, sink, all).wires
                    /\ Rewired(base, branch, mixer, sink, all).ok
    BY <2>1 DEF InsertBranch, Answer
  <2> HIDE DEF branch, mixer, all
  <2> SUFFICES ASSUME NEW S \in SUBSET Nodes', a \in S, Closed(wires', S) PROVE b \in S
    BY DEF Feeds
  <2>3. Closed(wires, S)
    BY <2>2, RewiredKeepsPaths
  <2>4. Closed(wires, S \cap Nodes)
    BY <2>3 DEF Closed, Inside
  <2> QED BY <2>4 DEF Feeds
<1> QED BY <1>1, <1>2, <1>3, PTL DEF Spec, BranchKeepsPaths
----------------------------------------------------------------------------
\* edges_ is a vector: the indices of n wires are 1..n, each wire at its own.
Indexed(W) ==
    /\ IsFiniteSet(W)
    /\ \A w \in W : w.at \in 1..Cardinality(W)
    /\ \A v, w \in W : v.at = w.at => v = w

Numbered(W) == \A w \in W : w.from.node \in Int /\ w.to.node \in Int /\ w.to.port \in Int

\* No more wires than there are indices for them.
LEMMA IndexedCount ==
    ASSUME NEW W, Indexed(W), NEW S \in SUBSET W, NEW lo \in Int, NEW hi \in Int,
           lo <= hi + 1, \A x \in S : x.at \in lo..hi
    PROVE  IsFiniteSet(S) /\ Cardinality(S) \in Nat /\ Cardinality(S) <= hi - lo + 1
<1> DEFINE f == [x \in S |-> x.at]
<1>1. f \in Injection(S, lo..hi)
  BY DEF Indexed, Injection, IsInjective
<1> HIDE DEF f
<1>2. IsFiniteSet(lo..hi) /\ Cardinality(lo..hi) <= hi - lo + 1
  <2>1. /\ IsFiniteSet(lo..hi)
        /\ Cardinality(lo..hi) = IF lo > hi THEN 0 ELSE hi - lo + 1
    BY FS_Interval
  <2> QED BY <2>1
<1>3. IsFiniteSet(S) /\ Cardinality(S) <= Cardinality(lo..hi)
  BY <1>1, <1>2, FS_Injection
<1>4. Cardinality(S) \in Nat /\ Cardinality(lo..hi) \in Nat
  BY <1>2, <1>3, FS_CardinalityType
<1> QED BY <1>2, <1>3, <1>4

\* push_back.
LEMMA PushBackIndexed ==
    ASSUME NEW W, NEW from, NEW to, Indexed(W)
    PROVE  Indexed(PushBack(W, from, to))
<1> DEFINE n == Cardinality(W)
           e == [at |-> n + 1, from |-> from, to |-> to]
<1>1. n \in Nat /\ IsFiniteSet(W)
  BY FS_CardinalityType DEF Indexed
<1>2. PushBack(W, from, to) = W \cup {e}
  BY DEF PushBack
<1>3. \A w \in W : w.at \in 1..n
  BY DEF Indexed
<1> HIDE DEF n
<1>4. e.at = n + 1
  OBVIOUS
<1> HIDE DEF e
<1>5. e \notin W
  BY <1>1, <1>3, <1>4
<1>6. IsFiniteSet(W \cup {e}) /\ Cardinality(W \cup {e}) = n + 1
  BY <1>1, <1>5, FS_AddElement DEF n
<1>7. \A w \in W \cup {e} : w.at \in 1..(n + 1)
  BY <1>1, <1>3, <1>4
<1>8. \A v, w \in W \cup {e} : v.at = w.at => v = w
  BY <1>1, <1>3, <1>4 DEF Indexed
<1> QED BY <1>2, <1>6, <1>7, <1>8 DEF Indexed

\* erase moves each wire down by the number of erased ones before it, and so
\* leaves the indices without a gap.
LEMMA EraseIndexed ==
    ASSUME NEW W, NEW gone \in SUBSET W, Indexed(W)
    PROVE  Indexed(Erase(W, gone))
<1> DEFINE n == Cardinality(W)
           below(w) == {x \in gone : x.at < w.at}
           index(w) == w.at - Cardinality(below(w))
           g == [w \in W \ gone |-> [at |-> index(w), from |-> w.from, to |-> w.to]]
           E == Erase(W, gone)
<1>1. n \in Nat /\ IsFiniteSet(W) /\ \A w \in W : w.at \in 1..n
  BY FS_CardinalityType DEF Indexed
<1>2. IsFiniteSet(gone) /\ IsFiniteSet(W \ gone)
  BY <1>1, FS_Subset
<1>3. Cardinality(gone) \in Nat /\ Cardinality(W \ gone) = n - Cardinality(gone)
  <2>1. Cardinality(W \ gone) = n - Cardinality(W \cap gone)
    BY <1>1, FS_Difference
  <2>2. W \cap gone = gone
    OBVIOUS
  <2>3. Cardinality(gone) \in Nat
    BY <1>2, FS_CardinalityType
  <2> HIDE DEF n
  <2> QED BY <2>1, <2>2, <2>3
<1> HIDE DEF n
<1>4. \A w \in W \ gone :
         /\ Cardinality(below(w)) \in Nat
         /\ index(w) \in 1..(n - Cardinality(gone))
  <2> SUFFICES ASSUME NEW w \in W \ gone
               PROVE  /\ Cardinality(below(w)) \in Nat
                      /\ index(w) \in 1..(n - Cardinality(gone))
    OBVIOUS
  <2> DEFINE b == below(w)
             above == {x \in gone : w.at < x.at}
  <2>1. w.at \in 1..n
    BY <1>1
  <2>2. \A x \in b : x.at \in 1..(w.at - 1)
    BY <1>1, <2>1
  <2>3. \A x \in above : x.at \in (w.at + 1)..n
    BY <1>1, <2>1
  <2>4. gone = b \cup above /\ b \cap above = {}
    BY <1>1, <2>1 DEF Indexed
  <2>5. b \in SUBSET W /\ above \in SUBSET W
    OBVIOUS
  <2>6. /\ w.at \in Int /\ w.at - 1 \in Int /\ w.at + 1 \in Int /\ n \in Int
        /\ 1 <= w.at - 1 + 1 /\ w.at + 1 <= n + 1
    BY <1>1, <2>1
  <2> HIDE DEF b, above
  <2>7. IsFiniteSet(b) /\ Cardinality(b) \in Nat /\ Cardinality(b) <= w.at - 1 - 1 + 1
    BY <2>2, <2>5, <2>6, IndexedCount
  <2>8. /\ IsFiniteSet(above) /\ Cardinality(above) \in Nat
        /\ Cardinality(above) <= n - (w.at + 1) + 1
    BY <2>3, <2>5, <2>6, IndexedCount
  <2>9. Cardinality(gone) = Cardinality(b) + Cardinality(above)
    <3>1. Cardinality(gone) = Cardinality(b) + Cardinality(above) - Cardinality(b \cap above)
      BY <2>4, <2>7, <2>8, FS_Union
    <3>2. Cardinality(b \cap above) = 0
      BY <2>4, FS_EmptySet
    <3> QED BY <2>7, <2>8, <3>1, <3>2
  <2>10. index(w) = w.at - Cardinality(b)
    BY DEF b
  <2> HIDE DEF index
  <2>11. index(w) \in 1..(n - Cardinality(gone))
    BY <2>1, <2>6, <2>7, <2>8, <2>9, <2>10
  <2> QED BY <2>7, <2>11 DEF b
<1>5. \A v, w \in W \ gone : v.at < w.at => index(v) < index(w)
  <2> SUFFICES ASSUME NEW v \in W \ gone, NEW w \in W \ gone, v.at < w.at
               PROVE  index(v) < index(w)
    OBVIOUS
  <2> DEFINE b == below(w)
             a == below(v)
             among == {x \in gone : v.at < x.at /\ x.at < w.at}
  <2>1. v.at \in 1..n /\ w.at \in 1..n
    BY <1>1
  <2>2. b = a \cup among /\ a \cap among = {}
    BY <1>1, <2>1 DEF Indexed
  <2>3. \A x \in among : x.at \in (v.at + 1)..(w.at - 1)
    BY <1>1, <2>1
  <2>4. among \in SUBSET W /\ a \in SUBSET gone
    OBVIOUS
  <2>5. v.at + 1 \in Int /\ w.at - 1 \in Int /\ v.at + 1 <= w.at - 1 + 1
    BY <2>1
  <2>6. index(v) = v.at - Cardinality(a) /\ index(w) = w.at - Cardinality(b)
    OBVIOUS
  <2> HIDE DEF b, a, among, index
  <2>7. /\ IsFiniteSet(among) /\ Cardinality(among) \in Nat
        /\ Cardinality(among) <= w.at - 1 - (v.at + 1) + 1
    BY <2>3, <2>4, <2>5, IndexedCount
  <2>8. IsFiniteSet(a) /\ Cardinality(a) \in Nat
    BY <1>2, <2>4, FS_Subset, FS_CardinalityType
  <2>9. Cardinality(b) = Cardinality(a) + Cardinality(among)
    <3>1. Cardinality(b) = Cardinality(a) + Cardinality(among) - Cardinality(a \cap among)
      BY <2>2, <2>7, <2>8, FS_Union
    <3>2. Cardinality(a \cap among) = 0
      BY <2>2, FS_EmptySet
    <3> QED BY <2>7, <2>8, <3>1, <3>2
  <2> QED BY <2>1, <2>6, <2>7, <2>8, <2>9
<1>6. E = {g[w] : w \in W \ gone}
  BY DEF Erase
<1>7. \A w \in W \ gone : g[w].at = index(w)
  OBVIOUS
<1>8. \A v, w \in W \ gone : g[v].at = g[w].at => v = w
  <2> SUFFICES ASSUME NEW v \in W \ gone, NEW w \in W \ gone, g[v].at = g[w].at
               PROVE  v = w
    OBVIOUS
  <2> HIDE DEF g, index, below
  <2>0. index(v) \in 1..(n - Cardinality(gone)) /\ g[v].at = index(v) /\ g[w].at = index(w)
    BY <1>4, <1>7
  <2>1. index(v) = index(w)
    BY <2>0
  <2>2. index(v) \in Int
    <3>1. n - Cardinality(gone) \in Int
      BY <1>1, <1>3
    <3>2. \A i, j : j \in Int /\ i \in 1..j => i \in Int
      OBVIOUS
    <3> QED BY <2>0, <3>1, <3>2
  <2>3. ~(v.at < w.at) /\ ~(w.at < v.at)
    BY <1>5, <2>1, <2>2
  <2>4. v.at \in Int /\ w.at \in Int
    BY <1>1
  <2> QED BY <2>3, <2>4 DEF Indexed
<1>9. g \in Surjection(W \ gone, E) /\ g \in Injection(W \ gone, E)
  <2>1. g \in [W \ gone -> E]
    BY <1>6
  <2> HIDE DEF g, E
  <2> QED BY <1>6, <1>8, <2>1 DEF Surjection, Injection, IsInjective
<1> HIDE DEF g, E, index, below
<1>10. IsFiniteSet(E) /\ Cardinality(E) = n - Cardinality(gone)
  BY <1>2, <1>3, <1>9, FS_Surjection
<1>11. \A x \in E : x.at \in 1..Cardinality(E)
  BY <1>4, <1>6, <1>7, <1>10
<1>12. \A x, y \in E : x.at = y.at => x = y
  BY <1>6, <1>8
<1> QED BY <1>10, <1>11, <1>12 DEF Indexed, E

\* The wires as the calls build them.
Laid(W) == Indexed(W) /\ Numbered(W)

LEMMA PushBackLaid ==
    ASSUME NEW W, NEW from, NEW to, Laid(W),
           from.node \in Int, to.node \in Int, to.port \in Int
    PROVE  Laid(PushBack(W, from, to))
<1> DEFINE index == Cardinality(W) + 1
           e == [at |-> index, from |-> from, to |-> to]
<1>1. PushBack(W, from, to) = W \cup {e}
  BY DEF PushBack
<1>2. e.from = from /\ e.to = to
  OBVIOUS
<1> HIDE DEF e
<1>3. Numbered(W \cup {e})
  BY <1>2 DEF Laid, Numbered
<1> QED BY <1>1, <1>3, PushBackIndexed DEF Laid

LEMMA AddEdgeLaid ==
    ASSUME NEW W, NEW N, NEW from, NEW to, Laid(W),
           from.node \in Int, to.node \in Int, to.port \in Int
    PROVE  Laid(AddEdge(W, N, from, to).wires)
<1>1. AddEdge(W, N, from, to).wires \in {W, PushBack(W, from, to)}
  BY DEF AddEdge
<1> QED BY <1>1, PushBackLaid

LEMMA EraseLaid ==
    ASSUME NEW W, NEW gone \in SUBSET W, Laid(W)
    PROVE  Laid(Erase(W, gone))
<1>1. Numbered(Erase(W, gone))
  BY EraseJoints DEF Laid, Numbered
<1> QED BY <1>1, EraseIndexed DEF Laid

LEMMA ConnectedLaid ==
    ASSUME NEW from, NEW to, Laid(wires), from.node \in Int, to.node \in Int, to.port \in Int
    PROVE  Laid(Connected(wires, from, to).wires)
<1> DEFINE erased == Erase(wires, FirstAmong(Occupants(wires, to)))
<1>1. Laid(erased)
  BY EraseLaid DEF FirstAmong, Occupants
<1>2. Connected(wires, from, to).wires \in
        {wires, AddEdge(erased, Nodes, from, to).wires, AddEdge(wires, Nodes, from, to).wires}
  BY DEF Connected
<1> HIDE DEF erased
<1> QED BY <1>1, <1>2, AddEdgeLaid

LEMMA RewiredLaid ==
    ASSUME NEW N, NEW base \in Int, NEW branch \in Int, NEW mixer \in Int, NEW sink \in Int,
           Laid(wires)
    PROVE  Laid(Rewired(base, branch, mixer, sink, N).wires)
<1> DEFINE cut == RemoveEdge(wires, Rgb(base, 0), Rgb(sink, 0))
           r1 == AddEdge(cut, N, Rgb(base, 0), Rgb(branch, 0))
           r2 == AddEdge(r1.wires, N, Rgb(base, 0), Rgb(mixer, 0))
           r3 == AddEdge(r2.wires, N, Rgb(branch, 0), Rgb(mixer, 1))
           r4 == AddEdge(r3.wires, N, Rgb(mixer, 0), Rgb(sink, 0))
<1>1. Laid(cut)
  BY EraseLaid DEF RemoveEdge, Match, FirstAmong
<1>2. Rewired(base, branch, mixer, sink, N).wires
        \in {wires, r1.wires, r2.wires, r3.wires, r4.wires}
  BY DEF Rewired
<1>3. \A n, p : Rgb(n, p).node = n /\ Rgb(n, p).port = p
  BY DEF Rgb, Pipe
<1> HIDE DEF cut
<1>4. Laid(r1.wires)
  BY <1>1, <1>3, AddEdgeLaid
<1> HIDE DEF r1
<1>5. Laid(r2.wires)
  BY <1>3, <1>4, AddEdgeLaid
<1> HIDE DEF r2
<1>6. Laid(r3.wires)
  BY <1>3, <1>5, AddEdgeLaid
<1> HIDE DEF r3
<1>7. Laid(r4.wires)
  BY <1>3, <1>6, AddEdgeLaid
<1> HIDE DEF r4
<1> QED BY <1>2, <1>4, <1>5, <1>6, <1>7

\* A reordering erases the layers it finds and puts the new wires after the rest.
LEMMA ReorderedLaid ==
    ASSUME NEW mixer \in Int, NEW order, Laid(wires),
           order \in Orders({w.from.node : w \in Layers(wires, mixer)})
    PROVE  Laid(Reordered(wires, mixer, order).wires)
<1> DEFINE layers == Layers(wires, mixer)
           sources == {w.from.node : w \in layers}
           found(l) == Match(wires, Rgb(l.from.node, l.to.port), l.to)
           tried == {l \in layers : \A x \in layers : x.at <= l.at => found(x) # {}}
           gone == UNION {found(l) : l \in tried}
           rest == Erase(wires, gone)
           n == Cardinality(rest)
           m == Cardinality(sources)
           g == [s \in sources |-> [at |-> n + order[s], from |-> Rgb(s, 0),
                                    to |-> Rgb(mixer, order[s])]]
           added == {g[s] : s \in sources}
<1>1. gone \in SUBSET wires
  BY DEF Match, FirstAmong
<1>2. layers \in SUBSET wires /\ IsFiniteSet(wires)
  BY DEF Layers, Into, Laid, Indexed
<1>3. sources \subseteq Int
  BY <1>2 DEF Laid, Numbered
<1>4. IsFiniteSet(sources)
  <2> DEFINE f == [w \in layers |-> w.from.node]
  <2>1. f \in Surjection(layers, sources)
    BY DEF Surjection
  <2>2. IsFiniteSet(layers)
    BY <1>2, FS_Subset
  <2> HIDE DEF f, layers, sources
  <2> QED BY <2>1, <2>2, FS_Surjection
<1>5. /\ order \in [sources -> 1..m]
      /\ \A a, b \in sources : order[a] = order[b] => a = b
  BY DEF Orders
<1>6. Reordered(wires, mixer, order).wires \in {rest, rest \cup added}
  <2>1. DOMAIN order = sources
    BY <1>5
  <2>2. added = {[at |-> n + order[s], from |-> Rgb(s, 0), to |-> Rgb(mixer, order[s])] :
                    s \in sources}
    OBVIOUS
  <2> HIDE DEF added, sources
  <2>3. \/ Reordered(wires, mixer, order).wires = rest
        \/ Reordered(wires, mixer, order).wires =
             rest \cup {[at |-> n + order[s], from |-> Rgb(s, 0),
                         to |-> Rgb(mixer, order[s])] : s \in DOMAIN order}
    BY DEF Reordered
  <2> QED BY <2>1, <2>2, <2>3
<1>7. Laid(rest)
  <2> HIDE DEF gone
  <2> QED BY <1>1, EraseLaid
<1>8. n \in Nat /\ m \in Nat
  <2> HIDE DEF sources, rest
  <2> QED BY <1>4, <1>7, FS_CardinalityType DEF Laid, Indexed
<1>9. \A s \in sources : /\ g[s].at = n + order[s]
                         /\ g[s].from = Rgb(s, 0) /\ g[s].to = Rgb(mixer, order[s])
  OBVIOUS
<1>10. \A s, p : Rgb(s, p).node = s /\ Rgb(s, p).port = p
  BY DEF Rgb, Pipe
<1>11. g \in [sources -> added]
  OBVIOUS
<1> HIDE DEF g, rest, n, m, sources, layers, gone
<1>12. \A s \in sources : g[s].at \in (n + 1)..(n + m)
  BY <1>5, <1>8, <1>9
<1>13. \A s, t \in sources : g[s].at = g[t].at => s = t
  <2>1. \A s \in sources : order[s] \in Int
    BY <1>5, <1>8
  <2> QED BY <1>5, <1>8, <1>9, <2>1
<1>14. IsFiniteSet(added) /\ Cardinality(added) = m
  <2>1. g \in Surjection(sources, added) /\ g \in Injection(sources, added)
    BY <1>11, <1>13 DEF Surjection, Injection, IsInjective
  <2> HIDE DEF added
  <2> QED BY <1>4, <2>1, FS_Surjection DEF m
<1>15. \A w \in rest : w.at \in 1..n
  BY <1>7 DEF Laid, Indexed, n
<1>16. rest \cap added = {}
  BY <1>8, <1>12, <1>15
<1>17. IsFiniteSet(rest \cup added) /\ Cardinality(rest \cup added) = n + m
  <2>1. /\ IsFiniteSet(rest \cup added)
        /\ Cardinality(rest \cup added) = n + m - Cardinality(rest \cap added)
    <3> HIDE DEF added
    <3> QED BY <1>7, <1>14, FS_Union DEF Laid, Indexed, n
  <2>2. Cardinality(rest \cap added) = 0
    BY <1>16, FS_EmptySet
  <2> QED BY <1>8, <2>1, <2>2
<1>18. \A w \in rest \cup added : w.at \in 1..(n + m)
  BY <1>8, <1>12, <1>15
<1>19. \A v, w \in rest \cup added : v.at = w.at => v = w
  <2>1. \A v, w \in rest : v.at = w.at => v = w
    BY <1>7 DEF Laid, Indexed
  <2>2. \A v, w \in added : v.at = w.at => v = w
    BY <1>13
  <2>3. \A v \in rest, w \in added : v.at # w.at
    BY <1>8, <1>12, <1>15
  <2> HIDE DEF added
  <2> QED BY <2>1, <2>2, <2>3
<1>20. Numbered(rest \cup added)
  <2>1. \A w \in added : w.from.node \in Int /\ w.to.node \in Int /\ w.to.port \in Int
    BY <1>3, <1>5, <1>8, <1>9, <1>10
  <2> HIDE DEF added
  <2> QED BY <1>7, <2>1 DEF Laid, Numbered
<1> HIDE DEF added
<1> QED BY <1>6, <1>7, <1>17, <1>18, <1>19, <1>20 DEF Laid, Indexed

\* The order of a saved file: by the nodes, the type and the place.
LEMMA FiledBeforeOrder ==
    ASSUME NEW v, NEW w
    PROVE  LET t(x) == IF x.from.type = "rgb" THEN 0 ELSE 1
           IN  FiledBefore(v, w) <=>
                 \/ v.from.node < w.from.node
                 \/ v.from.node = w.from.node /\ v.to.node < w.to.node
                 \/ v.from.node = w.from.node /\ v.to.node = w.to.node /\ t(v) < t(w)
                 \/ /\ v.from.node = w.from.node /\ v.to.node = w.to.node
                    /\ t(v) = t(w) /\ v.at < w.at
<1> DEFINE t(x) == IF x.from.type = "rgb" THEN 0 ELSE 1
           key(x) == <<x.from.node, x.to.node, t(x), x.at>>
           First(i) == key(v)[i] < key(w)[i] /\ \A j \in 1..(i - 1) : key(v)[j] = key(w)[j]
<1>1. FiledBefore(v, w) <=> First(1) \/ First(2) \/ First(3) \/ First(4)
  <2>1. FiledBefore(v, w) <=> \E i \in 1..4 : First(i)
    BY DEF FiledBefore
  <2>2. 1..4 = {1, 2, 3, 4}
    OBVIOUS
  <2> HIDE DEF First
  <2> QED BY <2>1, <2>2
<1>2. \A x : /\ key(x)[1] = x.from.node /\ key(x)[2] = x.to.node
             /\ key(x)[3] = t(x) /\ key(x)[4] = x.at
  OBVIOUS
<1>3. 1..(1 - 1) = {} /\ 1..(2 - 1) = {1} /\ 1..(3 - 1) = {1, 2} /\ 1..(4 - 1) = {1, 2, 3}
  OBVIOUS
<1> HIDE DEF key, t
<1>4. /\ First(1) <=> key(v)[1] < key(w)[1]
      /\ First(2) <=> key(v)[2] < key(w)[2] /\ key(v)[1] = key(w)[1]
      /\ First(3) <=> key(v)[3] < key(w)[3] /\ key(v)[1] = key(w)[1] /\ key(v)[2] = key(w)[2]
      /\ First(4) <=> /\ key(v)[4] < key(w)[4] /\ key(v)[1] = key(w)[1]
                      /\ key(v)[2] = key(w)[2] /\ key(v)[3] = key(w)[3]
  BY <1>3
<1> HIDE DEF First
<1> QED BY <1>1, <1>2, <1>4 DEF t

\* A load numbers the wires by that order, each at a place of its own.
LEMMA FiledLaid ==
    ASSUME Laid(wires)
    PROVE  Laid(Filed(wires))
<1> DEFINE n == Cardinality(wires)
           before(w) == {v \in wires : FiledBefore(v, w)}
           rank(w) == Cardinality(before(w))
           g == [w \in wires |-> [at |-> rank(w) + 1, from |-> Pipe(w.from.node, w.from.type, 0),
                                  to |-> Pipe(w.to.node, w.to.type, 0)]]
           F == {g[w] : w \in wires}
<1>1. Filed(wires) = F
  BY DEF Filed, AsFiled
<1>2. \A w \in wires : /\ g[w].at = rank(w) + 1
                       /\ g[w].from = Pipe(w.from.node, w.from.type, 0)
                       /\ g[w].to = Pipe(w.to.node, w.to.type, 0)
  OBVIOUS
<1>3. g \in [wires -> F]
  OBVIOUS
<1>4. IsFiniteSet(wires) /\ n \in Nat
  BY FS_CardinalityType DEF Laid, Indexed
<1>5. \A w \in wires : w.from.node \in Int /\ w.to.node \in Int /\ w.at \in Int
  BY <1>4 DEF Laid, Indexed, Numbered
<1>6. \A v, w \in wires : v # w => FiledBefore(v, w) \/ FiledBefore(w, v)
  <2> SUFFICES ASSUME NEW v \in wires, NEW w \in wires, v # w
               PROVE  FiledBefore(v, w) \/ FiledBefore(w, v)
    OBVIOUS
  <2>1. v.at # w.at
    BY DEF Laid, Indexed
  <2> QED BY <1>5, <2>1, FiledBeforeOrder
<1>7. \A w \in wires : ~FiledBefore(w, w)
  BY <1>5, FiledBeforeOrder
<1>8. \A u, v, w \in wires : FiledBefore(u, v) /\ FiledBefore(v, w) => FiledBefore(u, w)
  <2> SUFFICES ASSUME NEW u \in wires, NEW v \in wires, NEW w \in wires,
                      FiledBefore(u, v), FiledBefore(v, w)
               PROVE  FiledBefore(u, w)
    OBVIOUS
  <2> QED BY <1>5, FiledBeforeOrder
<1>9. \A w \in wires : IsFiniteSet(before(w)) /\ rank(w) \in Nat /\ rank(w) + 1 <= n
  <2> SUFFICES ASSUME NEW w \in wires
               PROVE  IsFiniteSet(before(w)) /\ rank(w) \in Nat /\ rank(w) + 1 <= n
    OBVIOUS
  <2> DEFINE b == before(w)
  <2>1. b \in SUBSET wires /\ w \notin b
    BY <1>7
  <2> HIDE DEF b
  <2>2. IsFiniteSet(b) /\ Cardinality(b) \in Nat /\ Cardinality(b) <= n
    BY <1>4, <2>1, FS_Subset, FS_CardinalityType
  <2>3. Cardinality(b) # n
    BY <1>4, <2>1, FS_Subset
  <2>4. Cardinality(b) + 1 <= n
    BY <1>4, <2>2, <2>3
  <2> QED BY <2>2, <2>4 DEF b
<1>10. \A v, w \in wires : FiledBefore(v, w) => rank(v) < rank(w)
  <2> SUFFICES ASSUME NEW v \in wires, NEW w \in wires, FiledBefore(v, w)
               PROVE  rank(v) < rank(w)
    OBVIOUS
  <2> DEFINE a == before(v)
             b == before(w)
  <2>1. a \in SUBSET b /\ v \in b /\ v \notin a
    BY <1>7, <1>8
  <2>2. IsFiniteSet(b) /\ Cardinality(b) \in Nat /\ Cardinality(a) \in Nat
    BY <1>9
  <2>3. rank(v) = Cardinality(a) /\ rank(w) = Cardinality(b)
    OBVIOUS
  <2> HIDE DEF a, b, rank
  <2>4. Cardinality(a) <= Cardinality(b) /\ Cardinality(a) # Cardinality(b)
    BY <2>1, <2>2, FS_Subset
  <2> QED BY <2>2, <2>3, <2>4
<1> HIDE DEF g, rank, before
<1>11. \A v, w \in wires : g[v].at = g[w].at => v = w
  <2> SUFFICES ASSUME NEW v \in wires, NEW w \in wires, v # w PROVE g[v].at # g[w].at
    OBVIOUS
  <2>1. rank(v) \in Nat /\ rank(w) \in Nat
    BY <1>9
  <2>2. rank(v) < rank(w) \/ rank(w) < rank(v)
    BY <1>6, <1>10
  <2> QED BY <1>2, <2>1, <2>2
<1>12. g \in Surjection(wires, F) /\ g \in Injection(wires, F)
  <2>1. \A y \in F : \E x \in wires : g[x] = y
    OBVIOUS
  <2> HIDE DEF F
  <2> QED BY <1>3, <1>11, <2>1 DEF Surjection, Injection, IsInjective
<1>13. IsFiniteSet(F) /\ Cardinality(F) = n
  <2> HIDE DEF F
  <2> QED BY <1>4, <1>12, FS_Surjection
<1>14. \A w \in wires : g[w].at \in 1..n
  <2> SUFFICES ASSUME NEW w \in wires PROVE g[w].at \in 1..n
    OBVIOUS
  <2>1. rank(w) \in Nat /\ rank(w) + 1 <= n
    BY <1>9
  <2> QED BY <1>2, <1>4, <2>1
<1>15. Numbered(F)
  <2>1. \A k, t, p : Pipe(k, t, p).node = k /\ Pipe(k, t, p).port = p
    BY DEF Pipe
  <2> QED BY <1>2, <1>5, <2>1 DEF Numbered
<1>16. Indexed(F)
  BY <1>11, <1>13, <1>14 DEF Indexed
<1> QED BY <1>1, <1>15, <1>16 DEF Laid
----------------------------------------------------------------------------
\* A set of naturals has a least member, and a finite set of integers a greatest.
LEMMA LeastOne ==
    ASSUME NEW T, T \subseteq Nat, T # {}
    PROVE  \E x \in T : \A y \in T : x <= y
<1> DEFINE R == {p \in Nat \X Nat : p[1] < p[2]}
<1>0. IsWellFoundedOn(R, Nat)
  BY NatLessThanWellFounded DEF OpToRel
<1>1. PICK x \in T : \A y \in T : ~(<<y, x>> \in R)
  <2> HIDE DEF R
  <2> QED BY <1>0, WFMin
<1>2. \A y \in T : <<y, x>> \in Nat \X Nat /\ (<<y, x>>)[1] = y /\ (<<y, x>>)[2] = x
  OBVIOUS
<1>3. \A y \in T : ~(y < x)
  BY <1>1, <1>2
<1> QED BY <1>3

LEMMA GreatestOne ==
    ASSUME NEW T, T \subseteq Int, T # {}, IsFiniteSet(T)
    PROVE  Max(T) \in T /\ \A y \in T : y <= Max(T)
<1> DEFINE above(x) == {y \in T : x < y}
           counts == {Cardinality(above(x)) : x \in T}
<1>1. \A x \in T : IsFiniteSet(above(x)) /\ Cardinality(above(x)) \in Nat
  BY FS_Subset, FS_CardinalityType
<1>2. PICK x \in T : \A y \in T : Cardinality(above(x)) <= Cardinality(above(y))
  <2> HIDE DEF above
  <2>1. counts \subseteq Nat /\ counts # {}
    BY <1>1
  <2>2. PICK c \in counts : \A d \in counts : c <= d
    BY <2>1, LeastOne
  <2> QED BY <2>2
<1>3. \A y \in T : y <= x
  <2> SUFFICES ASSUME NEW y \in T, x < y PROVE FALSE
    OBVIOUS
  <2> DEFINE a == above(y)
             b == above(x)
  <2>1. a \in SUBSET b /\ y \in b /\ y \notin a
    <3>1. y \in Int /\ x \in Int /\ T \subseteq Int
      OBVIOUS
    <3>2. \A z \in T : (y < z => x < z) /\ ~(y < y)
      BY <3>1
    <3>3. \A z : (z \in a <=> z \in T /\ y < z) /\ (z \in b <=> z \in T /\ x < z)
      OBVIOUS
    <3> HIDE DEF a, b
    <3> QED BY <3>2, <3>3
  <2>2. /\ IsFiniteSet(b) /\ Cardinality(a) \in Nat /\ Cardinality(b) \in Nat
        /\ Cardinality(b) <= Cardinality(a)
    <3> HIDE DEF above
    <3> QED BY <1>1, <1>2
  <2> HIDE DEF a, b
  <2>3. Cardinality(a) <= Cardinality(b) /\ Cardinality(a) # Cardinality(b)
    BY <2>1, <2>2, FS_Subset
  <2> QED BY <2>2, <2>3
<1>4. \E z \in T : \A y \in T : z >= y
  BY <1>3
<1>5. Max(T) = CHOOSE z \in T : \A y \in T : z >= y
  BY DEF Max
<1>6. Max(T) \in T /\ \A y \in T : Max(T) >= y
  BY <1>4, <1>5
<1> QED BY <1>6

\* The graph as the calls build it.
WellLaid ==
    /\ IsFiniteSet(Nodes) /\ Nodes \subseteq Int
    /\ Laid(wires)

LEMMA InitLaid == Init => WellLaid
<1> SUFFICES ASSUME Init PROVE WellLaid
  OBVIOUS
<1>1. PICK n \in 0..MaxNodes : Nodes = 1..n
  BY GraphAssumption DEF Init, Nodes
<1>2. n \in Int
  BY <1>1, GraphAssumption
<1>3. IsFiniteSet(Nodes) /\ Nodes \subseteq Int
  BY <1>1, <1>2, FS_Interval
<1>4. Laid({})
  BY FS_EmptySet DEF Laid, Indexed, Numbered
<1> QED BY <1>3, <1>4 DEF Init, WellLaid

LEMMA NextLaid == ASSUME WellLaid, [Next]_vars PROVE WellLaid'
<1> USE DEF Answer
<1>0. \A n, p : Rgb(n, p).node = n /\ Rgb(n, p).port = p
  BY DEF Rgb, Pipe
<1>9. Cardinality(Nodes) \in Nat
  BY FS_CardinalityType DEF WellLaid
<1>10. ASSUME Nodes' = Nodes, Laid(wires') PROVE WellLaid'
  BY <1>10 DEF WellLaid
<1>1. ASSUME NEW k \in Kinds, AddNode(k) PROVE WellLaid'
  <2> DEFINE n == Cardinality(Nodes) + 1
  <2>1. wires' = wires /\ Nodes' = Nodes \cup {n}
    BY <1>1 DEF AddNode, Nodes
  <2>2. n \in Int
    BY <1>9
  <2> HIDE DEF n
  <2>3. IsFiniteSet(Nodes \cup {n})
    BY FS_AddElement DEF WellLaid
  <2> QED BY <2>1, <2>2, <2>3 DEF WellLaid
<1>2. ASSUME NEW a \in Nodes, NEW b \in Nodes, AddRgbEdge(a, b) PROVE WellLaid'
  <2>1. a \in Int /\ b \in Int /\ Laid(wires)
    BY DEF WellLaid
  <2>2. wires' = AddEdge(wires, Nodes, Rgb(a, 0), Rgb(b, 0)).wires /\ Nodes' = Nodes
    BY <1>2 DEF AddRgbEdge, Nodes
  <2> QED BY <1>0, <1>10, <2>1, <2>2, AddEdgeLaid
<1>3. ASSUME NEW a \in Nodes, NEW b \in Nodes, NEW type \in Types, NEW port \in Ports,
             ConnectOrReplace(Pipe(a, type, 0), Pipe(b, type, port))
      PROVE  WellLaid'
  <2>1. a \in Int /\ b \in Int /\ port \in Int /\ Laid(wires)
    BY GraphAssumption DEF WellLaid
  <2>2. /\ wires' = Connected(wires, Pipe(a, type, 0), Pipe(b, type, port)).wires
        /\ Nodes' = Nodes
    BY <1>3 DEF ConnectOrReplace, Nodes
  <2>3. /\ Pipe(a, type, 0).node = a
        /\ Pipe(b, type, port).node = b /\ Pipe(b, type, port).port = port
    BY DEF Pipe
  <2> QED BY <1>10, <2>1, <2>2, <2>3, ConnectedLaid
<1>4. ASSUME NEW k, NEW sink \in Nodes, InsertBranch(k, sink) PROVE WellLaid'
  <2> DEFINE branch == Cardinality(Nodes) + 1
             mixer == Cardinality(Nodes) + 2
             all == Nodes \cup {branch, mixer}
  <2>1. PICK w \in FirstAmong(Into(wires, sink)) :
           wires' = Rewired(w.from.node, branch, mixer, sink, all).wires
    BY <1>4 DEF InsertBranch
  <2>2. Nodes' = all
    BY <1>4 DEF InsertBranch, Nodes
  <2>3. branch \in Int /\ mixer \in Int /\ sink \in Int
    BY <1>9 DEF WellLaid
  <2>4. w.from.node \in Int
    BY DEF FirstAmong, Into, WellLaid, Laid, Numbered
  <2>5. IsFiniteSet(all)
    <3> HIDE DEF branch, mixer
    <3>1. IsFiniteSet(Nodes \cup {branch})
      BY FS_AddElement DEF WellLaid
    <3>2. IsFiniteSet((Nodes \cup {branch}) \cup {mixer})
      BY <3>1, FS_AddElement
    <3>3. all = (Nodes \cup {branch}) \cup {mixer}
      OBVIOUS
    <3> QED BY <3>2, <3>3
  <2> HIDE DEF branch, mixer
  <2>6. all \subseteq Int
    BY <2>3 DEF WellLaid
  <2> HIDE DEF all
  <2>7. Laid(wires')
    BY <2>1, <2>3, <2>4, RewiredLaid DEF WellLaid
  <2> QED BY <2>2, <2>5, <2>6, <2>7 DEF WellLaid
<1>5. ASSUME NEW mixer \in Nodes, NEW layer \in Nodes, AddLayer(mixer, layer) PROVE WellLaid'
  <2>1. mixer \in Int /\ layer \in Int /\ NextPort(wires, mixer) \in Int /\ Laid(wires)
    <3>1. NextPort(wires, mixer) \in Ports
      BY <1>5 DEF AddLayer
    <3>2. Ports \subseteq Int
      BY GraphAssumption
    <3> QED BY <3>1, <3>2 DEF WellLaid
  <2>2. /\ wires' = Connected(wires, Rgb(layer, 0), Rgb(mixer, NextPort(wires, mixer))).wires
        /\ Nodes' = Nodes
    BY <1>5 DEF AddLayer, Nodes
  <2> QED BY <1>0, <1>10, <2>1, <2>2, ConnectedLaid
<1>6. ASSUME NEW mixer \in Nodes,
             NEW order \in Orders({w.from.node : w \in Layers(wires, mixer)}),
             SetLayerOrder(mixer, order)
      PROVE  WellLaid'
  <2>1. mixer \in Int /\ Laid(wires)
    BY DEF WellLaid
  <2>2. wires' = Reordered(wires, mixer, order).wires /\ Nodes' = Nodes
    BY <1>6 DEF SetLayerOrder, Nodes
  <2> QED BY <1>10, <2>1, <2>2, ReorderedLaid
<1>7. ASSUME SaveAndLoad PROVE WellLaid'
  <2>1. wires' = Filed(wires) /\ Nodes' = Nodes
    BY <1>7 DEF SaveAndLoad, Nodes
  <2> QED BY <1>10, <2>1, FiledLaid DEF WellLaid
<1>8. ASSUME UNCHANGED vars PROVE WellLaid'
  BY <1>8 DEF vars, Nodes, WellLaid
<1> QED BY <1>1, <1>2, <1>3, <1>4, <1>5, <1>6, <1>7, <1>8 DEF Next

----------------------------------------------------------------------------
(* The evaluator's order. *)

\* Nodes are numbered as they are added, and no mixer is noted as its own source.
Noted == Nodes = 1..Cardinality(Nodes) /\ \A m \in Nodes : shared[m] # m

LEMMA NumberedNodes == ASSUME NEW n \in Nat PROVE Cardinality(1..n) = n
BY FS_Interval

LEMMA InitNoted == Init => Noted
<1> SUFFICES ASSUME Init PROVE Noted
  OBVIOUS
<1>1. PICK n \in 0..MaxNodes : Nodes = 1..n
  BY GraphAssumption DEF Init, Nodes
<1>2. n \in Nat
  BY <1>1, GraphAssumption
<1>3. Nodes = 1..Cardinality(Nodes)
  BY <1>1, <1>2, NumberedNodes
<1>4. \A m \in Nodes : shared[m] = None /\ m # None
  BY <1>1, <1>2 DEF Init, None
<1> QED BY <1>3, <1>4 DEF Noted

LEMMA NextNoted ==
    ASSUME Noted, Inside(wires, Nodes), IsFiniteSet(Nodes), [Next]_vars
    PROVE  Noted'
<1>1. PICK n \in Nat : n = Cardinality(Nodes)
  BY FS_CardinalityType
<1>2. Nodes = 1..n
  BY <1>1 DEF Noted
<1>3. CASE UNCHANGED <<kind, shared>>
  BY <1>3 DEF Noted, Nodes
<1>4. ASSUME NEW k, AddNode(k) PROVE Noted'
  <2>1. Nodes' = 1..(n + 1)
    <3>1. Nodes' = Nodes \cup {n + 1}
      BY <1>1, <1>4 DEF AddNode, Nodes
    <3> QED BY <1>2, <3>1
  <2>2. Nodes' = 1..Cardinality(Nodes')
    BY <2>1, NumberedNodes
  <2>3. ASSUME NEW m \in Nodes' PROVE shared'[m] # m
    <3>1. shared'[m] = IF m = n + 1 THEN None ELSE shared[m]
      BY <1>1, <1>4, <2>3 DEF AddNode, Nodes
    <3>2. m # None /\ (m # n + 1 => m \in Nodes)
      BY <1>2, <2>1 DEF None
    <3> QED BY <3>1, <3>2 DEF Noted
  <2> QED BY <2>2, <2>3 DEF Noted
<1>5. ASSUME NEW k, NEW sink \in Nodes, InsertBranch(k, sink) PROVE Noted'
  <2>1. PICK w \in FirstAmong(Into(wires, sink)) :
           shared' = [m \in Nodes \cup {n + 1, n + 2} |->
                         IF m = n + 2 THEN w.from.node
                         ELSE IF m = n + 1 THEN None ELSE shared[m]]
    BY <1>1, <1>5 DEF InsertBranch
  <2>2. Nodes' = Nodes \cup {n + 1, n + 2}
    BY <1>1, <1>5 DEF InsertBranch, Nodes
  <2>3. Nodes' = 1..(n + 2)
    BY <1>2, <2>2
  <2>4. Nodes' = 1..Cardinality(Nodes')
    BY <2>3, NumberedNodes
  <2>5. w.from.node \in 1..n
    BY <1>2 DEF Inside, FirstAmong, Into
  <2>6. ASSUME NEW m \in Nodes' PROVE shared'[m] # m
    <3>1. shared'[m] = IF m = n + 2 THEN w.from.node ELSE IF m = n + 1 THEN None ELSE shared[m]
      BY <2>1, <2>2, <2>6
    <3>2. m # None /\ (m \notin {n + 1, n + 2} => m \in Nodes) /\ (m = n + 2 => w.from.node # m)
      BY <1>2, <2>3, <2>5 DEF None
    <3> QED BY <3>1, <3>2 DEF Noted
  <2> QED BY <2>4, <2>6 DEF Noted
<1> QED BY <1>3, <1>4, <1>5
       DEF Next, AddRgbEdge, ConnectOrReplace, AddLayer, SetLayerOrder, SaveAndLoad, vars

\* What precedes a node feeds it, and is not fed by it.
LEMMA PrecedesOneWay ==
    ASSUME Acyclic, Inside(wires, Nodes), Noted, SourcesFeed,
           NEW a \in Nodes, NEW b \in Nodes, Precedes(a, b)
    PROVE  Feeds(wires, Nodes, a, b) /\ ~Feeds(wires, Nodes, b, a)
<1>1. CASE \E w \in wires : w.from.node = a /\ w.to.node = b
  <2> PICK w \in wires : w.from.node = a /\ w.to.node = b
    BY <1>1
  <2>1. Feeds(wires, Nodes, a, b)
    BY DEF Feeds, Closed
  <2>2. ~WouldCreateCycle(wires, Nodes, a, b)
    BY DEF Acyclic, NoCycle
  <2> QED BY <2>1, <2>2 DEF Feeds, WouldCreateCycle
<1>2. CASE kind[b] = "ParallelMixer" /\ shared[b] = a
  <2>1. Feeds(wires, Nodes, a, b) /\ a # b
    BY <1>2 DEF SourcesFeed, Noted
  <2> DEFINE after == {x \in Nodes : x # a /\ Feeds(wires, Nodes, a, x)}
  <2>2. ASSUME NEW w \in wires, w.from.node \in after PROVE w.to.node \in after
    <3>1. Feeds(wires, Nodes, a, w.from.node) /\ w.to.node \in Nodes
      BY <2>2 DEF Inside
    <3>2. Feeds(wires, Nodes, a, w.to.node)
      BY <3>1 DEF Feeds, Closed
    <3>3. w.to.node # a
      BY <3>1 DEF Acyclic, NoCycle, WouldCreateCycle, Feeds
    <3> QED BY <3>1, <3>2, <3>3
  <2>3. after \in SUBSET Nodes /\ b \in after /\ a \notin after /\ Closed(wires, after)
    BY <2>1, <2>2 DEF Closed
  <2> HIDE DEF after
  <2> QED BY <2>1, <2>3 DEF Feeds
<1> QED BY <1>1, <1>2 DEF Precedes

\* Of any nodes, the one that the fewest feed is preceded by none of them.
LEMMA AnOrder ==
    ASSUME Acyclic, Inside(wires, Nodes), Noted, IsFiniteSet(Nodes), SourcesFeed
    PROVE  HasOrder
<1> SUFFICES ASSUME NEW S \in SUBSET Nodes, S # {}
             PROVE  \E b \in S : \A a \in S : ~Precedes(a, b)
  BY DEF HasOrder
<1> DEFINE before(x) == {a \in Nodes : Feeds(wires, Nodes, a, x)}
           counts == {Cardinality(before(x)) : x \in S}
<1>1. \A x \in S : IsFiniteSet(before(x)) /\ Cardinality(before(x)) \in Nat
  BY FS_Subset, FS_CardinalityType
<1>2. PICK b \in S : \A x \in S : Cardinality(before(b)) <= Cardinality(before(x))
  <2> HIDE DEF before
  <2>1. counts \subseteq Nat /\ counts # {}
    BY <1>1
  <2>2. PICK c \in counts : \A d \in counts : c <= d
    BY <2>1, LeastOne
  <2> QED BY <2>2
<1>3. ASSUME NEW a \in S, Precedes(a, b) PROVE FALSE
  <2>1. Feeds(wires, Nodes, a, b) /\ ~Feeds(wires, Nodes, b, a)
    BY <1>3, PrecedesOneWay
  <2>2. before(a) \in SUBSET before(b)
    BY <2>1 DEF Feeds
  <2>3. b \in before(b) /\ b \notin before(a)
    BY <2>1 DEF Feeds
  <2>4. /\ IsFiniteSet(before(b)) /\ Cardinality(before(a)) \in Nat
        /\ Cardinality(before(b)) \in Nat
        /\ Cardinality(before(b)) <= Cardinality(before(a))
    BY <1>1, <1>2
  <2> HIDE DEF before
  <2>5. Cardinality(before(a)) <= Cardinality(before(b)) /\ before(a) # before(b)
    BY <2>2, <2>3, <2>4, FS_Subset
  <2>6. Cardinality(before(a)) = Cardinality(before(b))
    BY <2>4, <2>5
  <2> QED BY <2>2, <2>4, <2>5, <2>6, FS_Subset
<1> QED BY <1>3

\* After any sequence of calls the evaluator finds an order for the graph, if
\* the source noted in each parallel mixer feeds it (eval.cpp:361).
THEOREM GraphHasOrder == Spec => []EvaluatorFindsOrder
<1> DEFINE In == Inside(wires, Nodes)
           Inv == Acyclic /\ In /\ WellLaid /\ Noted
<1>1. Init => Inv
  BY InitLaid, InitNoted DEF Init, Acyclic, NoCycle, Inside
<1>2. Inv /\ [Next]_vars => Inv'
  <2> SUFFICES ASSUME Inv, [Next]_vars PROVE Inv'
    OBVIOUS
  <2>1. Acyclic' /\ WellLaid'
    BY NextNoCycle, NextLaid
  <2>2. In'
    BY NextInside
  <2>3. Noted'
    BY NextNoted DEF WellLaid
  <2> QED BY <2>1, <2>2, <2>3
<1>3. Inv => EvaluatorFindsOrder
  BY AnOrder DEF EvaluatorFindsOrder, WellLaid
<1> QED BY <1>1, <1>2, <1>3, PTL DEF Spec
----------------------------------------------------------------------------
\* The port of a new layer is above the port of every layer there is.
LEMMA NextPortAbove ==
    ASSUME NEW W, NEW mixer, Laid(W)
    PROVE  /\ NextPort(W, mixer) \in Int
           /\ \A w \in Layers(W, mixer) : w.to.port < NextPort(W, mixer)
<1> DEFINE ports == {w.to.port : w \in Layers(W, mixer)}
           all == {0} \cup ports
           f == [w \in Layers(W, mixer) |-> w.to.port]
<1>1. Layers(W, mixer) \in SUBSET W
  BY DEF Layers, Into
<1>2. IsFiniteSet(Layers(W, mixer))
  BY <1>1, FS_Subset DEF Laid, Indexed
<1>3. f \in Surjection(Layers(W, mixer), ports)
  BY DEF Surjection
<1>4. all \subseteq Int
  BY <1>1 DEF Laid, Numbered
<1>5. IsFiniteSet(all)
  <2> HIDE DEF f, ports
  <2>1. IsFiniteSet(ports)
    BY <1>2, <1>3, FS_Surjection
  <2>2. IsFiniteSet(ports \cup {0})
    BY <2>1, FS_AddElement
  <2>3. ports \cup {0} = all
    OBVIOUS
  <2> QED BY <2>2, <2>3
<1>6. NextPort(W, mixer) = Max(all) + 1
  BY DEF NextPort
<1>7. Max(all) \in Int /\ \A y \in all : y <= Max(all)
  <2>1. all # {}
    OBVIOUS
  <2> HIDE DEF all
  <2> QED BY <1>4, <1>5, <2>1, GreatestOne
<1>8. \A w \in Layers(W, mixer) : w.to.port \in all
  OBVIOUS
<1> HIDE DEF all, ports
<1>9. \A y \in all : y < Max(all) + 1
  BY <1>4, <1>7
<1> QED BY <1>6, <1>7, <1>8, <1>9

\* The new wire comes last, above the layers that stay: a wire in its way can
\* only be the mixer's first, which is no layer and is erased.
LEMMA NewLayerOnTop ==
    ASSUME NEW mixer, NEW layer, Laid(wires),
           Connected(wires, Rgb(layer, 0), Rgb(mixer, NextPort(wires, mixer))).ok
    PROVE  LET W == Connected(wires, Rgb(layer, 0), Rgb(mixer, NextPort(wires, mixer))).wires
           IN  \E w \in W : /\ \A v \in W : v.at <= w.at
                            /\ \/ w \in OnTop(W, w.to.node)
                               \/ Into(W, w.to.node) = {w}
<1> DEFINE port == NextPort(wires, mixer)
           from == Rgb(layer, 0)
           to == Rgb(mixer, port)
           way == Occupants(wires, to)
           V == IF way # {} THEN Erase(wires, FirstAmong(way)) ELSE wires
           n == Cardinality(V)
           e == [at |-> n + 1, from |-> from, to |-> to]
           W == Connected(wires, from, to).wires
           Last(w) == \A v \in W : v.at <= w.at
           Top(w) == w \in OnTop(W, w.to.node) \/ Into(W, w.to.node) = {w}
<1> SUFFICES \E w \in W : Last(w) /\ Top(w)
  OBVIOUS
<1>1. W = V \cup {e}
  <2>1. AddEdge(V, Nodes, from, to).ok /\ W = AddEdge(V, Nodes, from, to).wires
    <3>1. [ok |-> FALSE, wires |-> wires].ok = FALSE
      OBVIOUS
    <3> QED BY <3>1 DEF Connected
  <2>2. [ok |-> FALSE, wires |-> V].ok = FALSE
    OBVIOUS
  <2> HIDE DEF V, W, from, to
  <2> QED BY <2>1, <2>2 DEF AddEdge, PushBack
<1>2. e.at = n + 1 /\ e.to = to
  OBVIOUS
<1>3. to.node = mixer /\ to.type = "rgb" /\ to.port = port
  BY DEF Rgb, Pipe
<1>4. Laid(V)
  BY EraseLaid DEF FirstAmong, Occupants
<1>5. port \in Int /\ \A w \in Layers(wires, mixer) : w.to.port < port
  BY NextPortAbove
<1>6. \A v \in V : \E w \in wires : v.from = w.from /\ v.to = w.to
  BY EraseJoints
<1> HIDE DEF e, W, from, to, port
<1>7. n \in Nat /\ \A v \in V : v.at \in 1..n
  BY <1>4, FS_CardinalityType DEF Laid, Indexed
<1> HIDE DEF n
<1>8. \A v \in W : v.at \in Int /\ v.at <= e.at
  BY <1>1, <1>2, <1>7
<1>9. e \in Into(W, mixer)
  BY <1>1, <1>2, <1>3 DEF Into
\* A wire into the mixer that stays is a layer, or was its base.
<1>10. ASSUME NEW x \in Layers(W, mixer), x # e
       PROVE  x.to.port < port
  <2>1. x \in V /\ x \in Into(V, mixer)
    BY <1>1, <1>10 DEF Layers, Into
  <2>2. CASE way = {}
    <3>1. V = wires
      BY <2>2
    <3>2. PICK y \in Into(W, mixer) : y.at < x.at
      <4>1. x \notin FirstAmong(Into(W, mixer)) /\ x \in Into(W, mixer)
        BY DEF Layers
      <4>2. PICK y \in Into(W, mixer) : ~(x.at <= y.at)
        BY <4>1 DEF FirstAmong
      <4>3. x \in W /\ y \in W
        BY <4>1 DEF Into
      <4> QED BY <1>8, <4>2, <4>3
    <3>3. y \in Into(wires, mixer)
      <4>1. y # e
        BY <1>2, <1>7, <2>1, <3>2
      <4> QED BY <1>1, <3>1, <4>1 DEF Into
    <3>4. x \notin FirstAmong(Into(wires, mixer))
      <4>1. x.at \in Int /\ y.at \in Int
        BY <1>7, <2>1, <3>1, <3>3 DEF Into
      <4> QED BY <3>2, <3>3, <4>1 DEF FirstAmong
    <3>5. x \in Layers(wires, mixer)
      BY <2>1, <3>1, <3>4 DEF Layers
    <3> QED BY <1>5, <3>5
  <2>3. CASE way # {}
    <3>1. V = Erase(wires, FirstAmong(way))
      BY <2>3
    <3>2. \A o \in way : o \in FirstAmong(Into(wires, mixer))
      <4> SUFFICES ASSUME NEW o \in way PROVE o \in FirstAmong(Into(wires, mixer))
        OBVIOUS
      <4>1. o \in Into(wires, mixer) /\ o.to.port = port
        BY <1>3 DEF Occupants, Into
      <4> QED BY <1>5, <4>1 DEF Layers
    <3>3. \A o, u \in FirstAmong(Into(wires, mixer)) : o = u
      <4>1. \A w \in Into(wires, mixer) : w \in wires /\ w.at \in Int
        BY FS_CardinalityType DEF Laid, Indexed, Into
      <4> QED BY <4>1 DEF FirstAmong, Laid, Indexed
    <3>4. FirstAmong(way) = FirstAmong(Into(wires, mixer))
      <4>1. \A w \in wires : w.at \in Int
        BY FS_CardinalityType DEF Laid, Indexed
      <4>2. way \subseteq wires
        BY DEF Occupants
      <4>3. \A o, u \in way : o = u
        BY <3>2, <3>3
      <4>4. FirstAmong(way) = way
        BY <4>1, <4>2, <4>3 DEF FirstAmong
      <4> QED BY <2>3, <3>2, <3>3, <4>4
    <3>5. PICK u \in wires \ FirstAmong(way) : x.from = u.from /\ x.to = u.to
      <4> DEFINE gone == FirstAmong(way)
                 index(w) == w.at - Cardinality({y \in gone : y.at < w.at})
      <4>1. PICK w \in wires \ gone : x = [at |-> index(w), from |-> w.from, to |-> w.to]
        BY <2>1, <3>1 DEF Erase
      <4> HIDE DEF index
      <4> QED BY <4>1
    <3>6. u \in Layers(wires, mixer)
      BY <2>1, <3>4, <3>5 DEF Layers, Into
    <3> QED BY <1>5, <3>5, <3>6
  <2> QED BY <2>2, <2>3
<1>11. CASE Into(W, mixer) = {e}
  BY <1>1, <1>2, <1>3, <1>8, <1>11
<1>12. CASE Into(W, mixer) # {e}
  <2>1. PICK y \in Into(W, mixer) : y # e
    BY <1>9, <1>12
  <2>2. y.at < e.at
    BY <1>1, <1>2, <1>7, <2>1 DEF Into
  <2>3. y.at \in Int /\ e.at \in Int
    BY <1>1, <1>8, <2>1 DEF Into
  <2>4. e \in Layers(W, mixer)
    BY <1>9, <2>1, <2>2, <2>3 DEF Layers, FirstAmong
  <2>5. \A x \in Layers(W, mixer) : x.to.port < port \/ (x.to.port = port /\ x.at <= e.at)
    BY <1>2, <1>3, <1>8, <1>10, <2>4, <2>3
  <2>6. e \in OnTop(W, mixer)
    BY <1>2, <1>3, <2>4, <2>5 DEF OnTop
  <2> QED BY <1>1, <1>2, <1>3, <1>8, <2>6
<1> QED BY <1>11, <1>12

\* A layer that is added is the one composited last.
THEOREM NewLayersGoOnTop == Spec => LayerGoesOnTop
<1> DEFINE Topped == ret'.op = "add_layer" /\ ret'.ok =>
                       \E w \in wires' : /\ \A v \in wires' : v.at <= w.at
                                         /\ \/ w \in OnTop(wires', w.to.node)
                                            \/ Into(wires', w.to.node) = {w}
<1>1. WellLaid /\ [Next]_vars => [Topped]_vars
  <2> SUFFICES ASSUME WellLaid, Next, ret'.op = "add_layer", ret'.ok
               PROVE  \E w \in wires' : /\ \A v \in wires' : v.at <= w.at
                                        /\ \/ w \in OnTop(wires', w.to.node)
                                           \/ Into(wires', w.to.node) = {w}
    OBVIOUS
  <2>1. PICK mixer \in Nodes, layer \in Nodes : AddLayer(mixer, layer)
    <3>1. \A op, r : Answer(op, r) => ret'.op = op
      BY DEF Answer
    <3>2. \A k : AddNode(k) => ret'.op = "add_node"
      BY <3>1 DEF AddNode
    <3>3. \A c, d : AddRgbEdge(c, d) => ret'.op = "add_rgb_edge"
      BY <3>1 DEF AddRgbEdge
    <3>4. \A from, to : ConnectOrReplace(from, to) => ret'.op = "connect_or_replace"
      BY <3>1 DEF ConnectOrReplace
    <3>5. \A k, sink : InsertBranch(k, sink) => ret'.op = "insert_branch"
      BY <3>1 DEF InsertBranch
    <3>6. \A mixer, order : SetLayerOrder(mixer, order) => ret'.op = "set_layer_order"
      BY <3>1 DEF SetLayerOrder
    <3>7. SaveAndLoad => ret'.op = "reload"
      BY <3>1 DEF SaveAndLoad
    <3> QED BY <3>2, <3>3, <3>4, <3>5, <3>6, <3>7 DEF Next
  <2> DEFINE r == Connected(wires, Rgb(layer, 0), Rgb(mixer, NextPort(wires, mixer)))
  <2>2. wires' = r.wires /\ r.ok
    BY <2>1 DEF AddLayer, Answer
  <2> QED BY <2>2, NewLayerOnTop DEF WellLaid
<1> QED BY <1>1, InitLaid, NextLaid, PTL DEF Spec, LayerGoesOnTop
=============================================================================
