----------------------------- MODULE GradeGraph -----------------------------
(* A clip's graph of colour nodes, core/src/grade_graph: building it          *)
(* (graph.cpp), the editing laws of the node canvas (edit.cpp) and a save     *)
(* followed by a load (serialize.cpp). Calls come from one thread, in any     *)
(* order.                                                                     *)
(*                                                                            *)
(* edges_ is a vector: a wire of the model carries its index, `at`, and       *)
(* erasing one moves the later ones down. Nodes are numbered from 1. Left     *)
(* out: what a node does to pixels, channel pipes with the splitter and the   *)
(* combiner they join, and the partner of an outside node.                    *)
EXTENDS Integers, FiniteSets, FiniteSetsExt

CONSTANTS
    MaxNodes,    \* bound on nodes
    MaxWires,    \* bound on wires
    MaxCalls,    \* bound on calls
    Kinds,       \* the kinds of nodes a client adds
    Started,     \* the kinds of the nodes a client begins with
    Ports        \* the input ports a client names

ASSUME GraphAssumption ==
    /\ MaxNodes \in Nat /\ MaxWires \in Nat /\ MaxCalls \in Nat
    /\ Ports \subseteq Nat
    /\ \A k \in Started : \E n \in 0..MaxNodes : DOMAIN k = 1..n

VARIABLES
    kind,        \* nodes_: the kind of each node
    shared,      \* shared_source of each node
    wires,       \* edges_
    calls,       \* calls so far
    ret          \* the last call and what it answered

vars == <<kind, shared, wires, calls, ret>>

None == 0
Nodes == DOMAIN kind
Types == {"rgb", "key"}

\* node_ports: the inputs of a kind and whether it has an output, by type.
Inputs(k, type) ==
    CASE k = "LayerMixer"    -> IF type = "rgb" THEN Ports ELSE {}
      [] k = "ParallelMixer" -> IF type = "rgb" THEN {0, 1} ELSE {}
      [] k = "KeyMixer"      -> IF type = "key" THEN {0, 1} ELSE {}
      [] k \in {"Output", "Outside"} -> IF type = "rgb" THEN {0} ELSE {}
      [] OTHER               -> {0}

HasOutput(k, type) ==
    CASE k = "Output"                           -> FALSE
      [] k = "KeyMixer"                         -> type = "key"
      [] k \in {"LayerMixer", "ParallelMixer"} -> type = "rgb"
      [] OTHER                                  -> TRUE

Pipe(n, type, port) == [node |-> n, type |-> type, port |-> port]
Rgb(n, port) == Pipe(n, "rgb", port)

----------------------------------------------------------------------------
\* The wires, as edges_ is changed.

Closed(W, S) == \A w \in W : w.from.node \in S => w.to.node \in S

\* would_create_cycle: some path leads from `to` back to `from`, that is, every
\* set of nodes that holds `to` and what it feeds holds `from`.
WouldCreateCycle(W, N, from, to) ==
    \A S \in SUBSET N : to \in S /\ Closed(W, S) => from \in S

PushBack(W, from, to) == W \cup {[at |-> Cardinality(W) + 1, from |-> from, to |-> to]}

Erase(W, gone) ==
    {[at |-> w.at - Cardinality({x \in gone : x.at < w.at}), from |-> w.from, to |-> w.to] :
        w \in W \ gone}

\* The wire remove_edge finds: the first that joins the two pipes.
FirstAmong(S) == {w \in S : \A x \in S : w.at <= x.at}
Match(W, from, to) == FirstAmong({w \in W : w.from = from /\ w.to = to})

RemoveEdge(W, from, to) == Erase(W, Match(W, from, to))

Into(W, n) == {w \in W : w.to.node = n /\ w.to.type = "rgb"}
Occupants(W, to) == {w \in W : w.to = to}

AddEdge(W, N, from, to) ==
    IF WouldCreateCycle(W, N, from.node, to.node)
    THEN [ok |-> FALSE, wires |-> W]
    ELSE [ok |-> TRUE, wires |-> PushBack(W, from, to)]

\* can_wire looks at the port before the type of the output, and at cycles last.
PortExists(from, to) ==
    from.node # to.node /\ from.type = to.type /\ to.port \in Inputs(kind[to.node], to.type)

\* Mutant: a wire onto a free port is not tried for a cycle.
ConnectedUnasked(W, from, to) ==
    IF ~PortExists(from, to) THEN [ok |-> FALSE, wires |-> W]
    ELSE [ok |-> TRUE, wires |-> PushBack(Erase(W, FirstAmong(Occupants(W, to))), from, to)]

\* connect_or_replace: the wire in the way is erased before the new one is tried.
Connected(W, from, to) ==
    IF ~PortExists(from, to) THEN [ok |-> FALSE, wires |-> W]
    ELSE IF Occupants(W, to) # {}
         THEN AddEdge(Erase(W, FirstAmong(Occupants(W, to))), Nodes, from, to)
         ELSE IF ~(HasOutput(kind[from.node], from.type) /\ from.port = 0)
              THEN [ok |-> FALSE, wires |-> W]
              ELSE AddEdge(W, Nodes, from, to)

----------------------------------------------------------------------------
Init ==
    /\ kind \in Started
    /\ shared = [n \in Nodes |-> None]
    /\ wires = {} /\ calls = 0 /\ ret = [op |-> "none", ok |-> TRUE]

Answer(op, r) ==
    /\ calls < MaxCalls /\ calls' = calls + 1
    /\ Cardinality(r.wires) <= MaxWires
    /\ wires' = r.wires
    /\ ret' = [op |-> op, ok |-> r.ok]

AddNode(k) ==
    LET n == Cardinality(Nodes) + 1
    IN  /\ n <= MaxNodes
        /\ kind' = [m \in Nodes \cup {n} |-> IF m = n THEN k ELSE kind[m]]
        /\ shared' = [m \in Nodes \cup {n} |-> IF m = n THEN None ELSE shared[m]]
        /\ Answer("add_node", [ok |-> TRUE, wires |-> wires])

\* add_rgb_edge, with which graphs are built: port 0 to port 0, asking nothing
\* but whether a cycle closes.
AddRgbEdge(a, b) ==
    /\ Answer("add_rgb_edge", AddEdge(wires, Nodes, Rgb(a, 0), Rgb(b, 0)))
    /\ UNCHANGED <<kind, shared>>

ConnectOrReplace(from, to) ==
    /\ Answer("connect_or_replace", Connected(wires, from, to))
    /\ UNCHANGED <<kind, shared>>

\* Mutant: the source is not wired to the mixer's base.
RewiredBaseless(base, branch, mixer, sink, N) ==
    LET cut == RemoveEdge(wires, Rgb(base, 0), Rgb(sink, 0))
        r == AddEdge(cut, N, Rgb(branch, 0), Rgb(mixer, 1))
    IN  AddEdge(r.wires, N, Rgb(mixer, 0), Rgb(sink, 0))

\* insert_branch: a node and a mixer between a sink and its source; the steps
\* stop at the first that fails and nothing is taken back.
Rewired(base, branch, mixer, sink, N) ==
    LET cut == RemoveEdge(wires, Rgb(base, 0), Rgb(sink, 0))
        r1 == AddEdge(cut, N, Rgb(base, 0), Rgb(branch, 0))
        r2 == AddEdge(r1.wires, N, Rgb(base, 0), Rgb(mixer, 0))
        r3 == AddEdge(r2.wires, N, Rgb(branch, 0), Rgb(mixer, 1))
        r4 == AddEdge(r3.wires, N, Rgb(mixer, 0), Rgb(sink, 0))
    IN  IF Match(wires, Rgb(base, 0), Rgb(sink, 0)) = {} THEN [ok |-> FALSE, wires |-> wires]
        ELSE IF ~r1.ok THEN r1 ELSE IF ~r2.ok THEN r2 ELSE IF ~r3.ok THEN r3 ELSE r4

InsertBranch(k, sink) ==
    LET branch == Cardinality(Nodes) + 1
        mixer == Cardinality(Nodes) + 2
        mixing == IF k = "Parallel" THEN "ParallelMixer" ELSE "LayerMixer"
    IN  /\ mixer <= MaxNodes
        /\ \E w \in FirstAmong(Into(wires, sink)) :
              /\ Inputs(kind[sink], "rgb") # {}
              /\ kind' = [m \in Nodes \cup {branch, mixer} |->
                            IF m = branch THEN k ELSE IF m = mixer THEN mixing ELSE kind[m]]
              /\ shared' = [m \in Nodes \cup {branch, mixer} |->
                              IF m = mixer THEN w.from.node
                              ELSE IF m = branch THEN None ELSE shared[m]]
              /\ Answer("insert_branch",
                        Rewired(w.from.node, branch, mixer, sink, Nodes \cup {branch, mixer}))

\* The wires into a layer mixer but the first, which is taken for its base.
Layers(W, mixer) == Into(W, mixer) \ FirstAmong(Into(W, mixer))

\* Mutant: the port is the number of layers there are.
NextPortByCount(W, mixer) == Cardinality(Layers(W, mixer))

\* add_layer: one port above the layers, whatever sits there.
NextPort(W, mixer) == Max({0} \cup {w.to.port : w \in Layers(W, mixer)}) + 1

AddLayer(mixer, layer) ==
    /\ kind[mixer] = "LayerMixer"
    /\ \A w \in Into(wires, mixer) : w.from.node # layer
    /\ NextPort(wires, mixer) \in Ports
    /\ Answer("add_layer",
              Connected(wires, Rgb(layer, 0), Rgb(mixer, NextPort(wires, mixer))))
    /\ UNCHANGED <<kind, shared>>

\* set_layer_order removes the layers one by one, each as a wire from the output
\* of its own port, and stops at the first it does not find. The wires it then
\* adds join nodes that were joined before, so none is refused.
Reordered(W, mixer, order) ==
    LET layers == Layers(W, mixer)
        found(l) == Match(W, Rgb(l.from.node, l.to.port), l.to)
        tried == {l \in layers : \A x \in layers : x.at <= l.at => found(x) # {}}
        rest == Erase(W, UNION {found(l) : l \in tried})
        n == Cardinality(rest)
    IN  IF tried # layers THEN [ok |-> FALSE, wires |-> rest]
        ELSE [ok |-> TRUE,
              wires |-> rest \cup {[at |-> n + order[s], from |-> Rgb(s, 0),
                                    to |-> Rgb(mixer, order[s])] : s \in DOMAIN order}]

SetLayerOrder(mixer, order) ==
    LET layers == Layers(wires, mixer)
        sources == {w.from.node : w \in layers}
    IN  /\ kind[mixer] = "LayerMixer"
        /\ DOMAIN order = sources /\ Cardinality(layers) = Cardinality(sources)
        /\ Answer("set_layer_order", Reordered(wires, mixer, order))
        /\ UNCHANGED <<kind, shared>>

\* grade_graph_to_json sorts the wires by their nodes and the type;
\* grade_graph_from_json makes a wire of a key or of a picture one from port 0
\* to port 0.
FiledBefore(v, w) ==
    LET key(x) == <<x.from.node, x.to.node, IF x.from.type = "rgb" THEN 0 ELSE 1, x.at>>
    IN  \E i \in 1..4 : key(v)[i] < key(w)[i] /\ \A j \in 1..(i - 1) : key(v)[j] = key(w)[j]

AsFiled(W, w) ==
    [at |-> Cardinality({v \in W : FiledBefore(v, w)}) + 1,
     from |-> Pipe(w.from.node, w.from.type, 0), to |-> Pipe(w.to.node, w.to.type, 0)]

Filed(W) == {AsFiled(W, w) : w \in W}

SaveAndLoad ==
    /\ Answer("reload", [ok |-> TRUE, wires |-> Filed(wires)])
    /\ UNCHANGED <<kind, shared>>

\* The orders a caller may name: each source at a place of its own.
Orders(S) == {f \in [S -> 1..Cardinality(S)] : \A a, b \in S : f[a] = f[b] => a = b}

Next ==
    \/ \E k \in Kinds : AddNode(k)
    \/ \E a, b \in Nodes : AddRgbEdge(a, b)
    \/ \E a, b \in Nodes, type \in Types, port \in Ports :
           ConnectOrReplace(Pipe(a, type, 0), Pipe(b, type, port))
    \/ \E k \in {"Parallel", "Layer"}, sink \in Nodes : InsertBranch(k, sink)
    \/ \E mixer, layer \in Nodes : AddLayer(mixer, layer)
    \/ \E mixer \in Nodes :
           \E order \in Orders({w.from.node : w \in Layers(wires, mixer)}) :
               SetLayerOrder(mixer, order)
    \/ SaveAndLoad

Spec == Init /\ [][Next]_vars
----------------------------------------------------------------------------
\* Nodes fed by a, directly or not.
Feeds(W, N, a, b) == \A S \in SUBSET N : a \in S /\ Closed(W, S) => b \in S

\* The evaluator takes b after a: a feeds b, or is the source a parallel mixer
\* compares its branches with (eval.cpp:329).
Precedes(a, b) ==
    \/ \E w \in wires : w.from.node = a /\ w.to.node = b
    \/ kind[b] = "ParallelMixer" /\ shared[b] = a

\* The order the evaluator looks for exists: among any nodes one is preceded by
\* none of them, so its loop never runs out of ready nodes (eval.cpp:361).
HasOrder ==
    \A S \in SUBSET Nodes : S # {} => \E b \in S : \A a \in S : ~Precedes(a, b)

\* The source insert_branch noted in a parallel mixer feeds it.
SourcesFeed ==
    \A m \in Nodes : kind[m] = "ParallelMixer" /\ shared[m] \in Nodes
                        => Feeds(wires, Nodes, shared[m], m)

\* No sequence of builds, connections, branches, layers, reorderings and loads
\* leaves the evaluator without an order, as long as the source noted in each
\* parallel mixer feeds it. would_create_cycle looks at wires alone: a mixer that
\* was rewired, or left over by an insert_branch that failed half-way, can be
\* wired into its own source, and then the evaluator refuses the graph.
EvaluatorFindsOrder == SourcesFeed => HasOrder

\* A branch that is put in front of a sink takes no node's picture away from
\* another: what fed a node before still does, through the mixer or as it did
\* (insert_branch; graph_edit_test.cpp:214 "identity parallel branch is an
\* evaluator no-op").
BranchKeepsPaths ==
    [][ret'.op = "insert_branch" /\ ret'.ok =>
         \A a, b \in Nodes : Feeds(wires, Nodes, a, b) => Feeds(wires', Nodes', a, b)]_vars

\* The layer the evaluator composites last (eval.cpp:236).
OnTop(W, mixer) ==
    {w \in Layers(W, mixer) :
        \A x \in Layers(W, mixer) :
            x.to.port < w.to.port \/ (x.to.port = w.to.port /\ x.at <= w.at)}

\* A layer that is added is the one composited last, unless it is the mixer's
\* first wire (node-system-research.md:141: "the new layer ends up topmost").
LayerGoesOnTop ==
    [][ret'.op = "add_layer" /\ ret'.ok =>
         \E w \in wires' : /\ \A v \in wires' : v.at <= w.at
                           /\ \/ w \in OnTop(wires', w.to.node)
                              \/ Into(wires', w.to.node) = {w}]_vars
=============================================================================
