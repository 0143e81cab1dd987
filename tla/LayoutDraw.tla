----------------------------- MODULE LayoutDraw -----------------------------
(***************************************************************************)
(* The second half of the ModelVis layout (src/rust/layout): the ranked    *)
(* graph of LayoutRank is cut into edges of one layer, its layers are      *)
(* ordered, self-edges and long edges are put back, and parse_layout.rs    *)
(* reads the result.  Coordinates are left to the code: the y of a point   *)
(* is the rank of its layer, and x is not modelled.                        *)
(***************************************************************************)
EXTENDS LayoutRank, SequencesExt

(* A key that the layout makes up is no key of the model, and a model has  *)
(* finitely many nodes.                                                    *)
ASSUME LayoutDrawConstantsOK ==
  /\ Nodes \cap ([edge : Nodes \X Nodes, rank : Int] \cup [loop : Nodes]) = {}
  /\ \A g \in Graphs : IsFiniteSet(g.nodes)

VARIABLES
  stage,   \* "rank" while LayoutRank runs, then the pass that runs
  chains,  \* dummy_chains: the first dummy of every edge that was cut
  work,    \* init_order: the stack
  layers,  \* the layering matrix of init_order
  order,   \* GraphNode::order
  points   \* GraphEdge::points, of the edges that have them

drawVars == <<stage, chains, work, layers, order, points>>
allVars  == <<vars, drawVars>>

(* GraphEdge::default().                                                   *)
FreshLabel == [minlen |-> 1, reversed |-> FALSE]

(* The dummy of edge e in layer r, and the dummy of the self-edge of n.    *)
Dummy(e, r)  == [edge |-> e, rank |-> r]
SelfDummy(n) == [loop |-> n]

EdgeDummies == {c.edge : c \in chains}
SelfDummies == {SelfDummy(n) : n \in loops} \cap nodes

DrawInit ==
  /\ Init
  /\ stage = "rank"
  /\ chains = {} /\ work = <<>> /\ layers = <<>>
  /\ order = [n \in {} |-> 0]
  /\ points = [e \in {} |-> <<>>]

RankStep == stage = "rank" /\ RankNext /\ UNCHANGED drawVars

(* normalize_edge: the nodes on the way of e, one for every layer.         *)
Between(e) == {Dummy(e, r) : r \in (rank[e[1]] + 1)..(rank[e[2]] - 1)}

\* mutant: the last edge of a chain starts at the source
LinksFromSource(e) ==
  {<<Dummy(e, r), Dummy(e, r + 1)>> : r \in (rank[e[1]] + 1)..(rank[e[2]] - 2)}
    \cup {<<e[1], Dummy(e, rank[e[1]] + 1)>>, e}

Links(e) ==
  LET At(r) == IF r = rank[e[1]] THEN e[1] ELSE IF r >= rank[e[2]] THEN e[2] ELSE Dummy(e, r)
      last  == IF rank[e[2]] > rank[e[1]] THEN rank[e[2]] - 1 ELSE rank[e[1]]
  IN {<<At(r), At(r + 1)>> : r \in rank[e[1]]..last}

(* The first dummies of the edges that were cut.                           *)

\* mutant: an edge with a single dummy has none
FirstDummiesOfLonger ==
  {Dummy(e, rank[e[1]] + 1) : e \in {d \in DOMAIN edges : rank[d[2]] > rank[d[1]] + 2}}

FirstDummies ==
  {Dummy(e, rank[e[1]] + 1) : e \in {d \in DOMAIN edges : rank[d[2]] > rank[d[1]] + 1}}

(* normalize replaces every edge by such a chain, whose edges have fresh   *)
(* labels: minlen and the reversed mark are gone.                          *)
Normalize ==
  /\ stage = "rank" /\ pc = "ranked"
  /\ stage' = "order"
  /\ LET dummies == UNION {Between(e) : e \in DOMAIN edges}
     IN /\ nodes' = nodes \cup dummies
        /\ rank' = [n \in nodes' |-> IF n \in nodes THEN rank[n] ELSE n.rank]
  /\ edges' = [l \in UNION {Links(e) : e \in DOMAIN edges} |-> FreshLabel]
  /\ chains' = FirstDummies
  /\ visited' = {}
  /\ layers' = [r \in 0..Max({0} \cup {rank'[n] : n \in nodes'}) |-> <<>>]
  /\ UNCHANGED <<input, pc, loops, fasVars, pathVars, tree, work, order, points>>

(* init_order takes the next unvisited node of the lowest rank.            *)
StartOrder ==
  /\ stage = "order" /\ work = <<>>
  /\ \E n \in nodes \ visited :
       /\ \A m \in nodes \ visited : rank[n] <= rank[m]
       /\ work' = <<n>>
  /\ UNCHANGED <<vars, stage, chains, layers, order, points>>

(* A node met for the first time goes to the end of its layer, and its     *)
(* successors on the stack.                                                *)
PlaceNode ==
  /\ stage = "order" /\ work # <<>>
  /\ LET n == Last(work)
     IN IF n \in visited
        THEN /\ work' = Front(work)
             /\ UNCHANGED <<visited, layers>>
        ELSE /\ visited' = visited \cup {n}
             /\ layers' = [layers EXCEPT ![rank[n]] = Append(@, n)]
             /\ \E succ \in SetToSeqs(Succ(n)) : work' = Front(work) \o succ
  /\ UNCHANGED <<input, pc, nodes, edges, loops, fasVars, pathVars, rank, tree,
                 stage, chains, order, points>>

(* order keeps the first layering: its loop compares cross counts of the   *)
(* same matrix until it has failed four times to improve.                  *)
AssignOrder ==
  /\ stage = "order" /\ work = <<>>
  /\ nodes \subseteq visited
  /\ stage' = "loops"
  /\ order' = [n \in nodes |-> (CHOOSE i \in DOMAIN layers[rank[n]] : layers[rank[n]][i] = n) - 1]
  /\ UNCHANGED <<vars, chains, work, layers, points>>

(* insert_self_edges walks the layers and returns at the first node that   *)
(* has no self-edge: the nodes before it, and it, are moved, and each of   *)
(* those before it is followed by a dummy.                                 *)

Lead(r) == Max({k \in 0..Len(layers[r]) : \A i \in 1..k : layers[r][i] \in loops})
Reached == {r \in DOMAIN layers : \A q \in DOMAIN layers : q < r => Lead(q) = Len(layers[q])}
Moved(n) ==
  rank[n] \in Reached /\ order[n] <= Lead(rank[n])

InsertSelfEdges ==
  /\ stage = "loops"
  /\ stage' = "position"
  /\ LET added == {SelfDummy(n) : n \in {m \in nodes : Moved(m) /\ m \in loops}}
     IN /\ nodes' = nodes \cup added
        /\ rank'  = [n \in nodes' |-> IF n \in added THEN rank[n.loop] ELSE rank[n]]
        /\ order' = [n \in nodes' |->
                       IF n \in added THEN 2 * order[n.loop] + 1
                       ELSE IF Moved(n) THEN 2 * order[n] ELSE order[n]]
  /\ UNCHANGED <<input, pc, edges, loops, visited, fasVars, pathVars, tree,
                 chains, work, layers, points>>

(* position_self_edges returns at the first dummy whose edge is not in the *)
(* graph, and remove_self_edges has taken all of them out.                 *)
PositionSelfEdges ==
  /\ stage = "position"
  /\ stage' = "denormalize"
  /\ LET drawable == {d \in SelfDummies : <<d.loop, d.loop>> \in DOMAIN edges}
     IN \E drawn \in SUBSET drawable :
          /\ drawable = SelfDummies => drawn = SelfDummies
          /\ nodes' = nodes \ drawn
          /\ rank'  = [n \in nodes' |-> rank[n]]
          /\ order' = [n \in nodes' |-> order[n]]
  /\ UNCHANGED <<input, pc, edges, loops, visited, fasVars, pathVars, tree,
                 chains, work, layers, points>>

(* denormalize follows every chain from its first dummy to the end of the  *)
(* edge, removes the dummies, and gives their places to the edge.          *)
Chain[n \in nodes \ SelfDummies] ==
  IF n \in Nodes THEN <<>> ELSE <<n>> \o Chain[CHOOSE m \in Succ(n) : TRUE]

Denormalize ==
  /\ stage = "denormalize"
  /\ stage' = "output"
  /\ LET gone == UNION {Range(Chain[c]) : c \in chains}
         kept == {e \in DOMAIN edges : {e[1], e[2]} \cap gone = {}}
         First(e) == CHOOSE c \in chains : c.edge = e
     IN /\ nodes' = nodes \ gone
        /\ rank'  = [n \in nodes' |-> rank[n]]
        /\ order' = [n \in nodes' |-> order[n]]
        /\ edges' = [e \in kept \cup EdgeDummies |->
                       IF e \in kept THEN edges[e] ELSE FreshLabel]
        /\ points' = [e \in EdgeDummies |->
                        LET path == Chain[First(e)]
                        IN [i \in DOMAIN path |-> rank[path[i]]]]
  /\ UNCHANGED <<input, pc, loops, visited, fasVars, pathVars, tree,
                 chains, work, layers>>

(* assign_node_intersects ends the points of every edge on its two nodes,  *)
(* reverse_points_for_reversed_edges and restore_cycles turn round the     *)
(* edges marked reversed, and layout_model looks up the name of every node *)
(* that is left, which a dummy does not have.                              *)

\* mutant: the target is not intersected
DrawnOpen(e) == <<rank[e[1]]>> \o (IF e \in DOMAIN points THEN points[e] ELSE <<>>)

Drawn(e) ==
  <<rank[e[1]]>> \o (IF e \in DOMAIN points THEN points[e] ELSE <<>>) \o <<rank[e[2]]>>

Output ==
  /\ stage = "output"
  /\ LET flipped == {<<e[2], e[1]>> : e \in {d \in DOMAIN edges : edges[d].reversed}}
     IN /\ edges' = [e \in DOMAIN edges \cup flipped |->
                       IF e \in flipped THEN FreshLabel ELSE edges[e]]
        /\ points' = [e \in DOMAIN edges' |->
                        IF e \in flipped THEN Reverse(Drawn(<<e[2], e[1]>>))
                        ELSE IF edges[e].reversed THEN Reverse(Drawn(e)) ELSE Drawn(e)]
  /\ stage' = IF nodes \subseteq Nodes THEN "done" ELSE "failed"
  /\ UNCHANGED <<input, pc, nodes, loops, visited, fasVars, pathVars, rank, tree,
                 chains, work, layers, order>>

DrawNext ==
  \/ RankStep \/ Normalize \/ StartOrder \/ PlaceNode \/ AssignOrder
  \/ InsertSelfEdges \/ PositionSelfEdges \/ Denormalize \/ Output

Spec     == DrawInit /\ [][DrawNext]_allVars
FairSpec == Spec /\ WF_allVars(DrawNext)

-----------------------------------------------------------------------------
(* Between the ordering and the self-edges every edge joins neighbouring   *)
(* layers (the post-condition of normalize.rs), and the nodes of a layer   *)
(* have the orders 0, 1, ... once each (what key_matrix sorts by).         *)
LayersExact ==
  stage = "loops" =>
    /\ \A e \in DOMAIN edges : rank[e[2]] = rank[e[1]] + 1
    /\ \A r \in DOMAIN layers :
         LET row == {n \in nodes : rank[n] = r}
         IN {order[n] : n \in row} = 0..(Cardinality(row) - 1)

(* Cutting long edges and putting them together again loses none and makes *)
(* none up: the pairs of nodes that come out joined are those that went in *)
(* joined, by one edge a pair, and each edge points down and is drawn from *)
(* the layer of its source to the layer of its target with a point in      *)
(* every layer between.  An edge that was turned round stays turned, and   *)
(* one of two opposite edges is gone: TopologyRestored asks for more.      *)
EdgesDrawn ==
  stage \in {"done", "failed"} =>
    /\ {{e[1], e[2]} : e \in DOMAIN edges}
         = {{e[1], e[2]} : e \in {d \in input.edges : d[1] # d[2]}}
    /\ \A e \in DOMAIN edges :
         /\ rank[e[1]] < rank[e[2]]
         /\ points[e] = [i \in 1..(rank[e[2]] - rank[e[1]] + 1) |-> rank[e[1]] + i - 1]

(* denormalize takes out every dummy that normalize put in and no node of  *)
(* the model: layout_model finds a node without a name only if the model   *)
(* has a self-edge.                                                        *)
NodesComeBack ==
  stage \in {"done", "failed"} =>
    /\ nodes \cap Nodes = input.nodes
    /\ stage = "failed" => loops # {}

(* What acyclic.rs promises of restore_cycles: "Graph topology returns to  *)
(* pre-acyclification state".  normalize_edge gives every edge a fresh     *)
(* label, so that restore_cycles finds no reversed mark.                   *)
TopologyRestored ==
  stage \in {"done", "failed"} => DOMAIN edges = {e \in input.edges : e[1] # e[2]}

(* What selfedge.rs promises: the dummies are removed after the paths are  *)
(* generated and the data of the original edges is preserved.              *)
SelfEdgesRestored ==
  stage \in {"done", "failed"} =>
    /\ nodes \subseteq Nodes
    /\ {e \in input.edges : e[1] = e[2]} \subseteq DOMAIN edges

(* One of the two promises is kept in every layout.  It is not: a model    *)
(* with a cycle and a self-edge comes back without either.                 *)
LayoutAsDocumented == TopologyRestored \/ SelfEdgesRestored

(* A layout ends: feasible_tree's loop finds an edge to shift along as     *)
(* long as its tree is not complete.                                       *)
LayoutEnds == <>(stage \in {"done", "failed"} \/ pc = "panicked")

=============================================================================
