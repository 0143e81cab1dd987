----------------------------- MODULE LayoutRank -----------------------------
(***************************************************************************)
(* The first half of the ModelVis layout (src/rust/layout): a computation  *)
(* graph is made acyclic, tied together by a nesting root and given ranks  *)
(* by the default ranker, longest path followed by a feasible tight tree.  *)
(*                                                                         *)
(* Every map and set of the code is an ahash table, iterated in an order   *)
(* that differs from run to run: wherever the code iterates one, the model *)
(* takes any element.  The graph that parse_layout.rs builds is flat       *)
(* (is_compound is FALSE), so that there are no border nodes, and every    *)
(* edge starts with minlen 1.                                              *)
(***************************************************************************)
EXTENDS Integers, Sequences, FiniteSets

CONSTANTS
  Keys,    \* every node key
  Nodes,   \* the keys that parse_layout.rs gives to the nodes of a model
  Root,    \* the dummy node that nesting_run adds
  NoNode,  \* an empty local_stack
  Graphs   \* the input graphs

ASSUME LayoutRankConstantsOK ==
  /\ Nodes \subseteq Keys
  /\ Root \in Keys \ Nodes
  /\ NoNode \notin Keys
  /\ \A g \in Graphs : /\ g.nodes \subseteq Nodes
                       /\ g.edges \subseteq g.nodes \X g.nodes

VARIABLES
  input,    \* the graph layout is called with
  pc,       \* the pass that runs
  nodes,    \* Graph::nodes
  edges,    \* Graph::edges and edge_values: the label of every edge
  loops,    \* selfedge_map: the nodes whose self-edge was taken out
  visited,  \* the visited set of the pass that runs
  seen,     \* dfs_fas: local_visited
  current,  \* dfs_fas: the node on local_stack, which never holds two
  frame,    \* dfs_fas: the node of the frame on top of stack
  ahead,    \* dfs_fas: the targets that frame has still to look at
  fas,      \* the feedback arcs found and not yet turned round
  starts,   \* longest_path: what is left of init
  stack,    \* longest_path: the nodes whose Single entry is on the stack
  todo,     \* longest_path: what is left of the Array entry above each
  rank,     \* GraphNode::rank, on the nodes that have one
  tree      \* feasible_tree: the nodes of t

fasVars  == <<seen, current, frame, ahead, fas>>
pathVars == <<starts, stack, todo>>
vars == <<input, pc, nodes, edges, loops, visited, fasVars, pathVars, rank, tree>>

Label == [minlen : Nat, reversed : BOOLEAN]

Succ(n)  == {m \in nodes : <<n, m>> \in DOMAIN edges}
Slack(e) == rank[e[2]] - rank[e[1]] - edges[e].minlen

(* set_edge and remove_edge.                                               *)
SetEdge(g, e, label) == [f \in DOMAIN g \cup {e} |-> IF f = e THEN label ELSE g[f]]
RemoveEdge(g, e)     == [f \in DOMAIN g \ {e} |-> g[f]]

-----------------------------------------------------------------------------
Init ==
  /\ input \in Graphs
  /\ pc = "prepare"
  /\ nodes = input.nodes
  /\ edges = [e \in input.edges |-> [minlen |-> 1, reversed |-> FALSE]]
  /\ loops = {}
  /\ visited = {} /\ seen = {} /\ current = NoNode /\ frame = NoNode /\ ahead = {}
  /\ fas = <<>>
  /\ starts = {} /\ stack = <<>> /\ todo = [n \in Nodes \cup {Root} |-> {}]
  /\ rank = [n \in {} |-> 0]
  /\ tree = {}

(* make_space_for_edge_labels doubles every minlen, and remove_self_edges  *)
(* takes the self-edges out of the graph.                                  *)
Prepare ==
  /\ pc = "prepare"
  /\ pc' = "fas"
  /\ edges' = [e \in {d \in DOMAIN edges : d[1] # d[2]} |->
                 [edges[e] EXCEPT !.minlen = 2 * @]]
  /\ loops' = {n \in nodes : <<n, n>> \in DOMAIN edges}
  /\ UNCHANGED <<input, nodes, visited, fasVars, pathVars, rank, tree>>

(* dfs_fas starts a walk at the next node that no walk has visited.        *)
StartWalk ==
  /\ pc = "fas" /\ current = NoNode
  /\ \E n \in nodes \ visited :
       /\ current' = n
       /\ seen' = {n}
  /\ UNCHANGED <<input, pc, nodes, edges, loops, visited, frame, ahead, fas, pathVars,
                 rank, tree>>

(* One turn of the inner loop pops the node of local_stack, pushes its     *)
(* frame unless it has been visited, and looks at one edge of the frame on *)
(* top.  The walk goes on to a target it has not seen, and ends with a     *)
(* feedback arc at one it has, or at a frame with no edge left.  An earlier*)
(* walk's frames stay below and are never looked at again.                 *)
Walk ==
  /\ pc = "fas" /\ current # NoNode
  /\ visited' = visited \cup {current}
  /\ LET top  == IF current \in visited THEN frame ELSE current
         left == IF current \in visited THEN ahead ELSE Succ(current)
     IN /\ frame' = top
        /\ \/ /\ left = {}
              /\ current' = NoNode
              /\ ahead' = {}
              /\ UNCHANGED <<seen, fas>>
           \/ \E target \in left :
                /\ ahead' = left \ {target}
                /\ IF target \in seen
                   THEN /\ fas' = Append(fas, <<top, target>>)
                        /\ current' = NoNode
                        /\ UNCHANGED seen
                   ELSE /\ seen' = seen \cup {target}
                        /\ current' = target
                        /\ UNCHANGED fas
  /\ UNCHANGED <<input, pc, nodes, edges, loops, pathVars, rank, tree>>

EndFas ==
  /\ pc = "fas" /\ current = NoNode
  /\ nodes \subseteq visited
  /\ pc' = "flip"
  /\ UNCHANGED <<input, nodes, edges, loops, visited, fasVars, pathVars, rank, tree>>

(* make_acyclic turns the next feedback arc round.  When the opposite edge *)
(* exists already, set_edge replaces its label.                            *)
Flip ==
  /\ pc = "flip" /\ fas # <<>>
  /\ LET e == Head(fas)
     IN edges' = IF e \in DOMAIN edges
                 THEN SetEdge(RemoveEdge(edges, e), <<e[2], e[1]>>,
                              [edges[e] EXCEPT !.reversed = TRUE])
                 ELSE edges
  /\ fas' = Tail(fas)
  /\ UNCHANGED <<input, pc, nodes, loops, visited, seen, current, frame, ahead, pathVars,
                 rank, tree>>

(* process_children: the root's edges to every node of a flat graph.       *)
RootEdges == {<<Root, n>> : n \in nodes}

(* nesting_run: a flat graph gets a root with an edge of minlen 1 to every *)
(* node (node_sep is 1).  longest_path starts on the copy that             *)
(* as_non_compound makes, with the nodes that have no in-edge.             *)
Nest ==
  /\ pc = "flip" /\ fas = <<>>
  /\ pc' = "longest"
  /\ nodes' = nodes \cup {Root}
  /\ edges' = [e \in DOMAIN edges \cup RootEdges |->
                 IF e[1] = Root THEN [minlen |-> 1, reversed |-> FALSE] ELSE edges[e]]
  /\ starts' = {n \in nodes' : \A e \in DOMAIN edges' : e[2] # n}
  /\ visited' = {}
  /\ UNCHANGED <<input, loops, fasVars, stack, todo, rank, tree>>

(* longest_path meets node n for the first time: a node with successors    *)
(* waits for them on the stack, any other has rank 0.                      *)
Visit(n) ==
  /\ visited' = visited \cup {n}
  /\ IF Succ(n) = {}
     THEN /\ rank' = [m \in DOMAIN rank \cup {n} |-> IF m = n THEN 0 ELSE rank[m]]
          /\ UNCHANGED stack
     ELSE /\ stack' = Append(stack, n)
          /\ UNCHANGED rank

TakeStart ==
  /\ pc = "longest" /\ stack = <<>>
  /\ \E n \in starts :
       /\ starts' = starts \ {n}
       /\ IF n \in visited
          THEN UNCHANGED <<visited, rank, stack, todo>>
          ELSE Visit(n) /\ todo' = [todo EXCEPT ![n] = Succ(n)]
  /\ UNCHANGED <<input, pc, nodes, edges, loops, fasVars, tree>>

Top == stack[Len(stack)]

TakeChild ==
  /\ pc = "longest" /\ stack # <<>>
  /\ \E n \in todo[Top] :
       IF n \in visited
       THEN /\ todo' = [todo EXCEPT ![Top] = @ \ {n}]
            /\ UNCHANGED <<visited, rank, stack>>
       ELSE /\ todo' = [todo EXCEPT ![Top] = @ \ {n}, ![n] = Succ(n)]
            /\ Visit(n)
  /\ UNCHANGED <<input, pc, nodes, edges, loops, fasVars, starts, tree>>

PoppedEarly == TRUE   \* mutant: a Single entry is read above an Array that is not empty
Exhausted == todo[Top] = {}

(* The rank of a node whose successors have been met is the least that     *)
(* their ranks leave.  A successor without a rank is an unwrap of None.    *)
RankTop ==
  /\ pc = "longest" /\ stack # <<>>
  /\ Exhausted
  /\ IF Succ(Top) \subseteq DOMAIN rank
     THEN /\ \E n \in Succ(Top) :
               LET Bound(m) == rank[m] - edges[<<Top, m>>].minlen
               IN /\ \A m \in Succ(Top) : Bound(n) <= Bound(m)
                  /\ rank' = [m \in DOMAIN rank \cup {Top} |->
                                IF m = Top THEN Bound(n) ELSE rank[m]]
          /\ stack' = SubSeq(stack, 1, Len(stack) - 1)
          /\ UNCHANGED pc
     ELSE /\ pc' = "panicked"
          /\ UNCHANGED <<rank, stack>>
  /\ UNCHANGED <<input, nodes, edges, loops, visited, fasVars, starts, todo, tree>>

(* feasible_tree starts with any node.                                     *)
StartTree ==
  /\ pc = "longest" /\ stack = <<>> /\ starts = {}
  /\ pc' = "tree"
  /\ \E n \in nodes : tree' = {n}
  /\ UNCHANGED <<input, nodes, edges, loops, visited, fasVars, pathVars, rank>>

Crossing == {e \in DOMAIN edges : (e[1] \in tree) # (e[2] \in tree)}

AnyCrossing   == Crossing   \* mutant: the tree grows along edges with slack
TightCrossing == {e \in Crossing : Slack(e) = 0}

(* tight_tree adds a node at the other end of an edge without slack.       *)
GrowTree ==
  /\ pc = "tree"
  /\ \E e \in TightCrossing : tree' = tree \cup {e[1], e[2]}
  /\ UNCHANGED <<input, pc, nodes, edges, loops, visited, fasVars, pathVars, rank>>

AnySlack(e)   == TRUE   \* mutant: any crossing edge will do
LeastSlack(e) == \A f \in Crossing : Slack(e) <= Slack(f)

CopiesShifted(delta) == rank   \* mutant: shift_ranks writes to copies of the nodes
ShiftRanks(delta) == [n \in DOMAIN rank |-> IF n \in tree THEN rank[n] + delta ELSE rank[n]]

(* When the tree cannot grow, find_min_stack_edge picks an edge with the   *)
(* least slack and shift_ranks moves the whole tree to take that slack.    *)
(* Without a crossing edge the code would loop for ever.                   *)
ShiftTree ==
  /\ pc = "tree" /\ TightCrossing = {}
  /\ \E e \in Crossing :
       /\ LeastSlack(e)
       /\ LET delta == IF e[1] \in tree THEN Slack(e) ELSE -Slack(e)
          IN rank' = ShiftRanks(delta)
  /\ UNCHANGED <<input, pc, nodes, edges, loops, visited, fasVars, pathVars, tree>>

NestingCleanup == [e \in {d \in DOMAIN edges : d[1] # Root} |-> edges[e]]

(* The ranks go back to the graph, nesting_cleanup removes the root, and   *)
(* normalize_ranks makes the least rank 0.  remove_empty_ranks changes     *)
(* nothing, because only ranks with nodes are in its table; a flat graph   *)
(* has nothing for assign_rank_min_max and remove_edge_proxies.            *)
CleanUp ==
  /\ pc = "tree" /\ tree = nodes
  /\ pc' = "ranked"
  /\ nodes' = nodes \ {Root}
  /\ edges' = NestingCleanup
  /\ \/ nodes' = {} /\ rank' = [n \in {} |-> 0]
     \/ \E low \in nodes' :
          /\ \A n \in nodes' : rank[low] <= rank[n]
          /\ rank' = [n \in nodes' |-> rank[n] - rank[low]]
  /\ tree' = {}
  /\ UNCHANGED <<input, loops, visited, fasVars, pathVars>>

RankNext ==
  \/ Prepare \/ StartWalk \/ Walk \/ EndFas \/ Flip \/ Nest
  \/ TakeStart \/ TakeChild \/ RankTop \/ StartTree \/ GrowTree \/ ShiftTree \/ CleanUp

RankSpec == Init /\ [][RankNext]_vars

-----------------------------------------------------------------------------
TypeOK ==
  /\ input \in Graphs
  /\ pc \in {"prepare", "fas", "flip", "longest", "panicked", "tree", "ranked"}
  /\ nodes \subseteq Keys
  /\ DOMAIN edges \subseteq nodes \X nodes
  /\ edges \in [DOMAIN edges -> Label]
  /\ loops \subseteq Nodes
  /\ visited \subseteq Keys /\ seen \subseteq Nodes /\ ahead \subseteq Nodes
  /\ current \in Nodes \cup {NoNode} /\ frame \in Nodes \cup {NoNode}
  /\ fas \in Seq(Nodes \X Nodes)
  /\ starts \subseteq nodes /\ stack \in Seq(nodes)
  /\ todo \in [Nodes \cup {Root} -> SUBSET (nodes \cup {Root})]
  /\ DOMAIN rank \subseteq nodes
  /\ rank \in [DOMAIN rank -> Int]
  /\ tree \subseteq nodes

(* A set of nodes each of which has a successor in the set: a cycle.       *)
HasCycle ==
  \E S \in SUBSET nodes : S # {} /\ \A n \in S : \E m \in S : <<n, m>> \in DOMAIN edges

(* Every edge is at least as long as its minlen once longest_path is done, *)
(* while the tree is shifted and after the root has gone (rank/mod.rs).    *)
RanksFeasible ==
  pc \in {"tree", "ranked"} =>
    DOMAIN rank = nodes /\ \A e \in DOMAIN edges : Slack(e) >= 0

(* The tree that feasible_tree grows is held together by edges without     *)
(* slack, however often it is shifted: no part of it is cut off from the   *)
(* rest.                                                                   *)
TreeIsTight ==
  pc = "tree" =>
    \A S \in SUBSET tree :
      S \notin {{}, tree} =>
        \E e \in DOMAIN edges :
          Slack(e) = 0 /\ {e[1], e[2]} \subseteq tree /\ (e[1] \in S) # (e[2] \in S)

(* longest_path panics on a graph that make_acyclic left with a cycle, and *)
(* on no other; a cyclic graph never gets ranks.                           *)
PanicMeansCycle ==
  /\ pc = "panicked" => HasCycle
  /\ pc = "tree" => ~HasCycle

(* What acyclic.rs says of make_acyclic: it converts the graph to a        *)
(* directed acyclic graph.                                                 *)
MakesAcyclic == pc = "longest" => ~HasCycle

=============================================================================
