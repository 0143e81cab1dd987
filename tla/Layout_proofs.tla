--------------------------- MODULE Layout_proofs ---------------------------
(***************************************************************************)
(* Proofs about the layout.  The first part is about LayoutRank: its       *)
(* types, that the ranks are feasible, that the tree stays tight, and that *)
(* longest_path panics on a cycle only.  The second part, from RankedEdges *)
(* on, is about LayoutDraw: DrawInv follows the graph through its passes,  *)
(* and says at each of them what becomes of the edges and nodes of the     *)
(* input; the chains that denormalize follows are got by induction over    *)
(* the layers (CountingUp).                                                *)
(***************************************************************************)
EXTENDS LayoutDraw, FiniteSetTheorems, TLAPS

USE DEF Label

(* The root is there while the graph is ranked, and nothing leads to it.   *)
NodesOK ==
  /\ nodes = IF pc \in {"longest", "panicked", "tree"} THEN input.nodes \cup {Root}
             ELSE input.nodes
  /\ \A e \in DOMAIN edges : e[2] # Root

(* Only an unvisited node is popped before there is a frame.               *)
WalkOK == pc = "fas" /\ current \in visited => frame \in Nodes

(* What a pass has left, and what it has not begun with.                   *)
QuietOK ==
  /\ pc \notin {"longest", "panicked"} => stack = <<>> /\ starts = {}
  /\ pc \in {"prepare", "fas", "flip"} => DOMAIN rank = {}
  /\ pc # "tree" => tree = {}
  /\ pc = "prepare" => current = NoNode

(* longest_path has given every node a rank.                               *)
AllRanked == pc = "tree" => DOMAIN rank = nodes

TypeInv == TypeOK /\ NodesOK /\ WalkOK /\ QuietOK

LEMMA TypeInit == Init => TypeInv
<1> SUFFICES ASSUME Init PROVE TypeInv
  OBVIOUS
<1> USE DEF Init
<1>1. input.nodes \subseteq Nodes /\ input.edges \subseteq input.nodes \X input.nodes
  BY LayoutRankConstantsOK
<1>2. TypeOK
  BY <1>1, LayoutRankConstantsOK DEF TypeOK
<1>3. NodesOK /\ WalkOK /\ QuietOK
  BY LayoutRankConstantsOK DEF NodesOK, WalkOK, QuietOK
<1> QED
  BY <1>2, <1>3 DEF TypeInv

LEMMA GraphNodes == TypeInv => input.nodes \subseteq Nodes /\ nodes \subseteq Nodes \cup {Root}
BY LayoutRankConstantsOK DEF TypeInv, TypeOK, NodesOK

(* What Visit does to the types.                                           *)
LEMMA VisitTypes ==
  ASSUME TypeInv, NEW n \in nodes, Visit(n)
  PROVE  /\ visited' \subseteq Keys
         /\ stack' \in Seq(nodes)
         /\ DOMAIN rank' \subseteq nodes
         /\ rank' \in [DOMAIN rank' -> Int]
<1>1. visited \subseteq Keys /\ nodes \subseteq Keys /\ stack \in Seq(nodes)
      /\ DOMAIN rank \subseteq nodes /\ rank \in [DOMAIN rank -> Int]
  BY DEF TypeInv, TypeOK
<1>2. visited' = visited \cup {n}
  BY DEF Visit
<1>3. CASE Succ(n) = {}
  <2>1. rank' = [m \in DOMAIN rank \cup {n} |-> IF m = n THEN 0 ELSE rank[m]] /\ stack' = stack
    BY <1>3 DEF Visit
  <2>2. rank' \in [DOMAIN rank \cup {n} -> Int]
    BY <1>1, <2>1
  <2> QED
    BY <1>1, <1>2, <2>1, <2>2
<1>4. CASE Succ(n) # {}
  <2>1. stack' = Append(stack, n) /\ rank' = rank
    BY <1>4 DEF Visit
  <2> QED
    BY <1>1, <1>2, <2>1
<1> QED
  BY <1>3, <1>4

LEMMA TypeStep == TypeInv /\ AllRanked /\ [RankNext]_vars => TypeInv'
<1> SUFFICES ASSUME TypeInv, AllRanked, [RankNext]_vars PROVE TypeInv'
  OBVIOUS
<1> USE LayoutRankConstantsOK
<1> USE DEF TypeInv, NodesOK, WalkOK, QuietOK, fasVars, pathVars
<1>0. input.nodes \subseteq Nodes /\ nodes \subseteq Nodes \cup {Root}
  BY GraphNodes
<1>1. CASE Prepare
  <2>1. /\ DOMAIN edges' \subseteq nodes \X nodes
        /\ edges' \in [DOMAIN edges' -> Label]
        /\ \A e \in DOMAIN edges' : e[2] # Root
    <3> DEFINE kept == {d \in DOMAIN edges : d[1] # d[2]}
    <3>1. edges' = [e \in kept |-> [edges[e] EXCEPT !.minlen = 2 * @]]
      BY <1>1 DEF Prepare
    <3>2. ASSUME NEW e \in kept PROVE [edges[e] EXCEPT !.minlen = 2 * @] \in Label
      <4>1. edges[e] \in [minlen : Nat, reversed : BOOLEAN]
        BY DEF TypeOK
      <4> QED
        BY <4>1
    <3>3. kept \subseteq nodes \X nodes /\ \A e \in kept : e[2] # Root
      BY DEF TypeOK
    <3> HIDE DEF kept
    <3> QED
      BY <3>1, <3>2, <3>3
  <2>2. loops' \subseteq Nodes
    BY <1>0, <1>1 DEF Prepare
  <2> QED
    <3>1. /\ pc = "prepare" /\ pc' = "fas"
          /\ UNCHANGED <<input, nodes, visited, fasVars, pathVars, rank, tree>>
      BY <1>1 DEF Prepare
    <3>2. TypeOK'
      BY <2>1, <2>2, <3>1 DEF TypeOK
    <3>3. current' \notin visited'
      BY <3>1, LayoutRankConstantsOK DEF TypeOK
    <3> QED
      BY <2>1, <3>1, <3>2, <3>3 DEF TypeOK
<1>2. CASE StartWalk
  BY <1>0, <1>2 DEF StartWalk, TypeOK
<1>3. CASE Walk
  <2> DEFINE top  == IF current \in visited THEN frame ELSE current
             left == IF current \in visited THEN ahead ELSE Succ(current)
  <2>1. top \in Nodes /\ left \subseteq Nodes
    BY <1>0, <1>3 DEF Walk, Succ, TypeOK
  <2>2. /\ frame' = top
        /\ \/ current' = NoNode /\ ahead' = {} /\ seen' = seen /\ fas' = fas
           \/ \E target \in left :
                /\ ahead' = left \ {target}
                /\ \/ fas' = Append(fas, <<top, target>>) /\ current' = NoNode /\ seen' = seen
                   \/ seen' = seen \cup {target} /\ current' = target /\ fas' = fas
    BY <1>3 DEF Walk
  <2> HIDE DEF top, left
  <2>3. fas' \in Seq(Nodes \X Nodes)
    <3>1. fas \in Seq(Nodes \X Nodes)
      BY DEF TypeOK
    <3>2. CASE fas' = fas
      BY <3>1, <3>2
    <3>3. ASSUME NEW target \in left, fas' = Append(fas, <<top, target>>)
          PROVE  fas' \in Seq(Nodes \X Nodes)
      <4>1. <<top, target>> \in Nodes \X Nodes
        BY <2>1
      <4> QED
        BY <3>1, <3>3, <4>1
    <3> QED
      BY <2>2, <3>2, <3>3
  <2>4. /\ seen' \subseteq Nodes /\ ahead' \subseteq Nodes
        /\ current' \in Nodes \cup {NoNode} /\ frame' \in Nodes
    BY <2>1, <2>2 DEF TypeOK
  <2>5. visited' \subseteq Keys
    BY <1>0, <1>3 DEF Walk, TypeOK
  <2>6. UNCHANGED <<input, pc, nodes, edges, loops, starts, stack, todo, rank, tree>>
    BY <1>3 DEF Walk
  <2>7. TypeOK'
    BY <2>3, <2>4, <2>5, <2>6 DEF TypeOK
  <2>8. pc = "fas"
    BY <1>3 DEF Walk
  <2> QED
    BY <2>4, <2>6, <2>7, <2>8
<1>4. CASE EndFas
  BY <1>0, <1>4 DEF EndFas, TypeOK
<1>5. CASE Flip
  <2> DEFINE e == Head(fas)
             flipped == [edges[e] EXCEPT !.reversed = TRUE]
  <2>1. e \in Nodes \X Nodes /\ fas' \in Seq(Nodes \X Nodes)
    BY <1>5 DEF Flip, TypeOK
  <2>2. /\ DOMAIN edges' \subseteq nodes \X nodes
        /\ edges' \in [DOMAIN edges' -> Label]
        /\ \A f \in DOMAIN edges' : f[2] # Root
    <3>1. CASE e \in DOMAIN edges
      <4>1. edges[e] \in [minlen : Nat, reversed : BOOLEAN]
        BY <3>1 DEF TypeOK
      <4>2. flipped \in Label /\ <<e[2], e[1]>> \in nodes \X nodes /\ e[1] # Root
        BY <2>1, <3>1, <4>1 DEF TypeOK
      <4>3. edges' = SetEdge(RemoveEdge(edges, e), <<e[2], e[1]>>, flipped)
        BY <1>5, <3>1 DEF Flip
      <4> HIDE DEF flipped
      <4> QED
        BY <4>2, <4>3 DEF SetEdge, RemoveEdge, TypeOK
    <3>2. CASE e \notin DOMAIN edges
      BY <1>5, <3>2 DEF Flip, TypeOK
    <3> QED
      BY <3>1, <3>2
  <2> QED
    BY <1>5, <2>1, <2>2 DEF Flip, TypeOK
<1>6. CASE Nest
  BY <1>0, <1>6 DEF Nest, RootEdges, TypeOK
<1>7. CASE TakeStart
  <2>1. PICK n \in starts :
          /\ starts' = starts \ {n}
          /\ IF n \in visited
             THEN UNCHANGED <<visited, rank, stack, todo>>
             ELSE Visit(n) /\ todo' = [todo EXCEPT ![n] = Succ(n)]
    BY <1>7 DEF TakeStart
  <2>2. /\ pc = "longest"
        /\ UNCHANGED <<input, pc, nodes, edges, loops, fasVars, tree>>
    BY <1>7 DEF TakeStart
  <2>3. n \in nodes /\ Succ(n) \subseteq nodes
    BY <1>0 DEF TypeOK, Succ
  <2>4. /\ visited' \subseteq Keys
        /\ stack' \in Seq(nodes)
        /\ DOMAIN rank' \subseteq nodes
        /\ rank' \in [DOMAIN rank' -> Int]
    BY <2>1, <2>3, VisitTypes DEF TypeOK
  <2>5. todo' \in [Nodes \cup {Root} -> SUBSET (nodes \cup {Root})]
    BY <1>0, <2>1, <2>3 DEF TypeOK
  <2> QED
    BY <2>1, <2>2, <2>4, <2>5 DEF TypeOK
<1>8. CASE TakeChild
  <2>1. PICK n \in todo[Top] :
          IF n \in visited
          THEN /\ todo' = [todo EXCEPT ![Top] = @ \ {n}]
               /\ UNCHANGED <<visited, rank, stack>>
          ELSE /\ todo' = [todo EXCEPT ![Top] = @ \ {n}, ![n] = Succ(n)]
               /\ Visit(n)
    BY <1>8 DEF TakeChild
  <2>2. /\ pc = "longest" /\ stack # <<>>
        /\ UNCHANGED <<input, pc, nodes, edges, loops, fasVars, starts, tree>>
    BY <1>8 DEF TakeChild
  <2>3. Top \in nodes
    BY <2>2 DEF Top, TypeOK
  <2>4. n \in nodes /\ Succ(n) \subseteq nodes
    <3>1. todo[Top] \subseteq nodes
      BY <1>0, <2>2, <2>3 DEF TypeOK
    <3> QED
      BY <3>1 DEF Succ
  <2>5. /\ visited' \subseteq Keys
        /\ stack' \in Seq(nodes)
        /\ DOMAIN rank' \subseteq nodes
        /\ rank' \in [DOMAIN rank' -> Int]
    BY <2>1, <2>4, VisitTypes DEF TypeOK
  <2>6. todo' \in [Nodes \cup {Root} -> SUBSET (nodes \cup {Root})]
    <3> DEFINE range == SUBSET (nodes \cup {Root})
    <3>1. todo \in [Nodes \cup {Root} -> range] /\ {Top, n} \subseteq Nodes \cup {Root}
      BY <1>0, <2>3, <2>4 DEF TypeOK
    <3>2. todo[Top] \ {n} \in range /\ Succ(n) \in range
      BY <2>4, <3>1
    <3> HIDE DEF range, Top
    <3>3. todo' \in [Nodes \cup {Root} -> range]
      BY <2>1, <3>1, <3>2
    <3> QED
      BY <3>3 DEF range
  <2> QED
    BY <2>1, <2>2, <2>5, <2>6 DEF TypeOK
<1>9. CASE RankTop
  <2>1. /\ pc = "longest" /\ stack # <<>>
        /\ UNCHANGED <<input, nodes, edges, loops, visited, fasVars, starts, todo, tree>>
    BY <1>9 DEF RankTop
  <2>2. Top \in nodes
    BY <2>1 DEF Top, TypeOK
  <2>3. CASE Succ(Top) \subseteq DOMAIN rank
    <3>1. /\ stack' = SubSeq(stack, 1, Len(stack) - 1) /\ pc' = pc
          /\ \E n \in Succ(Top) : \A m \in DOMAIN rank \cup {Top} :
               /\ rank' = [k \in DOMAIN rank \cup {Top} |->
                             IF k = Top THEN rank[n] - edges[<<Top, n>>].minlen ELSE rank[k]]
      BY <1>9, <2>3 DEF RankTop
    <3>2. PICK n \in Succ(Top) :
            rank' = [k \in DOMAIN rank \cup {Top} |->
                       IF k = Top THEN rank[n] - edges[<<Top, n>>].minlen ELSE rank[k]]
      BY <3>1
    <3>3. rank[n] \in Int /\ edges[<<Top, n>>].minlen \in Int
      <4>1. n \in DOMAIN rank /\ <<Top, n>> \in DOMAIN edges
        BY <2>3 DEF Succ
      <4>2. edges[<<Top, n>>] \in [minlen : Nat, reversed : BOOLEAN]
        BY <4>1 DEF TypeOK
      <4> QED
        BY <4>1, <4>2 DEF TypeOK
    <3>4. DOMAIN rank' \subseteq nodes /\ rank' \in [DOMAIN rank' -> Int]
      <4> HIDE DEF Top
      <4> QED
        BY <2>2, <3>2, <3>3 DEF TypeOK
    <3>5. stack' \in Seq(nodes)
      BY <2>1, <3>1 DEF TypeOK
    <3> QED
      BY <2>1, <3>1, <3>4, <3>5 DEF TypeOK
  <2>4. CASE ~(Succ(Top) \subseteq DOMAIN rank)
    <3>1. pc' = "panicked" /\ UNCHANGED <<rank, stack>>
      BY <1>9, <2>4 DEF RankTop
    <3> QED
      BY <2>1, <3>1 DEF TypeOK
  <2> QED
    BY <2>3, <2>4
<1>10. CASE StartTree
  BY <1>0, <1>10 DEF StartTree, TypeOK
<1>11. CASE GrowTree
  BY <1>0, <1>11 DEF GrowTree, TightCrossing, Crossing, TypeOK
<1>12. CASE ShiftTree
  <2>1. PICK e \in Crossing :
          rank' = ShiftRanks(IF e[1] \in tree THEN Slack(e) ELSE -Slack(e))
    BY <1>12 DEF ShiftTree
  <2>2. UNCHANGED <<input, pc, nodes, edges, loops, visited, fasVars, pathVars, tree>>
    BY <1>12 DEF ShiftTree
  <2>3. pc = "tree" /\ DOMAIN rank = nodes
    BY <1>12 DEF ShiftTree, AllRanked
  <2>4. Slack(e) \in Int
    <3>1. e \in DOMAIN edges /\ e[1] \in nodes /\ e[2] \in nodes
      BY DEF Crossing, TypeOK
    <3>2. edges[e] \in [minlen : Nat, reversed : BOOLEAN]
      BY <3>1 DEF TypeOK
    <3> QED
      BY <2>3, <3>1, <3>2 DEF Slack, TypeOK
  <2>5. DOMAIN rank' \subseteq nodes /\ rank' \in [DOMAIN rank' -> Int]
    <3> DEFINE delta == IF e[1] \in tree THEN Slack(e) ELSE -Slack(e)
    <3>1. delta \in Int
      BY <2>4
    <3> HIDE DEF delta
    <3>2. rank' = ShiftRanks(delta)
      BY <2>1 DEF delta
    <3> QED
      BY <3>1, <3>2 DEF ShiftRanks, TypeOK
  <2> QED
    BY <2>2, <2>3, <2>5 DEF TypeOK
<1>13. CASE CleanUp
  <2>1. nodes' = nodes \ {Root} /\ pc' = "ranked" /\ pc = "tree" /\ tree' = {}
        /\ UNCHANGED <<input, loops, visited, fasVars, pathVars>>
    BY <1>13 DEF CleanUp
  <2>2. /\ DOMAIN edges' \subseteq nodes' \X nodes'
        /\ edges' \in [DOMAIN edges' -> Label]
    BY <1>13 DEF CleanUp, NestingCleanup, TypeOK
  <2>3. DOMAIN rank' \subseteq nodes' /\ rank' \in [DOMAIN rank' -> Int]
    <3>1. rank \in [nodes -> Int]
      BY <2>1 DEF AllRanked, TypeOK
    <3>2. CASE nodes' = {} /\ rank' = [n \in {} |-> 0]
      BY <3>2
    <3>3. CASE \E low \in nodes' : rank' = [n \in nodes' |-> rank[n] - rank[low]]
      BY <2>1, <3>1, <3>3
    <3> QED
      BY <1>13, <3>2, <3>3 DEF CleanUp
  <2> QED
    BY <1>0, <2>1, <2>2, <2>3 DEF TypeOK
<1>14. CASE UNCHANGED vars
  BY <1>0, <1>14 DEF vars, TypeOK
<1> QED
  BY <1>1, <1>2, <1>3, <1>4, <1>5, <1>6, <1>7, <1>8, <1>9, <1>10, <1>11, <1>12, <1>13, <1>14
     DEF RankNext

-----------------------------------------------------------------------------
(* longest_path.  A ranked node's successors are ranked, and leave it the  *)
(* room it needs.                                                          *)
RankedClosed ==
  \A e \in DOMAIN edges :
    e[1] \in DOMAIN rank => e[2] \in DOMAIN rank /\ Slack(e) >= 0

(* The stack is a path of distinct nodes that have been visited and not    *)
(* ranked, every other visited node has a rank, and what a node on the     *)
(* stack has not to look at any more has been visited.                     *)
VisitedOK ==
  /\ DOMAIN rank \subseteq visited
  /\ \A n \in visited \ DOMAIN rank : \E i \in 1..Len(stack) : stack[i] = n

StackOK ==
  /\ \A i \in 1..Len(stack) : stack[i] \in visited \ DOMAIN rank
  /\ \A i, j \in 1..Len(stack) : stack[i] = stack[j] => i = j
  /\ \A i \in 1..(Len(stack) - 1) : <<stack[i], stack[i + 1]>> \in DOMAIN edges

TodoOK ==
  \A i \in 1..Len(stack) :
    /\ todo[stack[i]] \subseteq Succ(stack[i])
    /\ Succ(stack[i]) \subseteq todo[stack[i]] \cup visited

(* Every node hangs on the root, which is visited first.                   *)
Tied ==
  /\ \A n \in input.nodes : <<Root, n>> \in DOMAIN edges
  /\ Root \in starts \cup visited

PathInv == pc = "longest" => RankedClosed /\ VisitedOK /\ StackOK /\ TodoOK /\ Tied

LEMMA EdgeTypes ==
  ASSUME TypeInv, NEW e \in DOMAIN edges
  PROVE  /\ e = <<e[1], e[2]>> /\ e[1] \in nodes /\ e[2] \in nodes
         /\ edges[e].minlen \in Nat
<1>1. edges[e] \in [minlen : Nat, reversed : BOOLEAN]
  BY DEF TypeInv, TypeOK
<1> QED
  BY <1>1 DEF TypeInv, TypeOK

(* A node met for the first time keeps all of this.                        *)
LEMMA VisitPath ==
  ASSUME TypeInv, RankedClosed, VisitedOK, StackOK, TodoOK,
         NEW n \in nodes \ visited, Visit(n), UNCHANGED <<nodes, edges>>,
         stack # <<>> => <<Top, n>> \in DOMAIN edges,
         n \in Nodes \cup {Root} => todo'[n] = Succ(n),
         \A k \in Nodes \cup {Root} : k # n => todo'[k] \in {todo[k], todo[k] \ {n}},
         nodes \subseteq Nodes \cup {Root}
  PROVE  RankedClosed' /\ VisitedOK' /\ StackOK' /\ TodoOK'
<1>1. /\ visited' = visited \cup {n} /\ n \notin DOMAIN rank
      /\ stack \in Seq(nodes) /\ n \in nodes
  BY DEF Visit, VisitedOK, TypeInv, TypeOK
<1>2. \A k \in nodes : Succ(k)' = Succ(k)
  BY DEF Succ
<1>3. \A i \in 1..Len(stack) : stack[i] \in nodes /\ stack[i] # n
  BY <1>1 DEF StackOK
<1>4. \A i \in 1..Len(stack) :
        /\ todo'[stack[i]] \subseteq Succ(stack[i])
        /\ Succ(stack[i]) \subseteq todo'[stack[i]] \cup visited'
  <2> TAKE i \in 1..Len(stack)
  <2>1. todo'[stack[i]] \in {todo[stack[i]], todo[stack[i]] \ {n}}
    BY <1>3
  <2> QED
    BY <1>1, <2>1 DEF TodoOK
<1>5. CASE Succ(n) = {}
  <2>1. /\ rank' = [m \in DOMAIN rank \cup {n} |-> IF m = n THEN 0 ELSE rank[m]]
        /\ stack' = stack
    BY <1>5 DEF Visit
  <2>2. DOMAIN rank' = DOMAIN rank \cup {n}
        /\ \A m \in DOMAIN rank : rank'[m] = rank[m]
    BY <1>1, <2>1
  <2>3. RankedClosed'
    <3> SUFFICES ASSUME NEW e \in DOMAIN edges, e[1] \in DOMAIN rank'
                 PROVE  e[2] \in DOMAIN rank' /\ Slack(e)' >= 0
      BY DEF RankedClosed
    <3>1. e[1] # n
      BY <1>5, EdgeTypes DEF Succ
    <3>2. e[1] \in DOMAIN rank /\ e[2] \in DOMAIN rank /\ Slack(e) >= 0
      BY <2>2, <3>1 DEF RankedClosed
    <3> QED
      BY <2>2, <3>2 DEF Slack
  <2>4. VisitedOK'
    BY <1>1, <2>1, <2>2 DEF VisitedOK
  <2>5. StackOK'
    BY <1>1, <1>3, <2>1, <2>2 DEF StackOK
  <2>6. TodoOK'
    BY <1>2, <1>3, <1>4, <2>1 DEF TodoOK
  <2> QED
    BY <2>3, <2>4, <2>5, <2>6
<1>6. CASE Succ(n) # {}
  <2>1. stack' = Append(stack, n) /\ rank' = rank
    BY <1>6 DEF Visit
  <2>2. /\ Len(stack') = Len(stack) + 1 /\ stack'[Len(stack) + 1] = n
        /\ \A i \in 1..Len(stack) : stack'[i] = stack[i]
        /\ Len(stack) \in Nat
    BY <1>1, <2>1
  <2>3. RankedClosed'
    BY <2>1 DEF RankedClosed, Slack
  <2>4. VisitedOK'
    <3>1. \A m \in visited \ DOMAIN rank : \E i \in 1..Len(stack') : stack'[i] = m
      <4> TAKE m \in visited \ DOMAIN rank
      <4>1. PICK i \in 1..Len(stack) : stack[i] = m
        BY DEF VisitedOK
      <4> QED
        BY <2>2, <4>1
    <3>2. \E i \in 1..Len(stack') : stack'[i] = n
      BY <2>2
    <3> QED
      BY <1>1, <2>1, <3>1, <3>2 DEF VisitedOK
  <2>5. StackOK'
    <3>1. \A i \in 1..Len(stack') : stack'[i] \in visited' \ DOMAIN rank'
      BY <1>1, <2>1, <2>2 DEF StackOK
    <3>2. \A i, j \in 1..Len(stack') : stack'[i] = stack'[j] => i = j
      BY <1>3, <2>2 DEF StackOK
    <3>3. \A i \in 1..(Len(stack') - 1) : <<stack'[i], stack'[i + 1]>> \in DOMAIN edges
      <4> TAKE i \in 1..(Len(stack') - 1)
      <4>1. CASE i < Len(stack)
        BY <2>2, <4>1 DEF StackOK
      <4>2. CASE i = Len(stack)
        BY <1>1, <2>2, <4>2 DEF Top
      <4> QED
        BY <2>2, <4>1, <4>2
    <3> QED
      BY <3>1, <3>2, <3>3 DEF StackOK
  <2>6. TodoOK'
    <3> SUFFICES ASSUME NEW i \in 1..Len(stack')
                 PROVE  /\ todo'[stack'[i]] \subseteq Succ(stack'[i])
                        /\ Succ(stack'[i]) \subseteq todo'[stack'[i]] \cup visited'
      BY DEF TodoOK, Succ
    <3>1. CASE i \in 1..Len(stack)
      BY <1>4, <2>2, <3>1
    <3>2. CASE i = Len(stack) + 1
      BY <1>1, <2>2, <3>2
    <3> QED
      BY <2>2, <3>1, <3>2
  <2> QED
    BY <2>3, <2>4, <2>5, <2>6
<1> QED
  BY <1>5, <1>6

LEMMA PopFacts ==
  ASSUME NEW S, NEW q \in Seq(S), q # <<>>
  PROVE  LET p == SubSeq(q, 1, Len(q) - 1)
         IN Len(p) = Len(q) - 1 /\ \A i \in 1..Len(p) : p[i] = q[i] /\ i \in 1..Len(q)
<1> DEFINE k == Len(q) - 1
<1>1. k \in 0..Len(q)
  OBVIOUS
<1>2. SUFFICES ASSUME NEW m \in 0..Len(q), m = Len(q) - 1
               PROVE  /\ Len(SubSeq(q, 1, m)) = m
                      /\ \A i \in 1..m : SubSeq(q, 1, m)[i] = q[i] /\ i \in 1..Len(q)
  BY <1>1
<1> QED
  OBVIOUS

(* Ranking the node on top of the stack keeps all of this.                 *)
LEMMA RankPath ==
  ASSUME TypeInv, PathInv, RankTop, pc' = "longest"
  PROVE  RankedClosed' /\ VisitedOK' /\ StackOK' /\ TodoOK'
<1>1. /\ RankedClosed /\ VisitedOK /\ StackOK /\ TodoOK
      /\ stack \in Seq(nodes) /\ stack # <<>>
      /\ UNCHANGED <<nodes, edges, visited, todo>>
      /\ Succ(Top) \subseteq DOMAIN rank
  BY DEF RankTop, PathInv, TypeInv, TypeOK
<1>2. PICK n \in Succ(Top) :
        /\ \A m \in Succ(Top) :
             rank[n] - edges[<<Top, n>>].minlen <= rank[m] - edges[<<Top, m>>].minlen
        /\ rank' = [m \in DOMAIN rank \cup {Top} |->
                      IF m = Top THEN rank[n] - edges[<<Top, n>>].minlen ELSE rank[m]]
  BY <1>1 DEF RankTop
<1>3. /\ stack' = SubSeq(stack, 1, Len(stack) - 1)
      /\ Len(stack) \in Nat \ {0} /\ Top = stack[Len(stack)]
  BY <1>1 DEF RankTop, Top
<1>4. /\ Len(stack') = Len(stack) - 1
      /\ \A i \in 1..Len(stack') : stack'[i] = stack[i] /\ i \in 1..Len(stack)
  BY <1>1, <1>3, PopFacts
<1>5. Top \in visited \ DOMAIN rank /\ \A i \in 1..Len(stack') : stack'[i] # Top
  BY <1>1, <1>3, <1>4 DEF StackOK
<1>6. /\ DOMAIN rank' = DOMAIN rank \cup {Top}
      /\ rank'[Top] = rank[n] - edges[<<Top, n>>].minlen
      /\ \A m \in DOMAIN rank : rank'[m] = rank[m]
  BY <1>2, <1>5
<1> HIDE DEF Top
<1>7. RankedClosed'
  <2> SUFFICES ASSUME NEW e \in DOMAIN edges, e[1] \in DOMAIN rank'
               PROVE  e[2] \in DOMAIN rank' /\ Slack(e)' >= 0
    BY <1>1 DEF RankedClosed
  <2>1. CASE e[1] = Top
    <3>1. e = <<Top, e[2]>> /\ e[2] \in Succ(Top)
      BY <2>1, EdgeTypes DEF Succ
    <3>2. rank[n] - edges[<<Top, n>>].minlen <= rank[e[2]] - edges[e].minlen
      BY <1>2, <3>1
    <3>3. e[2] \in DOMAIN rank /\ rank'[e[2]] = rank[e[2]] /\ n \in DOMAIN rank
      BY <1>1, <1>6, <3>1
    <3>4. /\ rank[n] \in Int /\ rank[e[2]] \in Int /\ edges[e].minlen \in Int
          /\ edges[<<Top, n>>].minlen \in Int
      BY <3>3, EdgeTypes DEF Succ, TypeInv, TypeOK
    <3> QED
      BY <1>1, <1>6, <2>1, <3>2, <3>3, <3>4 DEF Slack
  <2>2. CASE e[1] # Top
    <3>1. e[1] \in DOMAIN rank /\ e[2] \in DOMAIN rank /\ Slack(e) >= 0
      BY <1>1, <1>6, <2>2 DEF RankedClosed
    <3> QED
      BY <1>1, <1>6, <3>1 DEF Slack
  <2> QED
    BY <2>1, <2>2
<1>8. VisitedOK'
  <2>1. ASSUME NEW m \in visited \ DOMAIN rank'
        PROVE  \E i \in 1..Len(stack') : stack'[i] = m
    <3>1. PICK i \in 1..Len(stack) : stack[i] = m
      BY <1>1, <1>6, <2>1 DEF VisitedOK
    <3>2. i # Len(stack)
      BY <1>3, <1>6, <2>1, <3>1
    <3>3. i \in 1..Len(stack')
      BY <1>3, <1>4, <3>2
    <3> QED
      BY <1>4, <3>1, <3>3
  <2> QED
    BY <1>1, <1>5, <1>6, <2>1 DEF VisitedOK
<1>9. StackOK'
  <2>1. \A i \in 1..Len(stack') : stack'[i] \in visited' \ DOMAIN rank'
    BY <1>1, <1>4, <1>5, <1>6 DEF StackOK
  <2>2. \A i, j \in 1..Len(stack') : stack'[i] = stack'[j] => i = j
    BY <1>1, <1>4 DEF StackOK
  <2>3. \A i \in 1..(Len(stack') - 1) : <<stack'[i], stack'[i + 1]>> \in DOMAIN edges'
    <3> TAKE i \in 1..(Len(stack') - 1)
    <3>1. i \in 1..Len(stack') /\ i + 1 \in 1..Len(stack') /\ i \in 1..(Len(stack) - 1)
      BY <1>3, <1>4
    <3> QED
      BY <1>1, <1>4, <3>1 DEF StackOK
  <2> QED
    BY <2>1, <2>2, <2>3 DEF StackOK
<1>10. TodoOK'
  BY <1>1, <1>4 DEF TodoOK, Succ
<1> QED
  BY <1>7, <1>8, <1>9, <1>10

LEMMA PathStep == TypeInv /\ PathInv /\ [RankNext]_vars => PathInv'
<1> SUFFICES ASSUME TypeInv, PathInv, [RankNext]_vars, pc' = "longest"
             PROVE  RankedClosed' /\ VisitedOK' /\ StackOK' /\ TodoOK' /\ Tied'
  BY DEF PathInv
<1>0. nodes \subseteq Nodes \cup {Root}
  BY GraphNodes
<1>1. CASE Nest
  <2>1. /\ stack' = <<>> /\ visited' = {} /\ DOMAIN rank' = {} /\ input' = input
        /\ nodes = input.nodes /\ Root \notin nodes
    BY <1>1, GraphNodes, LayoutRankConstantsOK DEF Nest, TypeInv, NodesOK, QuietOK
  <2>2. RankedClosed' /\ VisitedOK' /\ StackOK' /\ TodoOK'
    BY <2>1 DEF RankedClosed, VisitedOK, StackOK, TodoOK
  <2>3. DOMAIN edges' = DOMAIN edges \cup RootEdges
    BY <1>1 DEF Nest
  <2>4. \A n \in input.nodes : <<Root, n>> \in DOMAIN edges'
    BY <2>1, <2>3 DEF RootEdges
  <2>5. Root \in starts'
    <3>1. \A e \in DOMAIN edges' : e[2] # Root
      BY <2>1, <2>3 DEF RootEdges, TypeInv, NodesOK
    <3> QED
      BY <1>1, <3>1 DEF Nest
  <2> QED
    BY <2>1, <2>2, <2>4, <2>5 DEF Tied
<1>2. CASE TakeStart
  <2>1. PICK n \in starts :
          /\ starts' = starts \ {n}
          /\ IF n \in visited
             THEN UNCHANGED <<visited, rank, stack, todo>>
             ELSE Visit(n) /\ todo' = [todo EXCEPT ![n] = Succ(n)]
    BY <1>2 DEF TakeStart
  <2>2. /\ pc = "longest" /\ stack = <<>> /\ UNCHANGED <<input, nodes, edges>>
        /\ n \in nodes /\ todo \in [Nodes \cup {Root} -> SUBSET (nodes \cup {Root})]
    BY <1>2 DEF TakeStart, TypeInv, TypeOK
  <2>3. RankedClosed /\ VisitedOK /\ StackOK /\ TodoOK /\ Tied
    BY <2>2 DEF PathInv
  <2>4. CASE n \in visited
    BY <2>1, <2>2, <2>3, <2>4 DEF RankedClosed, VisitedOK, StackOK, TodoOK, Tied, Slack, Succ
  <2>5. CASE n \notin visited
    <3>1. Visit(n) /\ visited' = visited \cup {n}
      BY <2>1, <2>5 DEF Visit
    <3>2. /\ todo'[n] = Succ(n)
          /\ \A k \in Nodes \cup {Root} : k # n => todo'[k] = todo[k]
      BY <1>0, <2>1, <2>2, <2>5
    <3>3. RankedClosed' /\ VisitedOK' /\ StackOK' /\ TodoOK'
      BY <1>0, <2>2, <2>3, <2>5, <3>1, <3>2, VisitPath
    <3>4. Tied'
      BY <2>1, <2>2, <2>3, <3>1 DEF Tied
    <3> QED
      BY <3>3, <3>4
  <2> QED
    BY <2>4, <2>5
<1>3. CASE TakeChild
  <2>1. PICK n \in todo[Top] :
          IF n \in visited
          THEN /\ todo' = [todo EXCEPT ![Top] = @ \ {n}]
               /\ UNCHANGED <<visited, rank, stack>>
          ELSE /\ todo' = [todo EXCEPT ![Top] = @ \ {n}, ![n] = Succ(n)]
               /\ Visit(n)
    BY <1>3 DEF TakeChild
  <2>2. /\ pc = "longest" /\ stack # <<>> /\ stack \in Seq(nodes)
        /\ UNCHANGED <<input, nodes, edges, starts>>
        /\ todo \in [Nodes \cup {Root} -> SUBSET (nodes \cup {Root})]
    BY <1>3 DEF TakeChild, TypeInv, TypeOK
  <2>3. RankedClosed /\ VisitedOK /\ StackOK /\ TodoOK /\ Tied
    BY <2>2 DEF PathInv
  <2>4. Top = stack[Len(stack)] /\ Len(stack) \in 1..Len(stack) /\ Top \in nodes
    BY <2>2 DEF Top
  <2>5. n \in nodes /\ <<Top, n>> \in DOMAIN edges
    BY <2>3, <2>4 DEF TodoOK, Succ
  <2> HIDE DEF Top
  <2>6. CASE n \in visited
    <3>1. /\ UNCHANGED <<nodes, edges, visited, rank, stack>>
          /\ \A k \in Nodes \cup {Root} : todo'[k] \in {todo[k], todo[k] \ {n}}
      BY <1>0, <2>1, <2>2, <2>4, <2>6
    <3>2. \A i \in 1..Len(stack) : stack[i] \in Nodes \cup {Root}
      BY <1>0, <2>2
    <3>3. TodoOK'
      <4> SUFFICES ASSUME NEW i \in 1..Len(stack)
                   PROVE  /\ todo'[stack[i]] \subseteq Succ(stack[i])
                          /\ Succ(stack[i]) \subseteq todo'[stack[i]] \cup visited
        BY <3>1 DEF TodoOK, Succ
      <4>1. todo'[stack[i]] \in {todo[stack[i]], todo[stack[i]] \ {n}}
        BY <3>1, <3>2
      <4> QED
        BY <2>3, <2>6, <4>1 DEF TodoOK
    <3> QED
      BY <2>2, <2>3, <3>1, <3>3 DEF RankedClosed, VisitedOK, StackOK, Tied, Slack
  <2>7. CASE n \notin visited
    <3>1. Visit(n) /\ visited' = visited \cup {n}
      BY <2>1, <2>7 DEF Visit
    <3>2. todo' = [todo EXCEPT ![Top] = @ \ {n}, ![n] = Succ(n)]
      BY <2>1, <2>7
    <3>3. /\ todo'[n] = Succ(n)
          /\ \A k \in Nodes \cup {Root} : k # n => todo'[k] \in {todo[k], todo[k] \ {n}}
      BY <1>0, <2>2, <2>4, <2>5, <3>2
    <3>4. RankedClosed' /\ VisitedOK' /\ StackOK' /\ TodoOK'
      BY <1>0, <2>2, <2>3, <2>5, <2>7, <3>1, <3>3, VisitPath
    <3>5. Tied'
      BY <2>2, <2>3, <3>1 DEF Tied
    <3> QED
      BY <3>4, <3>5
  <2> QED
    BY <2>6, <2>7
<1>4. CASE RankTop
  <2>1. pc = "longest" /\ UNCHANGED <<input, edges, visited, starts>>
    BY <1>4 DEF RankTop
  <2>2. Tied'
    BY <2>1 DEF Tied, PathInv
  <2> QED
    BY <1>4, <2>2, RankPath
<1>5. CASE UNCHANGED vars
  BY <1>5 DEF vars, fasVars, pathVars, PathInv, RankedClosed, VisitedOK, StackOK, TodoOK, Tied,
     Slack, Succ
<1>6. ASSUME Prepare \/ StartWalk \/ Walk \/ EndFas \/ Flip PROVE FALSE
  BY <1>6 DEF Prepare, StartWalk, Walk, EndFas, Flip
<1>7. ASSUME StartTree \/ GrowTree \/ ShiftTree \/ CleanUp PROVE FALSE
  BY <1>7 DEF StartTree, GrowTree, ShiftTree, CleanUp
<1> QED
  BY <1>1, <1>2, <1>3, <1>4, <1>5, <1>6, <1>7 DEF RankNext

-----------------------------------------------------------------------------
(* feasible_tree and the clean-up.                                         *)
TreeOK == pc = "tree" => tree # {}

(* No set of ranked nodes is closed by successors: longest_path never      *)
(* gives ranks to a cycle.                                                 *)
NoRankedCycle ==
  pc \in {"longest", "tree"} =>
    \A S \in SUBSET DOMAIN rank :
      S # {} => \E n \in S : \A m \in S : <<n, m>> \notin DOMAIN edges

PanicOK == pc = "panicked" => HasCycle

IInv == TypeInv /\ PathInv /\ RanksFeasible /\ TreeOK /\ TreeIsTight /\ NoRankedCycle /\ PanicOK

LEMMA InitInv == Init => IInv
<1> SUFFICES ASSUME Init PROVE IInv
  OBVIOUS
<1>1. pc = "prepare"
  BY DEF Init
<1> QED
  BY <1>1, TypeInit DEF IInv, PathInv, RanksFeasible, TreeOK, TreeIsTight, NoRankedCycle, PanicOK

(* When longest_path has nothing left, every node has a rank.              *)
LEMMA StartsTree == IInv /\ StartTree => RanksFeasible' /\ TreeOK' /\ TreeIsTight'
<1> SUFFICES ASSUME IInv, StartTree PROVE RanksFeasible' /\ TreeOK' /\ TreeIsTight'
  OBVIOUS
<1>1. /\ pc = "longest" /\ stack = <<>> /\ starts = {}
      /\ UNCHANGED <<nodes, edges, rank>>
  BY DEF StartTree
<1>2. RankedClosed /\ VisitedOK /\ Tied /\ nodes = input.nodes \cup {Root}
      /\ DOMAIN rank \subseteq nodes
  BY <1>1 DEF IInv, PathInv, TypeInv, TypeOK, NodesOK
<1>3. Root \in DOMAIN rank
  BY <1>1, <1>2 DEF Tied, VisitedOK
<1>4. DOMAIN rank = nodes
  <2>1. ASSUME NEW n \in input.nodes PROVE n \in DOMAIN rank
    <3>1. <<Root, n>> \in DOMAIN edges
      BY <1>2 DEF Tied
    <3> QED
      BY <1>2, <1>3, <3>1 DEF RankedClosed
  <2> QED
    BY <1>2, <1>3, <2>1
<1>5. RanksFeasible'
  <2>1. ASSUME NEW e \in DOMAIN edges PROVE Slack(e) >= 0
    BY <1>2, <1>4, EdgeTypes DEF RankedClosed, IInv
  <2> QED
    BY <1>1, <1>4, <2>1 DEF RanksFeasible, Slack
<1>6. \E n \in nodes : tree' = {n}
  BY DEF StartTree
<1> QED
  BY <1>5, <1>6 DEF TreeOK, TreeIsTight

LEMMA SlackTypes ==
  ASSUME IInv, pc = "tree", NEW e \in DOMAIN edges
  PROVE  /\ e[1] \in nodes /\ e[2] \in nodes
         /\ rank[e[1]] \in Int /\ rank[e[2]] \in Int /\ edges[e].minlen \in Nat
         /\ Slack(e) \in Int /\ Slack(e) >= 0
<1>1. e[1] \in nodes /\ e[2] \in nodes /\ edges[e].minlen \in Nat
  BY EdgeTypes DEF IInv
<1>2. DOMAIN rank = nodes /\ rank \in [DOMAIN rank -> Int] /\ Slack(e) >= 0
  BY DEF IInv, RanksFeasible, TypeInv, TypeOK
<1> QED
  BY <1>1, <1>2 DEF Slack

(* A node at the other end of an edge without slack is held by that edge.  *)
LEMMA GrowsTight == IInv /\ GrowTree => RanksFeasible' /\ TreeOK' /\ TreeIsTight'
<1> SUFFICES ASSUME IInv, GrowTree PROVE RanksFeasible' /\ TreeOK' /\ TreeIsTight'
  OBVIOUS
<1>1. pc = "tree" /\ UNCHANGED <<pc, nodes, edges, rank>>
  BY DEF GrowTree
<1>2. RanksFeasible'
  BY <1>1 DEF IInv, RanksFeasible, Slack
<1>3. PICK e \in TightCrossing : tree' = tree \cup {e[1], e[2]}
  BY DEF GrowTree
<1>4. /\ e \in DOMAIN edges /\ Slack(e) = 0
      /\ (e[1] \in tree) # (e[2] \in tree)
  BY DEF TightCrossing, Crossing
<1>5. PICK x, y : {x, y} = {e[1], e[2]} /\ x \notin tree /\ y \in tree /\ tree' = tree \cup {x}
  BY <1>3, <1>4
<1>6. ASSUME NEW S \in SUBSET tree', S \notin {{}, tree'}
      PROVE  \E f \in DOMAIN edges :
               Slack(f) = 0 /\ {f[1], f[2]} \subseteq tree' /\ (f[1] \in S) # (f[2] \in S)
  <2> DEFINE T == S \cap tree
  <2>1. CASE T \notin {{}, tree}
    <3>1. PICK f \in DOMAIN edges :
            Slack(f) = 0 /\ {f[1], f[2]} \subseteq tree /\ (f[1] \in T) # (f[2] \in T)
      BY <1>1, <2>1 DEF IInv, TreeIsTight
    <3> QED
      BY <1>5, <3>1
  <2>2. CASE T = {}
    <3>1. x \in S /\ y \notin S
      BY <1>5, <1>6, <2>2
    <3> QED
      BY <1>3, <1>4, <1>5, <3>1
  <2>3. CASE T = tree
    <3>1. x \notin S /\ y \in S
      BY <1>5, <1>6, <2>3
    <3> QED
      BY <1>3, <1>4, <1>5, <3>1
  <2> QED
    BY <2>1, <2>2, <2>3
<1> QED
  BY <1>1, <1>2, <1>5, <1>6 DEF TreeOK, TreeIsTight, Slack

(* Moving the whole tree by the least slack takes no more than any edge    *)
(* has to give, and changes no edge within the tree.                       *)
LEMMA ShiftsFeasibly == IInv /\ ShiftTree => RanksFeasible' /\ TreeOK' /\ TreeIsTight'
<1> SUFFICES ASSUME IInv, ShiftTree PROVE RanksFeasible' /\ TreeOK' /\ TreeIsTight'
  OBVIOUS
<1>1. pc = "tree" /\ UNCHANGED <<pc, nodes, edges, tree>> /\ DOMAIN rank = nodes
  BY DEF ShiftTree, IInv, RanksFeasible
<1>2. PICK e \in Crossing :
        LeastSlack(e) /\ rank' = ShiftRanks(IF e[1] \in tree THEN Slack(e) ELSE -Slack(e))
  BY DEF ShiftTree
<1>3. PICK delta \in Int :
        /\ rank' = ShiftRanks(delta)
        /\ e[1] \in tree => delta = Slack(e)
        /\ e[1] \notin tree => delta = -Slack(e)
  BY <1>1, <1>2, SlackTypes DEF Crossing
<1>4. DOMAIN rank' = nodes
      /\ \A n \in nodes : rank'[n] = IF n \in tree THEN rank[n] + delta ELSE rank[n]
  BY <1>1, <1>3 DEF ShiftRanks
<1>5. ASSUME NEW f \in DOMAIN edges
      PROVE  /\ Slack(f)' >= 0
             /\ f[1] \in tree /\ f[2] \in tree => Slack(f)' = Slack(f)
  <2>1. /\ f[1] \in nodes /\ f[2] \in nodes
        /\ rank[f[1]] \in Int /\ rank[f[2]] \in Int /\ edges[f].minlen \in Nat
        /\ Slack(f) \in Int /\ Slack(f) >= 0
    BY <1>1, SlackTypes
  <2>2. Slack(e) \in Int /\ Slack(e) >= 0
    BY <1>1, SlackTypes DEF Crossing
  <2>3. Slack(f)' = rank'[f[2]] - rank'[f[1]] - edges[f].minlen
    BY <1>1 DEF Slack
  <2>4. Slack(f) = rank[f[2]] - rank[f[1]] - edges[f].minlen
    BY DEF Slack
  <2>5. CASE f[1] \in tree /\ f[2] \in tree
    BY <1>4, <2>1, <2>3, <2>4, <2>5
  <2>6. CASE f[1] \notin tree /\ f[2] \notin tree
    BY <1>4, <2>1, <2>3, <2>4, <2>6
  <2>7. CASE f \in Crossing
    <3>1. Slack(e) <= Slack(f)
      BY <1>2, <2>7 DEF LeastSlack
    <3>2. CASE f[1] \in tree
      <4>1. f[2] \notin tree
        BY <2>7, <3>2 DEF Crossing
      <4>2. Slack(f)' = Slack(f) - delta
        BY <1>4, <2>1, <2>3, <2>4, <3>2, <4>1
      <4> QED
        BY <1>3, <2>1, <2>2, <3>1, <4>1, <4>2
    <3>3. CASE f[1] \notin tree
      <4>1. f[2] \in tree
        BY <2>7, <3>3 DEF Crossing
      <4>2. Slack(f)' = Slack(f) + delta
        BY <1>4, <2>1, <2>3, <2>4, <3>3, <4>1
      <4> QED
        BY <1>3, <2>1, <2>2, <3>1, <3>3, <4>2
    <3> QED
      BY <3>2, <3>3
  <2> QED
    BY <2>5, <2>6, <2>7 DEF Crossing
<1>6. RanksFeasible'
  BY <1>1, <1>4, <1>5 DEF RanksFeasible
<1>7. TreeIsTight'
  <2> SUFFICES ASSUME NEW S \in SUBSET tree, S \notin {{}, tree}
               PROVE  \E f \in DOMAIN edges :
                        /\ Slack(f)' = 0 /\ {f[1], f[2]} \subseteq tree
                        /\ (f[1] \in S) # (f[2] \in S)
    BY <1>1 DEF TreeIsTight
  <2>1. PICK f \in DOMAIN edges :
          Slack(f) = 0 /\ {f[1], f[2]} \subseteq tree /\ (f[1] \in S) # (f[2] \in S)
    BY <1>1 DEF IInv, TreeIsTight
  <2>2. Slack(f)' = 0
    BY <1>5, <2>1
  <2> QED
    BY <2>1, <2>2
<1> QED
  BY <1>1, <1>6, <1>7 DEF TreeOK, IInv

(* The ranks without the root differ as they did with it.                  *)
LEMMA CleansUpFeasibly == IInv /\ CleanUp => RanksFeasible'
<1> SUFFICES ASSUME IInv, CleanUp PROVE RanksFeasible'
  OBVIOUS
<1>1. /\ pc = "tree" /\ nodes' = nodes \ {Root}
      /\ DOMAIN edges' = {d \in DOMAIN edges : d[1] # Root}
      /\ \A e \in DOMAIN edges' : edges'[e] = edges[e]
  BY DEF CleanUp, NestingCleanup
<1>2. ASSUME NEW e \in DOMAIN edges'
      PROVE  /\ e \in DOMAIN edges /\ edges'[e] = edges[e]
             /\ e[1] \in nodes' /\ e[2] \in nodes'
             /\ rank[e[1]] \in Int /\ rank[e[2]] \in Int /\ edges[e].minlen \in Nat
             /\ rank[e[2]] - rank[e[1]] - edges[e].minlen >= 0
  <2>1. e \in DOMAIN edges /\ e[1] # Root /\ e[2] # Root
    BY <1>1 DEF IInv, TypeInv, NodesOK
  <2>2. Slack(e) >= 0
    BY <1>1, <2>1, SlackTypes
  <2> QED
    BY <1>1, <2>1, <2>2, SlackTypes DEF Slack
<1>3. CASE nodes' = {} /\ rank' = [n \in {} |-> 0]
  <2>1. DOMAIN rank' = {}
    BY <1>3
  <2> QED
    BY <1>2, <1>3, <2>1 DEF RanksFeasible
<1>4. ASSUME NEW low \in nodes', rank' = [n \in nodes' |-> rank[n] - rank[low]]
      PROVE  RanksFeasible'
  <2>1. rank[low] \in Int
    BY <1>1 DEF IInv, RanksFeasible, TypeInv, TypeOK
  <2>2. ASSUME NEW e \in DOMAIN edges' PROVE Slack(e)' >= 0
    <3>1. rank'[e[1]] = rank[e[1]] - rank[low] /\ rank'[e[2]] = rank[e[2]] - rank[low]
      BY <1>2, <1>4
    <3>2. Slack(e)' = rank'[e[2]] - rank'[e[1]] - edges[e].minlen
      BY <1>2 DEF Slack
    <3> QED
      BY <1>2, <2>1, <3>1, <3>2
  <2> QED
    BY <1>4, <2>2 DEF RanksFeasible
<1> QED
  BY <1>3, <1>4 DEF CleanUp

(* A node that is ranked while its successors are ranked and it is not     *)
(* closes no cycle.                                                        *)
LEMMA RankedApart ==
  ASSUME IInv, pc = "longest", NEW n \in nodes \ DOMAIN rank,
         Succ(n) \subseteq DOMAIN rank,
         NEW S \in SUBSET (DOMAIN rank \cup {n}), S # {}
  PROVE  \E m \in S : \A k \in S : <<m, k>> \notin DOMAIN edges
<1>1. CASE S \ {n} = {}
  <2>1. S = {n} /\ <<n, n>> \notin DOMAIN edges
    BY <1>1 DEF Succ
  <2> QED
    BY <2>1
<1>2. CASE S \ {n} # {}
  <2>1. S \ {n} \in SUBSET DOMAIN rank
    OBVIOUS
  <2>2. PICK m \in S \ {n} : \A k \in S \ {n} : <<m, k>> \notin DOMAIN edges
    BY <1>2, <2>1 DEF IInv, NoRankedCycle
  <2>3. <<m, n>> \notin DOMAIN edges
    <3>1. ASSUME <<m, n>> \in DOMAIN edges PROVE n \in DOMAIN rank
      <4>1. RankedClosed /\ m \in DOMAIN rank
        BY <2>2 DEF IInv, PathInv
      <4> QED
        BY <3>1, <4>1 DEF RankedClosed
    <3> QED
      BY <3>1
  <2> QED
    BY <2>2, <2>3
<1> QED
  BY <1>1, <1>2

LEMMA VisitRanks ==
  ASSUME NEW n \in nodes, Visit(n)
  PROVE  rank' = rank \/ (Succ(n) = {} /\ DOMAIN rank' = DOMAIN rank \cup {n})
BY DEF Visit

LEMMA NoRankedCycleStep == IInv /\ [RankNext]_vars => NoRankedCycle'
<1> SUFFICES ASSUME IInv, [RankNext]_vars, pc' \in {"longest", "tree"},
                    NEW S \in SUBSET DOMAIN rank', S # {}
             PROVE  \E n \in S : \A m \in S : <<n, m>> \notin DOMAIN edges'
  BY DEF NoRankedCycle
<1>1. CASE Nest
  BY <1>1 DEF Nest, IInv, TypeInv, QuietOK
<1>2. ASSUME pc = "longest", edges' = edges, NEW n \in nodes \ visited, Visit(n)
      PROVE  \E k \in S : \A m \in S : <<k, m>> \notin DOMAIN edges'
  <2>1. n \notin DOMAIN rank
    BY <1>2 DEF IInv, PathInv, VisitedOK
  <2>2. CASE rank' = rank
    BY <1>2, <2>2 DEF IInv, NoRankedCycle
  <2>3. CASE Succ(n) = {} /\ DOMAIN rank' = DOMAIN rank \cup {n}
    BY <1>2, <2>1, <2>3, RankedApart
  <2> QED
    BY <1>2, <2>2, <2>3, VisitRanks
<1>3. CASE TakeStart
  <2>1. pc = "longest" /\ edges' = edges
    BY <1>3 DEF TakeStart
  <2>2. PICK n \in starts : IF n \in visited THEN rank' = rank ELSE Visit(n)
    BY <1>3 DEF TakeStart
  <2>3. n \in nodes
    BY DEF IInv, TypeInv, TypeOK
  <2>4. CASE n \in visited
    BY <2>1, <2>2, <2>4 DEF IInv, NoRankedCycle
  <2> QED
    BY <1>2, <2>1, <2>2, <2>3, <2>4
<1>4. CASE TakeChild
  <2>1. pc = "longest" /\ edges' = edges /\ stack # <<>> /\ stack \in Seq(nodes)
    BY <1>4 DEF TakeChild, IInv, TypeInv, TypeOK
  <2>2. PICK n \in todo[Top] : IF n \in visited THEN rank' = rank ELSE Visit(n)
    BY <1>4 DEF TakeChild
  <2>3. n \in nodes
    <3>1. Top = stack[Len(stack)] /\ Len(stack) \in 1..Len(stack)
      BY <2>1 DEF Top
    <3> QED
      BY <2>1, <2>2, <3>1 DEF IInv, PathInv, TodoOK, Succ
  <2>4. CASE n \in visited
    BY <2>1, <2>2, <2>4 DEF IInv, NoRankedCycle
  <2> QED
    BY <1>2, <2>1, <2>2, <2>3, <2>4
<1>5. CASE RankTop
  <2>1. /\ pc = "longest" /\ edges' = edges /\ Succ(Top) \subseteq DOMAIN rank
        /\ DOMAIN rank' = DOMAIN rank \cup {Top}
    BY <1>5 DEF RankTop
  <2>2. Top \in nodes \ DOMAIN rank
    <3>1. stack # <<>> /\ stack \in Seq(nodes) /\ StackOK
      BY <1>5, <2>1 DEF RankTop, IInv, TypeInv, TypeOK, PathInv
    <3>2. Top = stack[Len(stack)] /\ Len(stack) \in 1..Len(stack)
      BY <3>1 DEF Top
    <3> QED
      BY <3>1, <3>2 DEF StackOK
  <2> QED
    BY <2>1, <2>2, RankedApart
<1>6. CASE StartTree \/ GrowTree \/ UNCHANGED vars
  <2>1. pc \in {"longest", "tree"} /\ edges' = edges /\ rank' = rank
    BY <1>6 DEF StartTree, GrowTree, vars
  <2> QED
    BY <2>1 DEF IInv, NoRankedCycle
<1>7. CASE ShiftTree
  <2>1. pc = "tree" /\ edges' = edges /\ DOMAIN rank' = DOMAIN rank
    BY <1>7 DEF ShiftTree, ShiftRanks
  <2> QED
    BY <2>1 DEF IInv, NoRankedCycle
<1>8. ASSUME Prepare \/ StartWalk \/ Walk \/ EndFas \/ Flip \/ CleanUp PROVE FALSE
  BY <1>8 DEF Prepare, StartWalk, Walk, EndFas, Flip, CleanUp
<1> QED
  BY <1>1, <1>3, <1>4, <1>5, <1>6, <1>7, <1>8 DEF RankNext

(* A node on top of the stack with a successor that has no rank leads back *)
(* to a node below it on the stack: what is between them is a cycle.       *)
LEMMA PanicStep == IInv /\ [RankNext]_vars => PanicOK'
<1> SUFFICES ASSUME IInv, [RankNext]_vars, pc' = "panicked" PROVE HasCycle'
  BY DEF PanicOK
<1>1. CASE RankTop
  <2>1. /\ pc = "longest" /\ stack # <<>> /\ todo[Top] = {}
        /\ ~(Succ(Top) \subseteq DOMAIN rank)
        /\ UNCHANGED <<nodes, edges>>
    BY <1>1 DEF RankTop, Exhausted
  <2>2. VisitedOK /\ StackOK /\ TodoOK /\ stack \in Seq(nodes)
    BY <2>1 DEF IInv, PathInv, TypeInv, TypeOK
  <2>3. Top = stack[Len(stack)] /\ Len(stack) \in 1..Len(stack)
    BY <2>1, <2>2 DEF Top
  <2>4. PICK m \in Succ(Top) : m \notin DOMAIN rank
    BY <2>1
  <2>5. m \in visited
    BY <2>1, <2>2, <2>3, <2>4 DEF TodoOK
  <2>6. PICK i \in 1..Len(stack) : stack[i] = m
    BY <2>2, <2>4, <2>5 DEF VisitedOK
  <2> DEFINE S == {stack[j] : j \in i..Len(stack)}
  <2>7. S \in SUBSET nodes /\ S # {}
    BY <2>2, <2>3, <2>6
  <2>8. ASSUME NEW n \in S PROVE \E k \in S : <<n, k>> \in DOMAIN edges
    <3>1. PICK j \in i..Len(stack) : n = stack[j]
      OBVIOUS
    <3>2. CASE j = Len(stack)
      <4>1. m \in S
        BY <2>3, <2>6
      <4>2. <<n, m>> \in DOMAIN edges
        BY <2>3, <2>4, <3>1, <3>2 DEF Succ
      <4> QED
        BY <4>1, <4>2
    <3>3. CASE j # Len(stack)
      <4>1. j \in 1..(Len(stack) - 1) /\ j + 1 \in i..Len(stack)
        BY <2>3, <2>6, <3>1, <3>3
      <4>2. <<stack[j], stack[j + 1]>> \in DOMAIN edges
        BY <2>2, <4>1 DEF StackOK
      <4>3. stack[j + 1] \in S
        BY <4>1
      <4> QED
        BY <3>1, <4>2, <4>3
    <3> QED
      BY <3>2, <3>3
  <2> HIDE DEF S
  <2>9. HasCycle
    BY <2>7, <2>8 DEF HasCycle
  <2> QED
    BY <2>1, <2>9 DEF HasCycle
<1>2. CASE UNCHANGED vars
  <2>1. HasCycle /\ UNCHANGED <<nodes, edges>>
    BY <1>2 DEF vars, IInv, PanicOK
  <2> QED
    BY <2>1 DEF HasCycle
<1>3. ASSUME ~RankTop, ~UNCHANGED vars PROVE FALSE
  BY <1>3 DEF RankNext, Prepare, StartWalk, Walk, EndFas, Flip, Nest, TakeStart, TakeChild,
     StartTree, GrowTree, ShiftTree, CleanUp
<1> QED
  BY <1>1, <1>2, <1>3

-----------------------------------------------------------------------------
LEMMA RanksStep == IInv /\ [RankNext]_vars => RanksFeasible' /\ TreeOK' /\ TreeIsTight'
<1> SUFFICES ASSUME IInv, [RankNext]_vars PROVE RanksFeasible' /\ TreeOK' /\ TreeIsTight'
  OBVIOUS
<1>1. CASE StartTree
  BY <1>1, StartsTree
<1>2. CASE GrowTree
  BY <1>2, GrowsTight
<1>3. CASE ShiftTree
  BY <1>3, ShiftsFeasibly
<1>4. CASE CleanUp
  BY <1>4, CleansUpFeasibly DEF CleanUp, TreeOK, TreeIsTight
<1>5. CASE UNCHANGED vars
  BY <1>5 DEF vars, IInv, RanksFeasible, TreeOK, TreeIsTight, Slack
<1>6. CASE Prepare \/ StartWalk \/ Walk \/ EndFas \/ Flip \/ Nest \/ TakeStart \/ TakeChild
           \/ RankTop
  <2>1. pc' \notin {"tree", "ranked"}
    BY <1>6 DEF Prepare, StartWalk, Walk, EndFas, Flip, Nest, TakeStart, TakeChild, RankTop
  <2> QED
    BY <2>1 DEF RanksFeasible, TreeOK, TreeIsTight
<1> QED
  BY <1>1, <1>2, <1>3, <1>4, <1>5, <1>6 DEF RankNext

LEMMA InvStep == IInv /\ [RankNext]_vars => IInv'
<1> SUFFICES ASSUME IInv, [RankNext]_vars PROVE IInv'
  OBVIOUS
<1>1. TypeInv'
  BY TypeStep DEF IInv, AllRanked, RanksFeasible
<1>2. PathInv'
  BY PathStep DEF IInv
<1> QED
  BY <1>1, <1>2, RanksStep, NoRankedCycleStep, PanicStep DEF IInv

(* Types: every value the ranker keeps is of its kind, and no pass leaves  *)
(* a rank, an edge or a stack entry for a node that is not in the graph.   *)
THEOREM RankTypeCorrect == RankSpec => []TypeOK
<1>1. IInv => TypeOK
  BY DEF IInv, TypeInv
<1> QED
  BY InitInv, InvStep, <1>1, PTL DEF RankSpec

-----------------------------------------------------------------------------
(* Induction.                                                              *)

LEMMA LeastElement ==
  ASSUME NEW N \in Nat, NEW T, T \subseteq 0 .. N, T # {}
  PROVE  \E x \in T : \A y \in T : x <= y
<1> DEFINE R == StrictSubsetOrdering(1 .. N)
           U == {1 .. x : x \in T}
<1>1. IsWellFoundedOn(R, SUBSET (1 .. N))
  <2>1. IsFiniteSet(1 .. N)
    BY FS_Interval
  <2> QED BY <2>1, FS_StrictSubsetOrderingWellFounded, FS_FiniteSubsetsOfFinite
<1>2. U \subseteq SUBSET (1 .. N) /\ U # {}
  <2>1. \A x \in T : 1 .. x \in U
    OBVIOUS
  <2>2. \A x \in T : 1 .. x \subseteq 1 .. N
    OBVIOUS
  <2> QED BY <2>1, <2>2
<1>3. PICK u \in U : \A v \in U : <<v, u>> \notin R
  <2> HIDE DEF R, U
  <2> QED BY <1>1, <1>2, WFMin
<1>4. PICK x \in T : u = 1 .. x
  OBVIOUS
<1>5. \A y \in T : ~ (y < x)
  <2> SUFFICES ASSUME NEW y \in T, y < x PROVE FALSE
    OBVIOUS
  <2>1. 1 .. y \subseteq 1 .. x /\ 1 .. y # 1 .. x
    <3>1. x \in 1 .. x /\ x \notin 1 .. y
      OBVIOUS
    <3> QED BY <3>1
  <2>2. <<1 .. y, 1 .. x>> \in R
    <3>1. 1 .. y \in SUBSET (1 .. N) /\ 1 .. x \in SUBSET (1 .. N)
      OBVIOUS
    <3> QED BY <2>1, <3>1 DEF StrictSubsetOrdering
  <2> QED BY <1>3, <1>4, <2>2
<1> QED BY <1>5

LEMMA CountingUp ==
  ASSUME NEW N \in Nat, NEW S, 0 \in S, \A n \in 0 .. N - 1 : n \in S => n + 1 \in S
  PROVE  0 .. N \subseteq S
<1> DEFINE T == (0 .. N) \ S
<1> SUFFICES ASSUME T # {} PROVE FALSE
  OBVIOUS
<1>1. PICK x \in T : \A y \in T : x <= y
  <2>1. T \subseteq 0 .. N
    OBVIOUS
  <2> HIDE DEF T
  <2> QED BY <2>1, LeastElement
<1>2. x # 0 /\ x \in 0 .. N /\ x \notin S
  OBVIOUS
<1>3. x - 1 \in 0 .. N - 1 /\ ~ (x <= x - 1)
  BY <1>2
<1>4. x - 1 \in S
  BY <1>1, <1>3
<1>5. x - 1 + 1 \in S /\ x - 1 + 1 = x
  BY <1>2, <1>3, <1>4
<1> QED BY <1>2, <1>5

-----------------------------------------------------------------------------
(* What the ranker leaves for LayoutDraw.                                  *)

Back(e) == <<e[2], e[1]>>

(* The edges are those of the input, some turned round, and the root's.    *)
RankedEdges ==
  /\ \A e \in DOMAIN edges : edges[e].minlen >= 1
  /\ \A e \in DOMAIN edges : e[1] # Root => {e, Back(e)} \cap input.edges # {}
  /\ \A e \in input.edges : e[1] # e[2] => {e, Back(e)} \cap DOMAIN edges # {}

(* Ranks are counted from 0.                                               *)
LowestIsZero ==
  pc = "ranked" =>
    /\ \A n \in nodes : rank[n] >= 0
    /\ nodes = {} \/ \E n \in nodes : rank[n] = 0

RankDone == IInv /\ RankedEdges /\ LowestIsZero

-----------------------------------------------------------------------------
(* The invariant of the drawing.                                           *)

(* The edges that normalize was given: those it left and those it cut.     *)
Given == (DOMAIN edges \cap (Nodes \X Nodes)) \cup EdgeDummies

Long == {e \in Given : rank[e[2]] > rank[e[1]] + 1}

GivenOK ==
  /\ Given \subseteq input.nodes \X input.nodes
  /\ \A e \in Given : rank[e[1]] < rank[e[2]] /\ {e, Back(e)} \cap input.edges # {}
  /\ \A e \in input.edges : e[1] # e[2] => {e, Back(e)} \cap Given # {}
  /\ \A e \in DOMAIN edges : edges[e] = FreshLabel

RanksOK ==
  /\ input.nodes \subseteq nodes
  /\ \A n \in input.nodes : rank[n] \in Nat
  /\ input.nodes = {} \/ \E n \in input.nodes : rank[n] = 0

(* The graph while the edges are cut.                                      *)
CutOK ==
  /\ DOMAIN edges = UNION {Links(e) : e \in Given}
  /\ chains = {Dummy(e, rank[e[1]] + 1) : e \in Long}
  /\ nodes \ SelfDummies = input.nodes \cup UNION {Between(e) : e \in Given}
  /\ \A e \in Given : \A u \in Between(e) : rank[u] = u.rank

(* The rows of the layering.                                               *)
RowsOK ==
  /\ \E m \in Nat : DOMAIN layers = 0 .. m /\ \A n \in nodes : rank[n] <= m
  /\ \A r \in DOMAIN layers :
       /\ layers[r] \in Seq(nodes)
       /\ \A i, j \in DOMAIN layers[r] : layers[r][i] = layers[r][j] => i = j
       /\ \A n : n \in visited /\ rank[n] = r <=> \E i \in DOMAIN layers[r] : layers[r][i] = n
  /\ visited \subseteq nodes /\ work \in Seq(nodes)

OrderOK ==
  /\ visited = nodes
  /\ \A n \in nodes : /\ order[n] \in Nat /\ order[n] + 1 \in DOMAIN layers[rank[n]]
                      /\ layers[rank[n]][order[n] + 1] = n

(* A dummy of a self-edge is there just if the first node has a self-edge. *)
FirstHasLoop == layers[0] # <<>> /\ layers[0][1] \in loops

LoopsOK == SelfDummies # {} <=> FirstHasLoop

(* Every edge has a point in each of its layers, and it is the dummies of  *)
(* self-edges that make layout_model fail.                                 *)
DrawnOK ==
  /\ \A e \in DOMAIN edges :
       points[e] = [i \in 1 .. rank[e[2]] - rank[e[1]] + 1 |-> rank[e[1]] + i - 1]
  /\ stage = "failed" <=> ~ (nodes \subseteq Nodes)

DrawInv ==
  /\ loops \subseteq Nodes /\ input \in Graphs
  /\ stage \in {"rank", "order", "loops", "position", "denormalize", "output", "done", "failed"}
  /\ stage = "rank" => RankDone /\ chains = {} /\ work = <<>>
  /\ stage # "rank" => GivenOK /\ RanksOK
  /\ stage \in {"order", "loops", "position", "denormalize"} => CutOK
  /\ stage \in {"order", "loops"} => IsFiniteSet(nodes) /\ SelfDummies = {} /\ RowsOK
  /\ stage = "loops" => OrderOK
  /\ stage \in {"position", "denormalize", "output", "done", "failed"} => LoopsOK
  /\ stage \in {"output", "done", "failed"} => nodes \ SelfDummies = input.nodes /\ DOMAIN edges = Given
  /\ stage = "output" => points = [e \in EdgeDummies |->
                            [i \in 1 .. rank[e[2]] - rank[e[1]] - 1 |-> rank[e[1]] + i]]
                         /\ EdgeDummies = Long
  /\ stage \in {"done", "failed"} => DrawnOK

LEMMA PairsTurn == ASSUME NEW S, NEW T, NEW e \in S \X T
                   PROVE  e = <<e[1], e[2]>> /\ e[1] \in S /\ e[2] \in T /\ Back(Back(e)) = e
BY DEF Back

LEMMA FlipsEdges == TypeInv /\ RankedEdges /\ Flip => RankedEdges'
<1> SUFFICES ASSUME TypeInv, RankedEdges, Flip PROVE RankedEdges'
  OBVIOUS
<1>1. PICK e : e = Head(fas)
  OBVIOUS
<1>2. e \in Nodes \X Nodes /\ UNCHANGED input
  BY <1>1 DEF Flip, TypeInv, TypeOK
<1>3. /\ e = <<e[1], e[2]>> /\ e[1] # Root /\ Back(Back(e)) = e /\ Back(e) = <<e[2], e[1]>>
      /\ Back(e)[1] # Root
  BY <1>2, PairsTurn, LayoutRankConstantsOK DEF Back
<1>4. CASE e \notin DOMAIN edges
  BY <1>1, <1>2, <1>4 DEF Flip, RankedEdges
<1>5. CASE e \in DOMAIN edges
  <2>1. edges' = SetEdge(RemoveEdge(edges, e), Back(e), [edges[e] EXCEPT !.reversed = TRUE])
    BY <1>1, <1>3, <1>5 DEF Flip
  <2>2. DOMAIN edges' = (DOMAIN edges \ {e}) \cup {Back(e)}
    BY <2>1 DEF SetEdge, RemoveEdge
  <2>3. /\ edges'[Back(e)].minlen = edges[e].minlen
        /\ \A f \in DOMAIN edges \ {e} : f # Back(e) => edges'[f] = edges[f]
    <3>1. edges[e] \in Label
      BY <1>5 DEF TypeInv, TypeOK
    <3> QED
      BY <2>1, <2>2, <3>1 DEF SetEdge, RemoveEdge
  <2>4. \A f \in DOMAIN edges' : edges'[f].minlen >= 1
    BY <1>5, <2>2, <2>3 DEF RankedEdges
  <2>5. {Back(e), Back(Back(e))} \cap input.edges # {}
    BY <1>3, <1>5 DEF RankedEdges
  <2>6. \A f \in DOMAIN edges' : f[1] # Root => {f, Back(f)} \cap input.edges # {}
    BY <2>2, <2>5 DEF RankedEdges
  <2>7. ASSUME NEW f \in input.edges, f[1] # f[2] PROVE {f, Back(f)} \cap DOMAIN edges' # {}
    <3>1. PICK g \in {f, Back(f)} : g \in DOMAIN edges
      BY <2>7 DEF RankedEdges
    <3>2. Back(Back(f)) = f
      <4>1. f \in Nodes \X Nodes
        BY LayoutRankConstantsOK DEF TypeInv, TypeOK
      <4> QED
        BY <4>1, PairsTurn
    <3> QED
      BY <2>2, <3>1, <3>2
  <2> QED
    BY <1>2, <2>4, <2>6, <2>7 DEF RankedEdges
<1> QED
  BY <1>4, <1>5

LEMMA RankedEdgesStep == IInv /\ RankedEdges /\ [RankNext]_vars => RankedEdges'
<1> SUFFICES ASSUME IInv, RankedEdges, [RankNext]_vars PROVE RankedEdges'
  OBVIOUS
<1>1. TypeInv
  BY DEF IInv
<1>2. CASE Prepare
  <2>1. /\ DOMAIN edges' = {e \in DOMAIN edges : e[1] # e[2]} /\ UNCHANGED input
        /\ \A e \in DOMAIN edges' : edges'[e] = [edges[e] EXCEPT !.minlen = 2 * @]
    BY <1>2 DEF Prepare
  <2>2. \A e \in DOMAIN edges' : edges'[e].minlen >= 1
    <3> SUFFICES ASSUME NEW e \in DOMAIN edges' PROVE edges'[e].minlen >= 1
      OBVIOUS
    <3>1. edges[e] \in Label /\ edges[e].minlen >= 1
      BY <1>1, <2>1 DEF TypeInv, TypeOK, RankedEdges
    <3>2. edges'[e].minlen = 2 * edges[e].minlen
      BY <2>1, <3>1
    <3> QED
      BY <3>1, <3>2
  <2>3. \A e \in input.edges : e[1] # e[2] => {e, Back(e)} \cap DOMAIN edges' # {}
    BY <2>1 DEF RankedEdges, Back
  <2> QED
    BY <2>1, <2>2, <2>3 DEF RankedEdges
<1>3. CASE Flip
  BY <1>1, <1>3, FlipsEdges
<1>4. CASE Nest
  <2>1. /\ DOMAIN edges' = DOMAIN edges \cup RootEdges /\ UNCHANGED input
        /\ \A e \in DOMAIN edges' :
             edges'[e] = IF e[1] = Root THEN [minlen |-> 1, reversed |-> FALSE] ELSE edges[e]
    BY <1>4 DEF Nest
  <2>2. \A e \in RootEdges : e[1] = Root
    BY DEF RootEdges
  <2> QED
    BY <2>1, <2>2 DEF RankedEdges
<1>5. CASE CleanUp
  <2>1. /\ DOMAIN edges' = {e \in DOMAIN edges : e[1] # Root} /\ UNCHANGED input
        /\ \A e \in DOMAIN edges' : edges'[e] = edges[e]
    BY <1>5 DEF CleanUp, NestingCleanup
  <2>2. \A e \in input.edges : e[1] # Root /\ Back(e)[1] # Root
    <3>1. input.edges \subseteq Nodes \X Nodes
      BY <1>1, LayoutRankConstantsOK DEF TypeInv, TypeOK
    <3> QED
      BY <3>1, LayoutRankConstantsOK DEF Back
  <2> QED
    BY <2>1, <2>2 DEF RankedEdges
<1>6. CASE StartWalk \/ Walk \/ EndFas \/ TakeStart \/ TakeChild \/ RankTop \/ StartTree
           \/ GrowTree \/ ShiftTree \/ UNCHANGED vars
  <2>1. UNCHANGED <<input, edges>>
    BY <1>6 DEF StartWalk, Walk, EndFas, TakeStart, TakeChild, RankTop, StartTree, GrowTree,
       ShiftTree, vars
  <2> QED
    BY <2>1 DEF RankedEdges
<1> QED
  BY <1>2, <1>3, <1>4, <1>5, <1>6 DEF RankNext

LEMMA LowestStep == IInv /\ LowestIsZero /\ [RankNext]_vars => LowestIsZero'
<1> SUFFICES ASSUME IInv, LowestIsZero, [RankNext]_vars, pc' = "ranked"
             PROVE  /\ \A n \in nodes' : rank'[n] >= 0
                    /\ nodes' = {} \/ \E n \in nodes' : rank'[n] = 0
  BY DEF LowestIsZero
<1>1. CASE CleanUp
  <2>1. rank \in [nodes -> Int] /\ nodes' \subseteq nodes
    BY <1>1 DEF CleanUp, IInv, RanksFeasible, TypeInv, TypeOK
  <2>2. CASE nodes' = {}
    BY <2>2
  <2>3. CASE nodes' # {}
    <3>1. PICK low \in nodes' : /\ \A n \in nodes' : rank[low] <= rank[n]
                                /\ rank' = [n \in nodes' |-> rank[n] - rank[low]]
      BY <1>1, <2>3 DEF CleanUp
    <3>2. \A n \in nodes' : rank'[n] = rank[n] - rank[low] /\ rank[n] \in Int
      BY <2>1, <3>1
    <3>3. rank'[low] = 0
      BY <3>2
    <3> QED
      BY <3>1, <3>2, <3>3
  <2> QED
    BY <2>2, <2>3
<1>2. CASE UNCHANGED vars
  BY <1>2 DEF vars, LowestIsZero
<1>3. ASSUME Prepare \/ StartWalk \/ Walk \/ EndFas \/ Flip \/ Nest \/ TakeStart \/ TakeChild
             \/ RankTop \/ StartTree \/ GrowTree \/ ShiftTree
      PROVE  FALSE
  BY <1>3 DEF Prepare, StartWalk, Walk, EndFas, Flip, Nest, TakeStart, TakeChild, RankTop,
     StartTree, GrowTree, ShiftTree
<1> QED
  BY <1>1, <1>2, <1>3 DEF RankNext

LEMMA RankDoneStep == RankDone /\ [RankNext]_vars => RankDone'
BY InvStep, RankedEdgesStep, LowestStep DEF RankDone

LEMMA RankDoneInit == Init => RankDone
<1> SUFFICES ASSUME Init PROVE RankDone
  OBVIOUS
<1>1. IInv /\ pc # "ranked"
  BY InitInv DEF Init
<1>2. RankedEdges
  BY DEF Init, RankedEdges
<1> QED
  BY <1>1, <1>2 DEF RankDone, LowestIsZero

-----------------------------------------------------------------------------
(* The keys the layout makes up, and the links of an edge.                 *)

LEMMA MadeUp ==
  /\ \A e \in Nodes \X Nodes : \A r \in Int :
       Dummy(e, r) \notin Nodes /\ Dummy(e, r).edge = e /\ Dummy(e, r).rank = r
  /\ \A n \in Nodes : SelfDummy(n) \notin Nodes /\ SelfDummy(n).loop = n
  /\ \A e, r, n : Dummy(e, r) # SelfDummy(n)
<1>1. \A e \in Nodes \X Nodes : \A r \in Int : Dummy(e, r) \notin Nodes
  BY LayoutDrawConstantsOK DEF Dummy
<1>2. \A n \in Nodes : SelfDummy(n) \notin Nodes
  BY LayoutDrawConstantsOK DEF SelfDummy
<1>3. \A e, r, n : Dummy(e, r) # SelfDummy(n)
  <2> SUFFICES ASSUME NEW e, NEW r, NEW n, Dummy(e, r) = SelfDummy(n) PROVE FALSE
    OBVIOUS
  <2>1. DOMAIN Dummy(e, r) = {"edge", "rank"} /\ DOMAIN SelfDummy(n) = {"loop"}
    BY DEF Dummy, SelfDummy
  <2> QED
    BY <2>1
<1> QED
  BY <1>1, <1>2, <1>3 DEF Dummy, SelfDummy

(* What edge e passes in layer r.                                          *)
AtLayer(e, r) ==
  IF r = rank[e[1]] THEN e[1] ELSE IF r >= rank[e[2]] THEN e[2] ELSE Dummy(e, r)

LEMMA LinksAre ==
  ASSUME NEW e \in Nodes \X Nodes, rank[e[1]] \in Int, rank[e[2]] \in Int, rank[e[1]] < rank[e[2]]
  PROVE  /\ Links(e) = {<<AtLayer(e, r), AtLayer(e, r + 1)>> : r \in rank[e[1]] .. rank[e[2]] - 1}
         /\ AtLayer(e, rank[e[1]]) = e[1] /\ AtLayer(e, rank[e[2]]) = e[2]
         /\ \A r \in rank[e[1]] + 1 .. rank[e[2]] - 1 :
              AtLayer(e, r) = Dummy(e, r) /\ AtLayer(e, r) \notin Nodes
<1>1. Links(e) = {<<AtLayer(e, r), AtLayer(e, r + 1)>> : r \in rank[e[1]] .. rank[e[2]] - 1}
  BY DEF Links, AtLayer
<1>2. \A r \in rank[e[1]] + 1 .. rank[e[2]] - 1 :
        r \in Int /\ r # rank[e[1]] /\ ~ (r >= rank[e[2]])
  OBVIOUS
<1>3. \A r \in rank[e[1]] + 1 .. rank[e[2]] - 1 :
        AtLayer(e, r) = Dummy(e, r) /\ AtLayer(e, r) \notin Nodes
  BY <1>2, MadeUp DEF AtLayer
<1> QED
  BY <1>1, <1>3 DEF AtLayer

(* The links between two nodes of the model are the edges of one layer.    *)
LEMMA LinksOfNodes ==
  ASSUME NEW e \in Nodes \X Nodes, rank[e[1]] \in Int, rank[e[2]] \in Int, rank[e[1]] < rank[e[2]],
         NEW l
  PROVE  l \in Links(e) /\ l \in Nodes \X Nodes <=> l = e /\ rank[e[2]] = rank[e[1]] + 1
<1> DEFINE low == rank[e[1]]
           high == rank[e[2]]
<1>1. e = <<e[1], e[2]>> /\ low \in Int /\ high \in Int /\ low < high
  OBVIOUS
<1>2. /\ Links(e) = {<<AtLayer(e, r), AtLayer(e, r + 1)>> : r \in low .. high - 1}
      /\ AtLayer(e, low) = e[1] /\ AtLayer(e, high) = e[2]
      /\ \A r \in low + 1 .. high - 1 : AtLayer(e, r) \notin Nodes
  BY LinksAre
<1> HIDE DEF low, high
<1>3. ASSUME l \in Links(e), l \in Nodes \X Nodes PROVE l = e /\ high = low + 1
  <2>1. PICK r \in low .. high - 1 : l = <<AtLayer(e, r), AtLayer(e, r + 1)>>
    BY <1>2, <1>3
  <2>2. AtLayer(e, r) \in Nodes /\ AtLayer(e, r + 1) \in Nodes
    BY <1>3, <2>1
  <2>3. r \notin low + 1 .. high - 1 /\ r + 1 \notin low + 1 .. high - 1
    BY <1>2, <2>2
  <2>4. r = low /\ r + 1 = high
    BY <1>1, <2>3
  <2> QED
    BY <1>1, <1>2, <2>1, <2>4
<1>4. ASSUME high = low + 1 PROVE e \in Links(e)
  <2>1. low \in low .. high - 1
    BY <1>1, <1>4
  <2>2. <<AtLayer(e, low), AtLayer(e, low + 1)>> \in Links(e)
    BY <1>2, <2>1
  <2> QED
    BY <1>1, <1>2, <1>4, <2>2
<1> QED
  BY <1>3, <1>4 DEF low, high

LEMMA BetweenIsFinite ==
  ASSUME NEW e, rank[e[1]] \in Int, rank[e[2]] \in Int
  PROVE  IsFiniteSet(Between(e))
<1> DEFINE I == rank[e[1]] + 1 .. rank[e[2]] - 1
           g == [r \in I |-> Dummy(e, r)]
<1>1. IsFiniteSet(I)
  BY FS_Interval
<1>2. g \in Surjection(I, Between(e))
  BY DEF Surjection, Between
<1> HIDE DEF I, g
<1> QED
  BY <1>1, <1>2, FS_Surjection

LEMMA FiniteUnion ==
  ASSUME NEW S, IsFiniteSet(S), NEW f, \A x \in S : IsFiniteSet(f[x]),
         NEW V, \A y : y \in V <=> \E x \in S : y \in f[x]
  PROVE  IsFiniteSet(V)
<1> DEFINE W == {f[x] : x \in S}
           g == [x \in S |-> f[x]]
<1>1. g \in Surjection(S, W)
  BY DEF Surjection
<1>2. (\A w \in W : IsFiniteSet(w)) /\ UNION W = V
  OBVIOUS
<1> HIDE DEF W, g
<1>3. IsFiniteSet(W)
  BY <1>1, FS_Surjection
<1> QED
  BY <1>2, <1>3, FS_UNION

LEMMA LargestOf ==
  ASSUME NEW S, IsFiniteSet(S), S \subseteq Int, S # {}
  PROVE  Max(S) \in S /\ \A x \in S : x <= Max(S)
<1> DEFINE R == StrictSubsetOrdering(S)
           Above(x) == {y \in S : x < y}
           U == {Above(x) : x \in S}
<1>1. IsWellFoundedOn(R, SUBSET S)
  BY FS_StrictSubsetOrderingWellFounded, FS_FiniteSubsetsOfFinite
<1>2. U \subseteq SUBSET S /\ U # {}
  OBVIOUS
<1>3. PICK u \in U : \A v \in U : <<v, u>> \notin R
  <2> HIDE DEF R, U
  <2> QED
    BY <1>1, <1>2, WFMin
<1>4. PICK m \in S : u = Above(m)
  OBVIOUS
<1>5. ASSUME NEW x \in S, m < x PROVE FALSE
  <2>1. Above(x) \subseteq Above(m) /\ x \in Above(m) /\ x \notin Above(x)
    <3>1. x \in Int /\ m \in Int /\ \A y \in S : y \in Int
      OBVIOUS
    <3>2. \A y \in S : x < y => m < y
      BY <1>5, <3>1
    <3>3. ~ (x < x)
      BY <3>1
    <3> QED
      BY <1>5, <3>2, <3>3
  <2>2. Above(x) \in SUBSET S /\ Above(m) \in SUBSET S /\ Above(x) # Above(m)
    BY <2>1
  <2>3. <<Above(x), Above(m)>> \in R
    <3> HIDE DEF Above
    <3> QED
      BY <2>1, <2>2 DEF StrictSubsetOrdering
  <2> QED
    BY <1>3, <1>4, <2>3
<1>6. \A x \in S : m >= x
  BY <1>5
<1>7. Max(S) \in S /\ \A x \in S : Max(S) >= x
  BY <1>6 DEF Max
<1> QED
  BY <1>7

-----------------------------------------------------------------------------
(* normalize.                                                              *)

(* What the ranker has left when it is done.                               *)
LEMMA RankedFacts ==
  ASSUME RankDone, pc = "ranked"
  PROVE  /\ input \in Graphs /\ loops \subseteq Nodes
         /\ nodes = input.nodes /\ nodes \subseteq Nodes /\ IsFiniteSet(nodes)
         /\ rank \in [nodes -> Nat] /\ (nodes = {} \/ \E n \in nodes : rank[n] = 0)
         /\ DOMAIN edges \subseteq nodes \X nodes
         /\ \A e \in DOMAIN edges : rank[e[1]] < rank[e[2]] /\ {e, Back(e)} \cap input.edges # {}
         /\ \A e \in input.edges : e[1] # e[2] => {e, Back(e)} \cap DOMAIN edges # {}
<1>1. TypeInv /\ RanksFeasible /\ RankedEdges /\ LowestIsZero
  BY DEF RankDone, IInv
<1>2. /\ input \in Graphs /\ loops \subseteq Nodes /\ nodes = input.nodes
      /\ DOMAIN edges \subseteq nodes \X nodes /\ DOMAIN rank = nodes /\ rank \in [nodes -> Int]
  BY <1>1 DEF TypeInv, TypeOK, NodesOK, RanksFeasible
<1>3. nodes \subseteq Nodes /\ IsFiniteSet(nodes)
  BY <1>2, LayoutRankConstantsOK, LayoutDrawConstantsOK
<1>4. (\A n \in nodes : rank[n] >= 0) /\ (nodes = {} \/ \E n \in nodes : rank[n] = 0)
  BY <1>1 DEF LowestIsZero
<1>5. rank \in [nodes -> Nat]
  BY <1>2, <1>4
<1>6. ASSUME NEW e \in DOMAIN edges
      PROVE  rank[e[1]] < rank[e[2]] /\ {e, Back(e)} \cap input.edges # {}
  <2>1. /\ e[1] \in nodes /\ e[2] \in nodes /\ edges[e].minlen \in Nat /\ edges[e].minlen >= 1
        /\ Slack(e) >= 0
    BY <1>1, EdgeTypes DEF RankedEdges, RanksFeasible
  <2>2. rank[e[1]] < rank[e[2]]
    BY <1>2, <2>1 DEF Slack
  <2>3. e[1] # Root
    BY <1>3, <2>1, LayoutRankConstantsOK
  <2> QED
    BY <1>1, <2>2, <2>3 DEF RankedEdges
<1> QED
  BY <1>1, <1>2, <1>3, <1>4, <1>5, <1>6 DEF RankedEdges

(* The graph that normalize leaves, in terms of the edges E it is given.   *)
LEMMA Normalizes ==
  ASSUME RankDone, Normalize,
         NEW E, E = DOMAIN edges
  PROVE  /\ \A n \in nodes : rank'[n] = rank[n]
         /\ \A e \in E : Links(e)' = Links(e) /\ Between(e)' = Between(e)
         /\ DOMAIN edges' = UNION {Links(e) : e \in E}
         /\ nodes' = nodes \cup UNION {Between(e) : e \in E}
         /\ \A e \in E : \A u \in Between(e) : u \notin Nodes /\ u.rank \in Nat /\ rank'[u] = u.rank
         /\ chains' = {Dummy(e, rank[e[1]] + 1) : e \in {f \in E : rank[f[2]] > rank[f[1]] + 1}}
         /\ SelfDummies' = {}
         /\ Given' = E
<1>ranked. /\ loops \subseteq Nodes /\ nodes \subseteq Nodes /\ rank \in [nodes -> Nat]
           /\ E \subseteq nodes \X nodes /\ \A e \in E : rank[e[1]] < rank[e[2]]
  BY RankedFacts DEF Normalize
<1>1. /\ nodes' = nodes \cup UNION {Between(e) : e \in E}
      /\ rank' = [n \in nodes' |-> IF n \in nodes THEN rank[n] ELSE n.rank]
      /\ edges' = [l \in UNION {Links(e) : e \in E} |-> FreshLabel]
      /\ chains' = {Dummy(e, rank[e[1]] + 1) : e \in {f \in E : rank[f[2]] > rank[f[1]] + 1}}
      /\ UNCHANGED <<input, loops>>
  BY DEF Normalize, FirstDummies
<1>2. \A n \in nodes : rank'[n] = rank[n]
  BY <1>1
<1>3. \A e \in E : e \in Nodes \X Nodes /\ e[1] \in nodes /\ e[2] \in nodes
                   /\ rank[e[1]] \in Nat /\ rank[e[2]] \in Nat
  BY <1>ranked
<1>4. \A e \in E : Links(e)' = Links(e) /\ Between(e)' = Between(e)
  BY <1>2, <1>3 DEF Links, Between
<1>5. ASSUME NEW e \in E, NEW u \in Between(e)
      PROVE  u \notin Nodes /\ u.rank \in Nat /\ rank'[u] = u.rank
             /\ \A n : u # SelfDummy(n)
  <2>1. PICK r \in (rank[e[1]] + 1) .. (rank[e[2]] - 1) : u = Dummy(e, r)
    BY DEF Between
  <2>2. r \in Nat /\ e \in Nodes \X Nodes
    BY <1>3
  <2>3. u \notin Nodes /\ u.rank = r /\ \A n : u # SelfDummy(n)
    BY <2>1, <2>2, MadeUp
  <2>4. u \in nodes' /\ u \notin nodes
    BY <1>1, <1>ranked, <2>3
  <2> QED
    BY <1>1, <2>2, <2>3, <2>4
<1>6. SelfDummies' = {}
  <2> SUFFICES ASSUME NEW n \in loops, SelfDummy(n) \in nodes' PROVE FALSE
    BY <1>1 DEF SelfDummies
  <2>1. SelfDummy(n) \notin nodes
    BY <1>ranked, MadeUp
  <2>2. PICK e \in E : SelfDummy(n) \in Between(e)
    BY <1>1, <2>1
  <2> QED
    BY <1>5, <2>2
<1>7. Given' = E
  <2>1. \A e \in E : \A l : l \in Links(e) /\ l \in Nodes \X Nodes
                              <=> l = e /\ rank[e[2]] = rank[e[1]] + 1
    BY <1>3, <1>ranked, LinksOfNodes
  <2>2. DOMAIN edges' \cap (Nodes \X Nodes) = {e \in E : rank[e[2]] = rank[e[1]] + 1}
    BY <1>1, <1>3, <2>1
  <2>3. \A e \in E : Dummy(e, rank[e[1]] + 1).edge = e
    BY DEF Dummy
  <2>4. EdgeDummies' = {e \in E : rank[e[2]] > rank[e[1]] + 1}
    BY <1>1, <2>3 DEF EdgeDummies
  <2>5. \A e \in E : rank[e[2]] = rank[e[1]] + 1 \/ rank[e[2]] > rank[e[1]] + 1
    BY <1>3, <1>ranked
  <2> QED
    BY <2>2, <2>4, <2>5 DEF Given
<1> QED
  BY <1>1, <1>2, <1>4, <1>5, <1>6, <1>7

LEMMA NormalizeDraws == ASSUME DrawInv, Normalize PROVE DrawInv'
<1>1. RankDone /\ pc = "ranked" /\ stage = "rank" /\ stage' = "order"
  BY DEF Normalize, DrawInv
<1>2. PICK E : E = DOMAIN edges
  OBVIOUS
<1>3. /\ input \in Graphs /\ loops \subseteq Nodes
      /\ nodes = input.nodes /\ nodes \subseteq Nodes /\ IsFiniteSet(nodes)
      /\ rank \in [nodes -> Nat] /\ (nodes = {} \/ \E n \in nodes : rank[n] = 0)
      /\ E \subseteq nodes \X nodes
      /\ \A e \in E : rank[e[1]] < rank[e[2]] /\ {e, Back(e)} \cap input.edges # {}
      /\ \A e \in input.edges : e[1] # e[2] => {e, Back(e)} \cap E # {}
  BY <1>1, <1>2, RankedFacts
<1>4. /\ \A n \in nodes : rank'[n] = rank[n]
      /\ \A e \in E : Links(e)' = Links(e) /\ Between(e)' = Between(e)
      /\ DOMAIN edges' = UNION {Links(e) : e \in E}
      /\ nodes' = nodes \cup UNION {Between(e) : e \in E}
      /\ \A e \in E : \A u \in Between(e) : u \notin Nodes /\ u.rank \in Nat /\ rank'[u] = u.rank
      /\ chains' = {Dummy(e, rank[e[1]] + 1) : e \in {f \in E : rank[f[2]] > rank[f[1]] + 1}}
      /\ SelfDummies' = {}
      /\ Given' = E
  BY <1>1, <1>2, Normalizes
<1>5. /\ UNCHANGED <<input, loops, work>> /\ visited' = {}
      /\ \A l \in DOMAIN edges' : edges'[l] = FreshLabel
      /\ layers' = [r \in 0 .. Max({0} \cup {rank'[n] : n \in nodes'}) |-> <<>>]
  BY DEF Normalize
<1>6. \A e \in E : e[1] \in nodes /\ e[2] \in nodes /\ rank'[e[1]] = rank[e[1]]
                   /\ rank'[e[2]] = rank[e[2]] /\ rank[e[1]] \in Nat /\ rank[e[2]] \in Nat
  BY <1>3, <1>4
<1>7. GivenOK'
  BY <1>3, <1>4, <1>5, <1>6 DEF GivenOK, Back
<1>8. RanksOK'
  BY <1>3, <1>4, <1>5 DEF RanksOK
<1>9. CutOK'
  <2>1. Long' = {e \in E : rank[e[2]] > rank[e[1]] + 1}
    BY <1>4, <1>6 DEF Long
  <2>2. chains' = {Dummy(e, rank[e[1]] + 1) : e \in Long'}
    BY <1>4, <2>1
  <2>3. {Dummy(e, rank'[e[1]] + 1) : e \in Long'} = {Dummy(e, rank[e[1]] + 1) : e \in Long'}
    BY <1>6, <2>1
  <2>4. /\ UNION {Links(e)' : e \in E} = UNION {Links(e) : e \in E}
        /\ UNION {Between(e)' : e \in E} = UNION {Between(e) : e \in E}
    BY <1>4
  <2>5. nodes' \ SelfDummies' = input.nodes \cup UNION {Between(e)' : e \in E}
    BY <1>3, <1>4, <2>4
  <2>6. \A e \in E : \A u \in Between(e)' : rank'[u] = u.rank
    BY <1>4
  <2> QED
    BY <1>4, <1>5, <2>2, <2>3, <2>4, <2>5, <2>6 DEF CutOK
<1>10. \A n \in nodes' : rank'[n] \in Nat
  BY <1>3, <1>4
<1>11. IsFiniteSet(nodes')
  <2>1. IsFiniteSet(E)
    <3>1. IsFiniteSet(nodes \X nodes)
      BY <1>3, FS_Product
    <3> QED
      BY <1>3, <3>1, FS_Subset
  <2>2. PICK f, W : f = [e \in E |-> Between(e)] /\ W = UNION {Between(e) : e \in E}
    OBVIOUS
  <2>3. (\A e \in E : IsFiniteSet(f[e])) /\ \A u : u \in W <=> \E e \in E : u \in f[e]
    BY <1>6, <2>2, BetweenIsFinite
  <2>4. IsFiniteSet(W)
    BY <2>1, <2>3, FiniteUnion
  <2> QED
    BY <1>3, <1>4, <2>2, <2>4, FS_Union
<1>12. RowsOK'
  <2> DEFINE R == {0} \cup {rank'[n] : n \in nodes'}
             g == [n \in nodes' |-> rank'[n]]
  <2>1. IsFiniteSet(R)
    <3>1. g \in Surjection(nodes', {rank'[n] : n \in nodes'})
      BY DEF Surjection
    <3>2. IsFiniteSet({rank'[n] : n \in nodes'})
      <4> HIDE DEF g
      <4> QED
        BY <1>11, <3>1, FS_Surjection
    <3>3. IsFiniteSet({0})
      BY FS_Singleton
    <3> QED
      BY <3>2, <3>3, FS_Union
  <2>2. R \subseteq Nat /\ 0 \in R
    BY <1>10
  <2>3. Max(R) \in Nat /\ \A n \in nodes' : rank'[n] <= Max(R)
    <3>1. \A n \in nodes' : rank'[n] \in R
      OBVIOUS
    <3>2. R \subseteq Int /\ R # {}
      BY <2>2
    <3> HIDE DEF R
    <3> QED
      BY <2>1, <2>2, <3>1, <3>2, LargestOf
  <2>4. layers' = [r \in 0 .. Max(R) |-> <<>>]
    BY <1>5
  <2> HIDE DEF R
  <2>5. \A r \in DOMAIN layers' : layers'[r] = <<>> /\ <<>> \in Seq(nodes')
    BY <2>4
  <2>6. work' = <<>>
    BY <1>1, <1>5 DEF DrawInv
  <2>7. DOMAIN layers' = 0 .. Max(R)
    BY <2>4
  <2>8. ASSUME NEW r \in DOMAIN layers'
        PROVE  /\ layers'[r] \in Seq(nodes') /\ DOMAIN layers'[r] = {}
               /\ \A n : n \notin visited'
    BY <1>5, <2>5
  <2>9. visited' \subseteq nodes' /\ work' \in Seq(nodes')
    BY <1>5, <2>6
  <2> QED
    BY <2>3, <2>7, <2>8, <2>9 DEF RowsOK
<1> QED
  BY <1>1, <1>3, <1>4, <1>5, <1>7, <1>8, <1>9, <1>11, <1>12 DEF DrawInv

LEMMA RankDraws == ASSUME DrawInv, RankStep PROVE DrawInv'
<1>1. RankDone' /\ stage = "rank" /\ UNCHANGED drawVars
  BY RankDoneStep DEF DrawInv, RankStep
<1>2. TypeOK'
  BY <1>1 DEF RankDone, IInv, TypeInv
<1> QED
  BY <1>1, <1>2 DEF DrawInv, drawVars, TypeOK

LEMMA InitDraws == DrawInit => DrawInv
<1> SUFFICES ASSUME DrawInit PROVE DrawInv
  OBVIOUS
<1>1. RankDone
  BY RankDoneInit DEF DrawInit
<1> QED
  BY <1>1 DEF DrawInit, DrawInv, RankDone, IInv, TypeInv, TypeOK

-----------------------------------------------------------------------------
(* init_order and order.                                                   *)

LEMMA GraphFrame ==
  ASSUME UNCHANGED <<input, nodes, edges, loops, rank, chains>>
  PROVE  /\ GivenOK => GivenOK'
         /\ RanksOK => RanksOK'
         /\ CutOK => CutOK'
         /\ SelfDummies' = SelfDummies
<1>1. EdgeDummies' = EdgeDummies /\ SelfDummies' = SelfDummies
  BY DEF EdgeDummies, SelfDummies
<1>2. Given' = Given
  BY <1>1 DEF Given
<1>3. Long' = Long
  BY <1>2 DEF Long
<1>4. \A e : Links(e)' = Links(e) /\ Between(e)' = Between(e)
  BY DEF Links, Between
<1>5. UNION {Links(e)' : e \in Given} = UNION {Links(e) : e \in Given}
      /\ UNION {Between(e)' : e \in Given} = UNION {Between(e) : e \in Given}
  BY <1>4
<1>6. GivenOK => GivenOK'
  BY <1>2 DEF GivenOK
<1>7. RanksOK => RanksOK'
  BY DEF RanksOK
<1>8. CutOK => CutOK'
  BY <1>1, <1>2, <1>3, <1>4, <1>5 DEF CutOK
<1> QED
  BY <1>1, <1>6, <1>7, <1>8

LEMMA GivenFacts ==
  ASSUME input \in Graphs, GivenOK, RanksOK, NEW e \in Given
  PROVE  /\ e \in Nodes \X Nodes /\ e[1] \in nodes /\ e[2] \in nodes
         /\ rank[e[1]] \in Nat /\ rank[e[2]] \in Nat /\ rank[e[1]] < rank[e[2]]
BY LayoutRankConstantsOK DEF GivenOK, RanksOK

LEMMA DummyFacts ==
  ASSUME input \in Graphs, GivenOK, RanksOK, CutOK, NEW e \in Given, NEW u \in Between(e)
  PROVE  u \in nodes \ Nodes /\ u.rank \in Nat /\ rank[u] = u.rank /\ u = Dummy(e, rank[u])
<1>1. PICK r \in (rank[e[1]] + 1) .. (rank[e[2]] - 1) : u = Dummy(e, r)
  BY DEF Between
<1>2. r \in Nat /\ e \in Nodes \X Nodes
  BY GivenFacts
<1>3. u \notin Nodes /\ u.rank = r
  BY <1>1, <1>2, MadeUp
<1> QED
  BY <1>1, <1>2, <1>3 DEF CutOK

LEMMA RanksAreNat ==
  ASSUME input \in Graphs, GivenOK, RanksOK, CutOK, SelfDummies = {}
  PROVE  \A n \in nodes : rank[n] \in Nat
<1>1. nodes = input.nodes \cup UNION {Between(e) : e \in Given}
  BY DEF CutOK
<1> QED
  BY <1>1, DummyFacts DEF RanksOK

LEMMA LastAndFront ==
  ASSUME NEW S, NEW q \in Seq(S), q # <<>>
  PROVE  Last(q) \in S /\ Front(q) \in Seq(S)
BY DEF Last, Front

LEMMA PlacesNode ==
  ASSUME DrawInv, PlaceNode
  PROVE  RowsOK'
<1>1. /\ input \in Graphs /\ GivenOK /\ RanksOK /\ CutOK /\ SelfDummies = {} /\ RowsOK
      /\ IsFiniteSet(nodes)
  BY DEF DrawInv, PlaceNode
<1>2. PICK n : n = Last(work)
  OBVIOUS
<1>3. n \in nodes /\ Front(work) \in Seq(nodes) /\ UNCHANGED <<nodes, rank>>
  BY <1>1, <1>2, LastAndFront DEF RowsOK, PlaceNode
<1>4. PICK m \in Nat : DOMAIN layers = 0 .. m /\ \A k \in nodes : rank[k] <= m
  BY <1>1 DEF RowsOK
<1>5. rank[n] \in DOMAIN layers
  BY <1>1, <1>3, <1>4, RanksAreNat
<1>6. CASE n \in visited
  BY <1>1, <1>2, <1>3, <1>6 DEF PlaceNode, RowsOK
<1>7. CASE n \notin visited
  <2>1. /\ visited' = visited \cup {n}
        /\ layers' = [layers EXCEPT ![rank[n]] = Append(@, n)]
        /\ \E succ \in SetToSeqs(Succ(n)) : work' = Front(work) \o succ
    BY <1>2, <1>7 DEF PlaceNode
  <2>2. work' \in Seq(nodes)
    <3>1. PICK succ \in SetToSeqs(Succ(n)) : work' = Front(work) \o succ
      BY <2>1
    <3>2. Succ(n) \subseteq nodes
      BY DEF Succ
    <3>3. Cardinality(Succ(n)) \in Nat
      BY <1>1, <3>2, FS_Subset, FS_CardinalityType
    <3>4. succ \in [1 .. Cardinality(Succ(n)) -> Succ(n)]
      BY DEF SetToSeqs
    <3>5. succ \in Seq(nodes)
      BY <3>2, <3>3, <3>4
    <3> QED
      BY <1>3, <3>1, <3>5
  <2>3. /\ DOMAIN layers' = DOMAIN layers
        /\ layers'[rank[n]] = Append(layers[rank[n]], n)
        /\ \A q \in DOMAIN layers : q # rank[n] => layers'[q] = layers[q]
    BY <1>5, <2>1
  <2>4. ASSUME NEW r \in DOMAIN layers'
        PROVE  /\ layers'[r] \in Seq(nodes)
               /\ \A i, j \in DOMAIN layers'[r] : layers'[r][i] = layers'[r][j] => i = j
               /\ \A k : k \in visited' /\ rank[k] = r
                           <=> \E i \in DOMAIN layers'[r] : layers'[r][i] = k
    <3>0. /\ layers[r] \in Seq(nodes)
          /\ \A i, j \in DOMAIN layers[r] : layers[r][i] = layers[r][j] => i = j
          /\ \A k : k \in visited /\ rank[k] = r <=> \E i \in DOMAIN layers[r] : layers[r][i] = k
      BY <1>1, <2>3 DEF RowsOK
    <3>1. CASE r # rank[n]
      BY <2>1, <2>3, <3>0, <3>1
    <3>2. CASE r = rank[n]
      <4>1. PICK row, new : row = layers[r] /\ new = layers'[r]
        OBVIOUS
      <4>2. row \in Seq(nodes) /\ new = Append(row, n)
        BY <2>3, <3>0, <3>2, <4>1
      <4>3. /\ new \in Seq(nodes) /\ DOMAIN new = DOMAIN row \cup {Len(row) + 1}
            /\ new[Len(row) + 1] = n /\ \A i \in DOMAIN row : new[i] = row[i]
            /\ Len(row) + 1 \notin DOMAIN row
        BY <1>3, <4>2
      <4>4. \A i \in DOMAIN row : row[i] # n
        BY <1>7, <3>0, <4>1
      <4>5. \A i, j \in DOMAIN new : new[i] = new[j] => i = j
        BY <3>0, <4>1, <4>3, <4>4
      <4>6. \A k : k \in visited' /\ rank[k] = r <=> \E i \in DOMAIN new : new[i] = k
        BY <2>1, <3>0, <3>2, <4>1, <4>3
      <4> QED
        BY <4>1, <4>3, <4>5, <4>6
    <3> QED
      BY <3>1, <3>2
  <2>5. visited' \subseteq nodes
    BY <1>1, <1>3, <2>1 DEF RowsOK
  <2> QED
    BY <1>3, <1>4, <2>2, <2>3, <2>4, <2>5 DEF RowsOK
<1> QED
  BY <1>6, <1>7

LEMMA AssignsOrder ==
  ASSUME DrawInv, AssignOrder
  PROVE  OrderOK'
<1>1. /\ input \in Graphs /\ GivenOK /\ RanksOK /\ CutOK /\ SelfDummies = {} /\ RowsOK
  BY DEF DrawInv, AssignOrder
<1>2. /\ visited = nodes /\ UNCHANGED <<visited, nodes, layers, rank>>
      /\ order' = [n \in nodes |-> (CHOOSE i \in DOMAIN layers[rank[n]] :
                                      layers[rank[n]][i] = n) - 1]
  BY <1>1 DEF AssignOrder, vars, RowsOK
<1>3. ASSUME NEW n \in nodes
      PROVE  /\ order'[n] \in Nat /\ order'[n] + 1 \in DOMAIN layers[rank[n]]
             /\ layers[rank[n]][order'[n] + 1] = n
  <2>1. rank[n] \in DOMAIN layers
    <3>1. PICK m \in Nat : DOMAIN layers = 0 .. m /\ \A k \in nodes : rank[k] <= m
      BY <1>1 DEF RowsOK
    <3> QED
      BY <1>1, <3>1, RanksAreNat
  <2>2. \E i \in DOMAIN layers[rank[n]] : layers[rank[n]][i] = n
    BY <1>1, <1>2, <2>1 DEF RowsOK
  <2>3. PICK i : i = CHOOSE k \in DOMAIN layers[rank[n]] : layers[rank[n]][k] = n
    OBVIOUS
  <2>4. i \in DOMAIN layers[rank[n]] /\ layers[rank[n]][i] = n
    BY <2>2, <2>3
  <2>5. i \in Nat \ {0}
    BY <1>1, <2>1, <2>4 DEF RowsOK
  <2>6. order'[n] = i - 1
    BY <1>2, <2>3, Zenon
  <2>7. i - 1 \in Nat /\ i - 1 + 1 = i
    BY <2>5
  <2> QED
    BY <2>4, <2>6, <2>7
<1> QED
  BY <1>2, <1>3 DEF OrderOK

LEMMA OrderDraws == ASSUME DrawInv, StartOrder \/ PlaceNode \/ AssignOrder PROVE DrawInv'
<1>1. /\ UNCHANGED <<input, nodes, edges, loops, rank, chains>>
      /\ stage = "order" /\ stage' \in {"order", "loops"}
  BY DEF StartOrder, PlaceNode, AssignOrder, vars
<1>2. /\ input \in Graphs /\ loops \subseteq Nodes /\ GivenOK /\ RanksOK /\ CutOK
      /\ SelfDummies = {} /\ RowsOK /\ IsFiniteSet(nodes)
  BY <1>1 DEF DrawInv
<1>3. GivenOK' /\ RanksOK' /\ CutOK' /\ SelfDummies' = {}
  BY <1>1, <1>2, GraphFrame
<1>4. CASE StartOrder
  <2>1. RowsOK'
    <3>1. PICK n \in nodes : work' = <<n>>
      BY <1>4 DEF StartOrder
    <3>2. UNCHANGED <<visited, layers>>
      BY <1>4 DEF StartOrder, vars
    <3> QED
      BY <1>1, <1>2, <3>1, <3>2 DEF RowsOK
  <2>2. stage' = "order"
    BY <1>4 DEF StartOrder
  <2> QED
    BY <1>1, <1>2, <1>3, <2>1, <2>2 DEF DrawInv
<1>5. CASE PlaceNode
  <2>1. RowsOK' /\ stage' = "order"
    BY <1>5, PlacesNode DEF PlaceNode
  <2> QED
    BY <1>1, <1>2, <1>3, <2>1 DEF DrawInv
<1>6. CASE AssignOrder
  <2>1. RowsOK'
    BY <1>1, <1>2, <1>6 DEF AssignOrder, vars, RowsOK
  <2>2. OrderOK' /\ stage' = "loops"
    BY <1>6, AssignsOrder DEF AssignOrder
  <2> QED
    BY <1>1, <1>2, <1>3, <2>1, <2>2 DEF DrawInv
<1> QED
  BY <1>4, <1>5, <1>6

-----------------------------------------------------------------------------
(* The layers.                                                             *)

LEMMA EdgesAreLinks ==
  ASSUME input \in Graphs, GivenOK, RanksOK, CutOK, NEW l \in DOMAIN edges
  PROVE  rank[l[1]] \in Nat /\ rank[l[2]] = rank[l[1]] + 1
<1>1. PICK e \in Given : l \in Links(e)
  BY DEF CutOK
<1> DEFINE low == rank[e[1]]
           high == rank[e[2]]
<1>2. e \in Nodes \X Nodes /\ low \in Nat /\ high \in Nat /\ low < high
  BY GivenFacts
<1>3. /\ Links(e) = {<<AtLayer(e, r), AtLayer(e, r + 1)>> : r \in low .. high - 1}
      /\ AtLayer(e, low) = e[1] /\ AtLayer(e, high) = e[2]
      /\ \A r \in low + 1 .. high - 1 : AtLayer(e, r) = Dummy(e, r)
  BY <1>2, LinksAre
<1>4. ASSUME NEW r \in low .. high PROVE rank[AtLayer(e, r)] = r
  <2>1. CASE r \in low + 1 .. high - 1
    <3>1. AtLayer(e, r) = Dummy(e, r) /\ Dummy(e, r) \in Between(e) /\ r \in Int
      BY <1>3, <2>1 DEF Between
    <3>2. Dummy(e, r).rank = r
      BY DEF Dummy
    <3> QED
      BY <3>1, <3>2, DummyFacts
  <2>2. r = low \/ r = high \/ r \in low + 1 .. high - 1
    BY <1>2
  <2> QED
    BY <1>3, <2>1, <2>2
<1> HIDE DEF low, high
<1>5. PICK r \in low .. high - 1 : l = <<AtLayer(e, r), AtLayer(e, r + 1)>>
  BY <1>1, <1>3
<1>6. r \in low .. high /\ r + 1 \in low .. high /\ r \in Nat
  BY <1>2 DEF low, high
<1> QED
  BY <1>4, <1>5, <1>6

LEMMA LayersFromInv == DrawInv => LayersExact
<1> SUFFICES ASSUME DrawInv, stage = "loops"
             PROVE  /\ \A e \in DOMAIN edges : rank[e[2]] = rank[e[1]] + 1
                    /\ \A r \in DOMAIN layers :
                         LET row == {n \in nodes : rank[n] = r}
                         IN {order[n] : n \in row} = 0 .. (Cardinality(row) - 1)
  BY DEF LayersExact
<1>1. input \in Graphs /\ GivenOK /\ RanksOK /\ CutOK /\ RowsOK /\ OrderOK
  BY DEF DrawInv
<1>2. \A e \in DOMAIN edges : rank[e[2]] = rank[e[1]] + 1
  BY <1>1, EdgesAreLinks
<1>3. ASSUME NEW r \in DOMAIN layers, NEW row, row = {n \in nodes : rank[n] = r}
      PROVE  {order[n] : n \in row} = 0 .. (Cardinality(row) - 1)
  <2>1. PICK s : s = layers[r]
    OBVIOUS
  <2>2. /\ s \in Seq(nodes) /\ \A i, j \in DOMAIN s : s[i] = s[j] => i = j
        /\ \A n : n \in row <=> \E i \in DOMAIN s : s[i] = n
    BY <1>1, <1>3, <2>1 DEF RowsOK, OrderOK
  <2>3. Len(s) \in Nat /\ DOMAIN s = 1 .. Len(s)
    BY <2>2
  <2>4. Cardinality(row) = Len(s)
    <3>1. s \in Bijection(1 .. Len(s), row)
      BY <2>2, <2>3 DEF Bijection, Injection, IsInjective, Surjection
    <3>2. ExistsBijection(1 .. Len(s), row)
      BY <3>1 DEF ExistsBijection
    <3> QED
      BY <2>3, <3>2, FS_CountingElements
  <2>5. \A n \in row : order[n] \in Nat /\ order[n] + 1 \in DOMAIN s /\ s[order[n] + 1] = n
    BY <1>1, <1>3, <2>1 DEF OrderOK
  <2>6. \A i \in DOMAIN s : s[i] \in row /\ order[s[i]] + 1 = i
    BY <2>2, <2>5
  <2>7. \A k \in 0 .. Len(s) - 1 : \E n \in row : order[n] = k
    <3> SUFFICES ASSUME NEW k \in 0 .. Len(s) - 1 PROVE \E n \in row : order[n] = k
      OBVIOUS
    <3>1. k + 1 \in DOMAIN s /\ k \in Nat
      BY <2>3
    <3>2. s[k + 1] \in row /\ order[s[k + 1]] + 1 = k + 1 /\ order[s[k + 1]] \in Nat
      BY <2>5, <2>6, <3>1
    <3> QED
      BY <3>1, <3>2
  <2>8. \A n \in row : order[n] \in 0 .. Len(s) - 1
    BY <2>3, <2>5
  <2> QED
    BY <2>3, <2>4, <2>7, <2>8
<1> QED
  BY <1>2, <1>3

-----------------------------------------------------------------------------
(* insert_self_edges and position_self_edges.                              *)

(* The cut graph is the same if only dummies of self-edges come or go.     *)
LEMMA SelfDummiesFrame ==
  ASSUME input \in Graphs, GivenOK, RanksOK, CutOK,
         UNCHANGED <<input, edges, loops, chains>>,
         nodes \subseteq nodes', \A n \in nodes : rank'[n] = rank[n],
         nodes' \ SelfDummies' = nodes \ SelfDummies
  PROVE  GivenOK' /\ RanksOK' /\ CutOK'
<1>1. EdgeDummies' = EdgeDummies
  BY DEF EdgeDummies
<1>2. Given' = Given
  BY <1>1 DEF Given
<1>3. \A e \in Given : /\ rank'[e[1]] = rank[e[1]] /\ rank'[e[2]] = rank[e[2]]
                       /\ rank[e[1]] < rank[e[2]]
  BY GivenFacts
<1>4. Long' = Long
  BY <1>2, <1>3 DEF Long
<1>5. \A e \in Given : Links(e)' = Links(e) /\ Between(e)' = Between(e)
  BY <1>3 DEF Links, Between
<1>6. UNION {Links(e)' : e \in Given} = UNION {Links(e) : e \in Given}
      /\ UNION {Between(e)' : e \in Given} = UNION {Between(e) : e \in Given}
  BY <1>5
<1>7. GivenOK'
  BY <1>2, <1>3 DEF GivenOK, Back
<1>8. RanksOK'
  BY DEF RanksOK
<1>9. CutOK'
  <2>1. \A e \in Given : \A u \in Between(e)' : rank'[u] = u.rank
    BY <1>5, DummyFacts
  <2>2. Long \subseteq Given
    BY DEF Long
  <2>3. {Dummy(e, rank'[e[1]] + 1) : e \in Long} = {Dummy(e, rank[e[1]] + 1) : e \in Long}
    BY <1>3, <2>2
  <2> QED
    BY <1>2, <1>4, <1>6, <2>1, <2>3 DEF CutOK
<1> QED
  BY <1>7, <1>8, <1>9

LEMMA LeadIs ==
  ASSUME NEW r, layers[r] \in Seq(nodes)
  PROVE  /\ Lead(r) \in 0 .. Len(layers[r])
         /\ \A i \in 1 .. Lead(r) : layers[r][i] \in loops
         /\ \A k \in 0 .. Len(layers[r]) :
              (\A i \in 1 .. k : layers[r][i] \in loops) => k <= Lead(r)
<1> DEFINE S == {k \in 0 .. Len(layers[r]) : \A i \in 1 .. k : layers[r][i] \in loops}
<1>1. Len(layers[r]) \in Nat
  OBVIOUS
<1>2. IsFiniteSet(S)
  <2>1. IsFiniteSet(0 .. Len(layers[r]))
    BY <1>1, FS_Interval
  <2>2. S \subseteq 0 .. Len(layers[r])
    OBVIOUS
  <2> HIDE DEF S
  <2> QED
    BY <2>1, <2>2, FS_Subset
<1>3. S \subseteq Int /\ 0 \in S
  BY <1>1
<1>4. Max(S) \in S /\ \A k \in S : k <= Max(S)
  <2> HIDE DEF S
  <2> QED
    BY <1>2, <1>3, LargestOf
<1>5. Lead(r) = Max(S)
  BY DEF Lead
<1>6. Lead(r) \in S /\ \A k \in S : k <= Lead(r)
  <2> HIDE DEF S
  <2> QED
    BY <1>4, <1>5
<1> QED
  BY <1>6

(* A node of the model with a self-edge is moved just if the first one is. *)
LEMMA MovedFirst ==
  ASSUME DrawInv, stage = "loops"
  PROVE  (\E n \in nodes : Moved(n) /\ n \in loops) <=> FirstHasLoop
<1>1. /\ input \in Graphs /\ loops \subseteq Nodes /\ GivenOK /\ RanksOK /\ CutOK
      /\ SelfDummies = {} /\ RowsOK /\ OrderOK
  BY DEF DrawInv
<1>2. PICK m \in Nat : DOMAIN layers = 0 .. m /\ \A k \in nodes : rank[k] <= m
  BY <1>1 DEF RowsOK
<1>3. \A n \in nodes : rank[n] \in Nat /\ order[n] \in Nat /\ layers[rank[n]][order[n] + 1] = n
                       /\ order[n] + 1 \in DOMAIN layers[rank[n]]
  BY <1>1, RanksAreNat DEF OrderOK
<1>4. /\ 0 \in DOMAIN layers /\ layers[0] \in Seq(nodes)
      /\ \A i, j \in DOMAIN layers[0] : layers[0][i] = layers[0][j] => i = j
      /\ \A n : n \in nodes /\ rank[n] = 0 <=> \E i \in DOMAIN layers[0] : layers[0][i] = n
  BY <1>1, <1>2 DEF RowsOK, OrderOK
<1>5. /\ Lead(0) \in 0 .. Len(layers[0]) /\ \A i \in 1 .. Lead(0) : layers[0][i] \in loops
  BY <1>4, LeadIs
<1>6. ASSUME FirstHasLoop PROVE \E n \in nodes : Moved(n) /\ n \in loops
  <2>1. PICK n : n = layers[0][1]
    OBVIOUS
  <2>2. 1 \in DOMAIN layers[0] /\ n \in loops /\ n \in nodes /\ rank[n] = 0
    BY <1>4, <1>6, <2>1 DEF FirstHasLoop
  <2>3. order[n] + 1 = 1 /\ order[n] = 0
    BY <1>3, <1>4, <2>1, <2>2
  <2>4. 0 \in Reached
    BY <1>2, <1>4 DEF Reached
  <2>5. order[n] <= Lead(0)
    BY <1>4, <1>5, <2>3
  <2> QED
    BY <2>2, <2>4, <2>5 DEF Moved
<1>7. ASSUME ~ FirstHasLoop, NEW n \in nodes, Moved(n), n \in loops PROVE FALSE
  <2>1. n \in input.nodes
    <3>1. \A e \in Given : \A u \in Between(e) : u \notin Nodes
      BY <1>1, DummyFacts
    <3> QED
      BY <1>1, <1>7, <3>1 DEF CutOK
  <2>2. layers[0] # <<>>
    <3>1. PICK k \in nodes : rank[k] = 0
      BY <1>1, <2>1 DEF RanksOK
    <3> QED
      BY <1>4, <3>1
  <2>3. layers[0][1] \notin loops /\ Len(layers[0]) \in Nat \ {0}
    BY <1>4, <1>7, <2>2 DEF FirstHasLoop
  <2>4. Lead(0) = 0
    BY <1>5, <2>3
  <2>5. rank[n] = 0
    <3>1. rank[n] \in Nat /\ rank[n] \in Reached /\ (0 < rank[n] => Lead(0) = Len(layers[0]))
      BY <1>3, <1>4, <1>7 DEF Moved, Reached
    <3> QED
      BY <2>3, <2>4, <3>1
  <2>6. order[n] = 0
    BY <1>3, <1>7, <2>4, <2>5 DEF Moved
  <2> QED
    BY <1>3, <1>7, <2>3, <2>5, <2>6
<1> QED
  BY <1>6, <1>7

LEMMA InsertDraws == ASSUME DrawInv, InsertSelfEdges PROVE DrawInv'
<1>1. /\ input \in Graphs /\ loops \subseteq Nodes /\ GivenOK /\ RanksOK /\ CutOK
      /\ SelfDummies = {} /\ stage = "loops"
  BY DEF DrawInv, InsertSelfEdges
<1>2. PICK added : added = {SelfDummy(n) : n \in {m \in nodes : Moved(m) /\ m \in loops}}
  OBVIOUS
<1>3. /\ nodes' = nodes \cup added
      /\ rank' = [n \in nodes' |-> IF n \in added THEN rank[n.loop] ELSE rank[n]]
      /\ UNCHANGED <<input, edges, loops, chains, layers>> /\ stage' = "position"
  BY <1>2 DEF InsertSelfEdges
<1>4. nodes \cap added = {}
  BY <1>1, <1>2 DEF SelfDummies
<1>5. SelfDummies' = added
  BY <1>1, <1>2, <1>3 DEF SelfDummies
<1>6. GivenOK' /\ RanksOK' /\ CutOK'
  BY <1>1, <1>3, <1>4, <1>5, SelfDummiesFrame
<1>7. LoopsOK'
  <2>1. FirstHasLoop' = FirstHasLoop
    BY <1>3 DEF FirstHasLoop
  <2>2. added # {} <=> FirstHasLoop
    BY <1>1, <1>2, MovedFirst
  <2> QED
    BY <1>5, <2>1, <2>2 DEF LoopsOK
<1> QED
  BY <1>1, <1>3, <1>6, <1>7 DEF DrawInv

LEMMA PositionDraws == ASSUME DrawInv, PositionSelfEdges PROVE DrawInv'
<1>1. /\ input \in Graphs /\ loops \subseteq Nodes /\ GivenOK /\ RanksOK /\ CutOK /\ LoopsOK
      /\ stage = "position"
  BY DEF DrawInv, PositionSelfEdges
<1>2. {d \in SelfDummies : <<d.loop, d.loop>> \in DOMAIN edges} = {}
  <2> SUFFICES ASSUME NEW d \in SelfDummies, <<d.loop, d.loop>> \in DOMAIN edges PROVE FALSE
    OBVIOUS
  <2>1. rank[d.loop] \in Nat /\ rank[d.loop] = rank[d.loop] + 1
    BY <1>1, EdgesAreLinks
  <2> QED
    BY <2>1
<1>3. /\ nodes' = nodes /\ rank' = [n \in nodes |-> rank[n]]
      /\ UNCHANGED <<input, edges, loops, chains, layers>> /\ stage' = "denormalize"
  BY <1>2 DEF PositionSelfEdges
<1>4. SelfDummies' = SelfDummies
  BY <1>3 DEF SelfDummies
<1>5. GivenOK' /\ RanksOK' /\ CutOK'
  BY <1>1, <1>3, <1>4, SelfDummiesFrame
<1>6. LoopsOK'
  BY <1>1, <1>3, <1>4 DEF LoopsOK, FirstHasLoop
<1> QED
  BY <1>1, <1>3, <1>5, <1>6 DEF DrawInv
-----------------------------------------------------------------------------
(* denormalize.                                                            *)

(* The dummies of edge e from layer r on.                                  *)
Rest(e, r) == [i \in 1 .. rank[e[2]] - r |-> Dummy(e, r + i - 1)]

LEMMA RestOf ==
  ASSUME NEW e, NEW r \in Int, rank[e[2]] \in Int, r < rank[e[2]]
  PROVE  Rest(e, r) = <<Dummy(e, r)>> \o Rest(e, r + 1)
<1> DEFINE high == rank[e[2]]
           S == {Dummy(e, q) : q \in Int}
<1>1. /\ Rest(e, r) = [i \in 1 .. high - r |-> Dummy(e, r + i - 1)]
      /\ Rest(e, r + 1) = [i \in 1 .. high - (r + 1) |-> Dummy(e, r + 1 + i - 1)]
  BY DEF Rest
<1>2. high - r \in Nat /\ high - (r + 1) \in Nat /\ high - r = high - (r + 1) + 1
  OBVIOUS
<1>3. \A i \in Int : Dummy(e, r + i - 1) \in S /\ Dummy(e, r + 1 + i - 1) \in S
  OBVIOUS
<1>4. Dummy(e, r) \in S
  OBVIOUS
<1> HIDE DEF high, S
<1>5. Rest(e, r) \in Seq(S) /\ Rest(e, r + 1) \in Seq(S)
      /\ Len(Rest(e, r)) = high - r /\ Len(Rest(e, r + 1)) = high - (r + 1)
  <2>1. \A h \in Nat : \A w : w \in [1 .. h -> S] => w \in Seq(S) /\ Len(w) = h
    OBVIOUS
  <2>2. Rest(e, r) \in [1 .. high - r -> S]
    <3>1. \A i \in 1 .. high - r : Dummy(e, r + i - 1) \in S
      BY <1>3
    <3> QED
      BY <1>1, <3>1
  <2>3. Rest(e, r + 1) \in [1 .. high - (r + 1) -> S]
    <3>1. \A i \in 1 .. high - (r + 1) : Dummy(e, r + 1 + i - 1) \in S
      <4>1. \A i \in 1 .. high - (r + 1) : r + 1 + i - 1 \in Int
        OBVIOUS
      <4> QED
        BY <4>1 DEF S
    <3> QED
      BY <1>1, <3>1
  <2> QED
    BY <1>2, <2>1, <2>2, <2>3
<1>6. PICK u : u = <<Dummy(e, r)>> \o Rest(e, r + 1)
  OBVIOUS
<1>7. /\ u \in Seq(S) /\ Len(u) = high - r /\ u[1] = Dummy(e, r)
      /\ \A i \in 2 .. high - r : u[i] = Rest(e, r + 1)[i - 1]
  BY <1>2, <1>4, <1>5, <1>6
<1>8. ASSUME NEW i \in 1 .. high - r PROVE u[i] = Dummy(e, r + i - 1)
  <2>1. CASE i = 1
    <3>1. r + i - 1 = r
      BY <2>1
    <3> QED
      BY <1>7, <2>1, <3>1
  <2>2. CASE i # 1
    <3>1. i \in 2 .. high - r /\ i - 1 \in 1 .. high - (r + 1) /\ r + 1 + (i - 1) - 1 = r + i - 1
      BY <1>2, <2>2
    <3> QED
      BY <1>1, <1>7, <3>1
  <2> QED
    BY <2>1, <2>2
<1>9. u = [i \in 1 .. high - r |-> Dummy(e, r + i - 1)]
  BY <1>2, <1>7, <1>8
<1> QED
  BY <1>1, <1>6, <1>9

LEMMA RestIsDone ==
  ASSUME NEW e, rank[e[2]] \in Int
  PROVE  Rest(e, rank[e[2]]) = <<>>
BY DEF Rest

(* A dummy leads to what its edge passes in the next layer.                *)
LEMMA AfterDummy ==
  ASSUME input \in Graphs, GivenOK, RanksOK, CutOK, NEW e \in Given,
         NEW r \in (rank[e[1]] + 1) .. (rank[e[2]] - 1)
  PROVE  Succ(Dummy(e, r)) = {AtLayer(e, r + 1)} /\ AtLayer(e, r + 1) \in nodes
<1>1. /\ e \in Nodes \X Nodes /\ e[2] \in nodes
      /\ rank[e[1]] \in Nat /\ rank[e[2]] \in Nat /\ rank[e[1]] < rank[e[2]]
  BY GivenFacts
<1>2. r \in Nat /\ r \in rank[e[1]] .. rank[e[2]] - 1
  BY <1>1
<1>3. /\ Links(e) = {<<AtLayer(e, q), AtLayer(e, q + 1)>> : q \in rank[e[1]] .. rank[e[2]] - 1}
      /\ AtLayer(e, rank[e[2]]) = e[2]
      /\ \A q \in rank[e[1]] + 1 .. rank[e[2]] - 1 : AtLayer(e, q) = Dummy(e, q)
  BY <1>1, LinksAre
<1>4. ASSUME NEW m \in Succ(Dummy(e, r)) PROVE m = AtLayer(e, r + 1)
  <2>1. PICK f \in Given : <<Dummy(e, r), m>> \in Links(f)
    BY DEF Succ, CutOK
  <2>2. /\ f \in Nodes \X Nodes /\ rank[f[1]] \in Nat /\ rank[f[2]] \in Nat
        /\ rank[f[1]] < rank[f[2]]
    BY GivenFacts
  <2>3. /\ Links(f) = {<<AtLayer(f, q), AtLayer(f, q + 1)>> : q \in rank[f[1]] .. rank[f[2]] - 1}
        /\ AtLayer(f, rank[f[1]]) = f[1]
        /\ \A q \in rank[f[1]] + 1 .. rank[f[2]] - 1 : AtLayer(f, q) = Dummy(f, q)
    BY <2>2, LinksAre
  <2>4. PICK s \in rank[f[1]] .. rank[f[2]] - 1 :
               <<Dummy(e, r), m>> = <<AtLayer(f, s), AtLayer(f, s + 1)>>
    BY <2>1, <2>3
  <2>5. s # rank[f[1]]
    BY <1>1, <1>2, <2>2, <2>3, <2>4, MadeUp
  <2>6. s \in rank[f[1]] + 1 .. rank[f[2]] - 1
    BY <2>2, <2>5
  <2>7. Dummy(e, r) = Dummy(f, s)
    BY <2>3, <2>4, <2>6
  <2>8. f = e /\ s = r
    BY <2>7 DEF Dummy
  <2> QED
    BY <2>4, <2>8
<1>5. AtLayer(e, r + 1) \in nodes
  <2>1. CASE r + 1 = rank[e[2]]
    BY <1>1, <1>3, <2>1
  <2>2. CASE r + 1 # rank[e[2]]
    <3>1. r + 1 \in rank[e[1]] + 1 .. rank[e[2]] - 1
      BY <1>1, <1>2, <2>2
    <3>2. AtLayer(e, r + 1) \in Between(e)
      BY <1>3, <3>1 DEF Between
    <3> QED
      BY <3>2, DummyFacts
  <2> QED
    BY <2>1, <2>2
<1>6. <<Dummy(e, r), AtLayer(e, r + 1)>> \in DOMAIN edges
  <2>1. <<AtLayer(e, r), AtLayer(e, r + 1)>> \in Links(e) /\ AtLayer(e, r) = Dummy(e, r)
    BY <1>2, <1>3
  <2> QED
    BY <2>1 DEF CutOK
<1> QED
  BY <1>4, <1>5, <1>6 DEF Succ

(* What is in the cut graph.                                               *)
LEMMA NodesOfCut ==
  ASSUME input \in Graphs, CutOK, NEW n \in nodes \ SelfDummies, n \notin Nodes
  PROVE  \E e \in Given : \E r \in (rank[e[1]] + 1) .. (rank[e[2]] - 1) : n = Dummy(e, r)
BY LayoutRankConstantsOK DEF CutOK, Between

LEMMA ChainExists ==
  ASSUME input \in Graphs, GivenOK, RanksOK, CutOK
  PROVE  \E f : f = [n \in nodes \ SelfDummies |->
                       IF n \in Nodes THEN <<>> ELSE <<n>> \o f[CHOOSE m \in Succ(n) : TRUE]]
<1> DEFINE D == nodes \ SelfDummies
           f == [n \in D |-> IF n \in Nodes THEN <<>> ELSE Rest(n.edge, n.rank)]
<1>1. ASSUME NEW n \in D, n \notin Nodes
      PROVE  f[n] = <<n>> \o f[CHOOSE m \in Succ(n) : TRUE]
  <2>1. PICK e \in Given : \E r \in (rank[e[1]] + 1) .. (rank[e[2]] - 1) : n = Dummy(e, r)
    BY <1>1, NodesOfCut
  <2>2. PICK r \in (rank[e[1]] + 1) .. (rank[e[2]] - 1) : n = Dummy(e, r)
    BY <2>1
  <2>3. /\ e \in Nodes \X Nodes /\ rank[e[1]] \in Nat /\ rank[e[2]] \in Nat
        /\ rank[e[1]] < rank[e[2]]
    BY GivenFacts
  <2>4. r \in Int /\ r < rank[e[2]] /\ n.edge = e /\ n.rank = r
    BY <2>2, <2>3 DEF Dummy
  <2>5. f[n] = <<n>> \o Rest(e, r + 1)
    BY <1>1, <2>2, <2>3, <2>4, RestOf
  <2>6. PICK m : m = AtLayer(e, r + 1)
    OBVIOUS
  <2>7. Succ(n) = {m} /\ m \in nodes
    BY <2>2, <2>6, AfterDummy
  <2>8. (CHOOSE k \in Succ(n) : TRUE) = m
    BY <2>7
  <2>9. m \in D /\ f[m] = Rest(e, r + 1)
    <3>1. CASE r + 1 = rank[e[2]]
      <4>1. m = e[2] /\ m \in Nodes
        BY <2>3, <2>6, <3>1, LinksAre
      <4>2. Rest(e, r + 1) = <<>>
        BY <2>3, <3>1, RestIsDone
      <4>3. \A k \in loops : k \in Nodes => m # SelfDummy(k)
        BY <4>1, MadeUp
      <4>4. m \notin SelfDummies
        <5>1. m \in input.nodes
          BY <4>1 DEF GivenOK
        <5> QED
          BY <5>1 DEF CutOK
      <4> QED
        BY <2>7, <4>1, <4>2, <4>4
    <3>2. CASE r + 1 # rank[e[2]]
      <4>1. r + 1 \in (rank[e[1]] + 1) .. (rank[e[2]] - 1)
        BY <2>3, <3>2
      <4>2. m = Dummy(e, r + 1) /\ m \notin Nodes
        BY <2>3, <2>6, <4>1, LinksAre
      <4>3. m \notin SelfDummies
        BY <4>2, MadeUp DEF SelfDummies
      <4>4. m.edge = e /\ m.rank = r + 1
        BY <4>2 DEF Dummy
      <4> QED
        BY <2>7, <4>2, <4>3, <4>4
    <3> QED
      BY <3>1, <3>2
  <2> HIDE DEF f
  <2> QED
    BY <2>5, <2>8, <2>9
<1>2. \A n \in D : n \in Nodes => f[n] = <<>>
  OBVIOUS
<1>3. f = [n \in D |-> f[n]]
  OBVIOUS
<1>4. f = [n \in D |-> IF n \in Nodes THEN <<>> ELSE <<n>> \o f[CHOOSE m \in Succ(n) : TRUE]]
  <2> HIDE DEF f, D
  <2> QED
    BY <1>1, <1>2, <1>3
<1> QED
  BY <1>4, Zenon

LEMMA ChainOf ==
  ASSUME input \in Graphs, GivenOK, RanksOK, CutOK, NEW e \in Given,
         NEW r \in (rank[e[1]] + 1) .. (rank[e[2]] - 1)
  PROVE  Chain[Dummy(e, r)] = Rest(e, r)
<1> DEFINE low == rank[e[1]]
           high == rank[e[2]]
           D == nodes \ SelfDummies
           S == {k \in 0 .. high - low - 2 :
                   Chain[Dummy(e, high - 1 - k)] = Rest(e, high - 1 - k)}
<1>1. /\ e \in Nodes \X Nodes /\ low \in Nat /\ high \in Nat /\ low < high
      /\ e[2] \in input.nodes /\ e[2] \in Nodes
  BY GivenFacts DEF GivenOK
<1>2. Chain = [n \in D |-> IF n \in Nodes THEN <<>>
                           ELSE <<n>> \o Chain[CHOOSE m \in Succ(n) : TRUE]]
  <2>1. Chain = CHOOSE f : f = [n \in D |-> IF n \in Nodes THEN <<>>
                                            ELSE <<n>> \o f[CHOOSE m \in Succ(n) : TRUE]]
    BY DEF Chain
  <2> QED
    BY <2>1, ChainExists, Zenon
<1>3. /\ AtLayer(e, high) = e[2]
      /\ \A q \in low + 1 .. high - 1 : AtLayer(e, q) = Dummy(e, q) /\ Dummy(e, q) \notin Nodes
                                        /\ Dummy(e, q) \in D
  <2>1. /\ AtLayer(e, high) = e[2]
        /\ \A q \in low + 1 .. high - 1 : AtLayer(e, q) = Dummy(e, q) /\ AtLayer(e, q) \notin Nodes
    BY <1>1, LinksAre
  <2>2. \A q \in low + 1 .. high - 1 : Dummy(e, q) \in Between(e)
    BY DEF Between
  <2>3. \A q \in low + 1 .. high - 1 : Dummy(e, q) \in nodes
    BY <2>2, DummyFacts
  <2>4. \A q : Dummy(e, q) \notin SelfDummies
    BY MadeUp DEF SelfDummies
  <2> QED
    BY <2>1, <2>3, <2>4
<1>4. Chain[e[2]] = <<>>
  <2>1. e[2] \in D
    BY <1>1 DEF CutOK
  <2> QED
    BY <1>1, <1>2, <2>1
<1>5. ASSUME NEW q \in low + 1 .. high - 1
      PROVE  Chain[Dummy(e, q)] = <<Dummy(e, q)>> \o Chain[AtLayer(e, q + 1)]
  <2>1. Succ(Dummy(e, q)) = {AtLayer(e, q + 1)}
    BY AfterDummy
  <2>2. (CHOOSE m \in Succ(Dummy(e, q)) : TRUE) = AtLayer(e, q + 1)
    BY <2>1
  <2> HIDE DEF D
  <2> QED
    BY <1>2, <1>3, <2>2
<1>6. \A q \in low + 1 .. high - 1 : Rest(e, q) = <<Dummy(e, q)>> \o Rest(e, q + 1)
  BY <1>1, RestOf
<1>7. Rest(e, high) = <<>>
  BY <1>1, RestIsDone
<1>8. r \in Nat /\ high - low - 2 \in Nat /\ high - 1 - r \in 0 .. high - low - 2
      /\ high - 1 - (high - 1 - r) = r
  BY <1>1
<1> HIDE DEF low, high, D
<1>9. 0 \in S
  <2>1. high - 1 \in low + 1 .. high - 1 /\ high - 1 + 1 = high /\ high - 1 - 0 = high - 1
        /\ 0 \in 0 .. high - low - 2
    BY <1>1, <1>8
  <2>2. Chain[Dummy(e, high - 1)] = Rest(e, high - 1)
    BY <1>3, <1>4, <1>5, <1>6, <1>7, <2>1
  <2> QED
    BY <2>1, <2>2
<1>10. ASSUME NEW k \in 0 .. high - low - 2 - 1, k \in S PROVE k + 1 \in S
  <2>1. PICK q : q = high - 1 - (k + 1)
    OBVIOUS
  <2>2. /\ q \in low + 1 .. high - 1 /\ q + 1 \in low + 1 .. high - 1 /\ q + 1 = high - 1 - k
        /\ k + 1 \in 0 .. high - low - 2
    BY <1>1, <1>8, <2>1
  <2>3. Chain[Dummy(e, q + 1)] = Rest(e, q + 1)
    BY <1>10, <2>2
  <2>4. Chain[Dummy(e, q)] = Rest(e, q)
    BY <1>3, <1>5, <1>6, <2>2, <2>3
  <2> QED
    BY <2>1, <2>2, <2>4
<1>11. high - 1 - r \in S
  <2> HIDE DEF S
  <2>1. 0 .. high - low - 2 \subseteq S
    BY <1>8, <1>9, <1>10, CountingUp
  <2> QED
    BY <1>8, <2>1
<1> QED
  BY <1>8, <1>11

LEMMA DenormalizeDraws == ASSUME DrawInv, Denormalize PROVE DrawInv'
<1>1. /\ input \in Graphs /\ loops \subseteq Nodes /\ GivenOK /\ RanksOK /\ CutOK /\ LoopsOK
      /\ stage = "denormalize"
  BY DEF DrawInv, Denormalize
<1>2. PICK gone : gone = UNION {Range(Chain[c]) : c \in chains}
  OBVIOUS
<1>3. PICK kept : kept = {e \in DOMAIN edges : {e[1], e[2]} \cap gone = {}}
  OBVIOUS
<1>4. /\ nodes' = nodes \ gone
      /\ rank' = [n \in nodes' |-> rank[n]]
      /\ edges' = [e \in kept \cup EdgeDummies |-> IF e \in kept THEN edges[e] ELSE FreshLabel]
      /\ points' = [e \in EdgeDummies |->
                      [i \in DOMAIN Chain[CHOOSE c \in chains : c.edge = e] |->
                         rank[Chain[CHOOSE c \in chains : c.edge = e][i]]]]
      /\ UNCHANGED <<input, loops, chains, layers>> /\ stage' = "output"
  BY <1>2, <1>3 DEF Denormalize
<1>5. \A e \in Given : /\ e \in Nodes \X Nodes /\ rank[e[1]] \in Nat /\ rank[e[2]] \in Nat
                       /\ rank[e[1]] < rank[e[2]]
  BY <1>1, GivenFacts
<1>6. ASSUME NEW e \in Long
      PROVE  /\ e \in Given /\ Chain[Dummy(e, rank[e[1]] + 1)] = Rest(e, rank[e[1]] + 1)
             /\ Range(Rest(e, rank[e[1]] + 1)) = Between(e)
  <2>1. e \in Given /\ rank[e[2]] > rank[e[1]] + 1
    BY DEF Long
  <2>2. rank[e[1]] + 1 \in (rank[e[1]] + 1) .. (rank[e[2]] - 1)
    BY <1>5, <2>1
  <2>3. Chain[Dummy(e, rank[e[1]] + 1)] = Rest(e, rank[e[1]] + 1)
    BY <1>1, <2>1, <2>2, ChainOf
  <2>4. Range(Rest(e, rank[e[1]] + 1)) = Between(e)
    <3>1. PICK low, high : low = rank[e[1]] /\ high = rank[e[2]]
      OBVIOUS
    <3>2. low \in Nat /\ high \in Nat /\ low < high
      BY <1>5, <2>1, <3>1
    <3>3. Rest(e, low + 1) = [i \in 1 .. high - (low + 1) |-> Dummy(e, low + 1 + i - 1)]
      BY <3>1 DEF Rest
    <3>4. Between(e) = {Dummy(e, q) : q \in low + 1 .. high - 1}
      BY <3>1 DEF Between
    <3>5. \A i \in 1 .. high - (low + 1) : low + 1 + i - 1 \in low + 1 .. high - 1
      BY <3>2
    <3>6. \A q \in low + 1 .. high - 1 :
            q - low \in 1 .. high - (low + 1) /\ low + 1 + (q - low) - 1 = q
      BY <3>2
    <3>7. Range(Rest(e, low + 1)) = {Dummy(e, low + 1 + i - 1) : i \in 1 .. high - (low + 1)}
      BY <3>3 DEF Range
    <3> QED
      BY <3>1, <3>4, <3>5, <3>6, <3>7
  <2> QED
    BY <2>1, <2>3, <2>4
<1>7. gone = UNION {Between(e) : e \in Given}
  <2>1. \A u : u \in gone <=> \E e \in Long : u \in Between(e)
    BY <1>1, <1>2, <1>6 DEF CutOK
  <2>2. ASSUME NEW e \in Given, NEW u \in Between(e) PROVE e \in Long
    <3>1. PICK q \in rank[e[1]] + 1 .. rank[e[2]] - 1 : TRUE
      BY <2>2 DEF Between
    <3>2. rank[e[2]] > rank[e[1]] + 1
      BY <1>5, <3>1
    <3> QED
      BY <3>2 DEF Long
  <2> QED
    BY <1>6, <2>1, <2>2
<1>8. /\ \A u \in gone : u \notin Nodes /\ u \notin SelfDummies
  <2> SUFFICES ASSUME NEW u \in gone PROVE u \notin Nodes /\ u \notin SelfDummies
    OBVIOUS
  <2>1. PICK e \in Given : u \in Between(e)
    BY <1>7
  <2> QED
    BY <1>1, <2>1, DummyFacts, MadeUp DEF SelfDummies
<1>9. nodes' \ SelfDummies' = input.nodes /\ SelfDummies' = SelfDummies
  <2>1. SelfDummies' = SelfDummies
    BY <1>4, <1>8 DEF SelfDummies
  <2>2. input.nodes \cap gone = {} /\ nodes \ SelfDummies = input.nodes \cup gone
    BY <1>1, <1>7, <1>8, LayoutRankConstantsOK DEF CutOK
  <2> QED
    BY <1>4, <1>8, <2>1, <2>2
<1>10. kept = DOMAIN edges \cap (Nodes \X Nodes)
  <2> SUFFICES ASSUME NEW l \in DOMAIN edges
               PROVE  {l[1], l[2]} \cap gone = {} <=> l \in Nodes \X Nodes
    BY <1>3
  <2>1. PICK e \in Given : l \in Links(e)
    BY <1>1 DEF CutOK
  <2>2. PICK low, high : low = rank[e[1]] /\ high = rank[e[2]]
    OBVIOUS
  <2>3. low \in Nat /\ high \in Nat /\ low < high /\ e[1] \in Nodes /\ e[2] \in Nodes
    BY <1>5, <2>2
  <2>4. /\ Links(e) = {<<AtLayer(e, q), AtLayer(e, q + 1)>> : q \in low .. high - 1}
        /\ AtLayer(e, low) = e[1] /\ AtLayer(e, high) = e[2]
        /\ \A q \in low + 1 .. high - 1 : AtLayer(e, q) = Dummy(e, q)
    BY <1>5, <2>2, LinksAre
  <2>5. \A q \in low .. high : AtLayer(e, q) \in Nodes \/ AtLayer(e, q) \in gone
    <3>1. \A q \in low + 1 .. high - 1 : Dummy(e, q) \in Between(e)
      BY <2>2 DEF Between
    <3>2. \A q \in low .. high : q = low \/ q = high \/ q \in low + 1 .. high - 1
      BY <2>3
    <3> QED
      BY <1>7, <2>3, <2>4, <3>1, <3>2
  <2>6. PICK q \in low .. high - 1 : l = <<AtLayer(e, q), AtLayer(e, q + 1)>>
    BY <2>1, <2>4
  <2>7. q \in low .. high /\ q + 1 \in low .. high
    BY <2>3
  <2> QED
    BY <1>8, <2>5, <2>6, <2>7
<1>11. DOMAIN edges' = Given /\ Given' = Given
  <2>1. EdgeDummies' = EdgeDummies
    BY <1>4 DEF EdgeDummies
  <2>2. DOMAIN edges' = Given
    BY <1>4, <1>10 DEF Given
  <2>3. Given \subseteq Nodes \X Nodes
    BY <1>5
  <2> QED
    BY <2>1, <2>2, <2>3 DEF Given
<1>12. \A n \in input.nodes : n \in nodes' /\ rank'[n] = rank[n]
  BY <1>4, <1>9
<1>13. \A e \in Given : e[1] \in input.nodes /\ e[2] \in input.nodes
                        /\ rank'[e[1]] = rank[e[1]] /\ rank'[e[2]] = rank[e[2]]
  BY <1>1, <1>12 DEF GivenOK
<1>14. GivenOK'
  <2>1. \A e \in DOMAIN edges' : edges'[e] = FreshLabel
    BY <1>1, <1>3, <1>4 DEF GivenOK
  <2> QED
    BY <1>1, <1>4, <1>11, <1>13, <2>1 DEF GivenOK, Back
<1>15. RanksOK'
  BY <1>1, <1>4, <1>12 DEF RanksOK
<1>16. LoopsOK'
  BY <1>1, <1>4, <1>9 DEF LoopsOK, FirstHasLoop
<1>17. EdgeDummies = Long /\ EdgeDummies' = EdgeDummies /\ Long' = Long
  <2>1. EdgeDummies = Long
    <3>1. \A e, r : Dummy(e, r).edge = e
      BY DEF Dummy
    <3> QED
      BY <1>1, <3>1 DEF EdgeDummies, CutOK
  <2>2. Long' = Long
    BY <1>11, <1>13 DEF Long
  <2> QED
    BY <1>4, <2>1, <2>2 DEF EdgeDummies
<1>18. points' = [e \in EdgeDummies' |->
                    [i \in 1 .. rank'[e[2]] - rank'[e[1]] - 1 |-> rank'[e[1]] + i]]
  <2>1. ASSUME NEW e \in Long
        PROVE  [i \in DOMAIN Chain[CHOOSE c \in chains : c.edge = e] |->
                  rank[Chain[CHOOSE c \in chains : c.edge = e][i]]]
                 = [i \in 1 .. rank'[e[2]] - rank'[e[1]] - 1 |-> rank'[e[1]] + i]
    <3>1. PICK low, high : low = rank[e[1]] /\ high = rank[e[2]]
      OBVIOUS
    <3>2. low \in Nat /\ high \in Nat /\ low < high /\ rank'[e[1]] = low /\ rank'[e[2]] = high
      BY <1>5, <1>6, <1>13, <3>1
    <3>3. (CHOOSE c \in chains : c.edge = e) = Dummy(e, low + 1)
      <4>1. \A f, r : Dummy(f, r).edge = f
        BY DEF Dummy
      <4>2. Dummy(e, low + 1) \in chains
        BY <1>1, <3>1 DEF CutOK
      <4>3. \A c \in chains : c.edge = e => c = Dummy(e, low + 1)
        BY <1>1, <3>1, <4>1 DEF CutOK
      <4> QED
        BY <4>1, <4>2, <4>3
    <3>4. PICK path : path = Rest(e, low + 1)
      OBVIOUS
    <3>5. Chain[CHOOSE c \in chains : c.edge = e] = path
      BY <1>6, <3>1, <3>3, <3>4
    <3>6. path = [i \in 1 .. high - (low + 1) |-> Dummy(e, low + 1 + i - 1)]
      BY <3>1, <3>4 DEF Rest
    <3>7. ASSUME NEW i \in 1 .. high - low - 1 PROVE rank[Dummy(e, low + i)] = low + i
      <4>1. low + i \in low + 1 .. high - 1
        BY <3>2
      <4>2. Dummy(e, low + i) \in Between(e)
        BY <3>1, <4>1 DEF Between
      <4>3. Dummy(e, low + i).rank = low + i
        BY DEF Dummy
      <4> QED
        BY <1>1, <1>6, <4>2, <4>3, DummyFacts
    <3>8. high - (low + 1) = high - low - 1 /\ \A i \in Int : low + 1 + i - 1 = low + i
      BY <3>2
    <3>9. DOMAIN path = 1 .. high - low - 1 /\ \A i \in DOMAIN path : path[i] = Dummy(e, low + i)
      BY <3>6, <3>8
    <3>10. [i \in DOMAIN path |-> rank[path[i]]] = [i \in 1 .. high - low - 1 |-> low + i]
      BY <3>7, <3>9
    <3> QED
      BY <3>2, <3>5, <3>10
  <2>2. points' = [e \in Long |->
                     [i \in DOMAIN Chain[CHOOSE c \in chains : c.edge = e] |->
                        rank[Chain[CHOOSE c \in chains : c.edge = e][i]]]]
    BY <1>4, <1>17
  <2>3. points' = [e \in Long |-> [i \in 1 .. rank'[e[2]] - rank'[e[1]] - 1 |-> rank'[e[1]] + i]]
    BY <2>1, <2>2, Zenon
  <2> QED
    BY <1>17, <2>3
<1> QED
  BY <1>1, <1>4, <1>9, <1>11, <1>14, <1>15, <1>16, <1>17, <1>18 DEF DrawInv

-----------------------------------------------------------------------------
(* What parse_layout reads.                                                *)

LEMMA OutputDraws == ASSUME DrawInv, Output PROVE DrawInv'
<1>1. /\ input \in Graphs /\ loops \subseteq Nodes /\ GivenOK /\ RanksOK /\ LoopsOK
      /\ stage = "output" /\ nodes \ SelfDummies = input.nodes /\ DOMAIN edges = Given
      /\ points = [e \in EdgeDummies |->
                     [i \in 1 .. rank[e[2]] - rank[e[1]] - 1 |-> rank[e[1]] + i]]
      /\ EdgeDummies = Long
  BY DEF DrawInv, Output
<1>2. PICK flipped : flipped = {<<e[2], e[1]>> : e \in {f \in DOMAIN edges : edges[f].reversed}}
  OBVIOUS
<1>3. flipped = {}
  BY <1>1, <1>2 DEF GivenOK, FreshLabel
<1>4. /\ edges' = [e \in DOMAIN edges \cup flipped |->
                     IF e \in flipped THEN FreshLabel ELSE edges[e]]
      /\ points' = [e \in DOMAIN edges' |->
                      IF e \in flipped THEN Reverse(Drawn(<<e[2], e[1]>>))
                      ELSE IF edges[e].reversed THEN Reverse(Drawn(e)) ELSE Drawn(e)]
      /\ stage' = (IF nodes \subseteq Nodes THEN "done" ELSE "failed")
      /\ UNCHANGED <<input, nodes, loops, rank, chains, layers>>
  BY <1>2 DEF Output
<1>5. DOMAIN edges' = DOMAIN edges /\ \A e \in DOMAIN edges : edges'[e] = edges[e]
  BY <1>3, <1>4
<1>6. /\ EdgeDummies' = EdgeDummies /\ SelfDummies' = SelfDummies
  BY <1>4 DEF EdgeDummies, SelfDummies
<1>7. Given' = Given
  BY <1>5, <1>6 DEF Given
<1>8. GivenOK' /\ RanksOK' /\ LoopsOK'
  BY <1>1, <1>4, <1>5, <1>6, <1>7 DEF GivenOK, RanksOK, LoopsOK, FirstHasLoop
<1>9. ASSUME NEW e \in DOMAIN edges
      PROVE  points'[e] = [i \in 1 .. rank[e[2]] - rank[e[1]] + 1 |-> rank[e[1]] + i - 1]
  <2>1. PICK low, high : low = rank[e[1]] /\ high = rank[e[2]]
    OBVIOUS
  <2>2. low \in Nat /\ high \in Nat /\ low < high
    BY <1>1, <2>1 DEF GivenOK, RanksOK
  <2>3. points'[e] = Drawn(e)
    <3>1. ~ edges[e].reversed
      BY <1>1 DEF GivenOK, FreshLabel
    <3> QED
      BY <1>3, <1>4, <1>5, <3>1
  <2>4. PICK path : path = IF e \in DOMAIN points THEN points[e] ELSE <<>>
    OBVIOUS
  <2>5. path = [i \in 1 .. high - low - 1 |-> low + i]
    <3>1. CASE e \in DOMAIN points
      BY <1>1, <2>1, <2>4, <3>1
    <3>2. CASE e \notin DOMAIN points
      <4>1. e \notin Long /\ path = <<>>
        BY <1>1, <2>4, <3>2
      <4>2. high - low - 1 = 0
        BY <1>1, <2>1, <2>2, <4>1 DEF Long
      <4> QED
        BY <4>1, <4>2
    <3> QED
      BY <3>1, <3>2
  <2>6. path \in Seq(Int) /\ Len(path) = high - low - 1
    <3>1. high - low - 1 \in Nat /\ path \in [1 .. high - low - 1 -> Int]
      BY <2>2, <2>5
    <3> QED
      BY <3>1
  <2>7. Drawn(e) = <<low>> \o path \o <<high>>
    BY <2>1, <2>4 DEF Drawn
  <2>8. PICK u : u = <<low>> \o path \o <<high>>
    OBVIOUS
  <2>9. /\ u \in Seq(Int) /\ Len(u) = high - low + 1 /\ u[1] = low /\ u[high - low + 1] = high
        /\ \A i \in 2 .. high - low : u[i] = path[i - 1]
    <3>1. PICK v : v = <<low>> \o path
      OBVIOUS
    <3>2. /\ v \in Seq(Int) /\ Len(v) = high - low /\ v[1] = low
          /\ \A i \in 2 .. high - low : v[i] = path[i - 1]
      BY <2>2, <2>6, <3>1
    <3>3. u = v \o <<high>>
      BY <2>8, <3>1
    <3>4. /\ u \in Seq(Int) /\ Len(u) = high - low + 1 /\ u[high - low + 1] = high
          /\ \A i \in 1 .. high - low : u[i] = v[i]
      <4>1. PICK n : n = high - low
        OBVIOUS
      <4>2. v \in Seq(Int) /\ Len(v) = n /\ n \in Nat /\ high \in Int
        BY <2>2, <3>2, <4>1
      <4>3. u \in Seq(Int) /\ Len(u) = n + 1 /\ u[n + 1] = high /\ \A i \in 1 .. n : u[i] = v[i]
        BY <3>3, <4>2
      <4> QED
        BY <4>1, <4>3
    <3>5. 1 \in 1 .. high - low /\ \A i \in 2 .. high - low : i \in 1 .. high - low
      BY <2>2
    <3> QED
      BY <3>2, <3>4, <3>5
  <2>10. ASSUME NEW i \in 1 .. high - low + 1 PROVE u[i] = low + i - 1
    <3>1. CASE i = 1
      BY <2>2, <2>9, <3>1
    <3>2. CASE i = high - low + 1
      BY <2>2, <2>9, <3>2
    <3>3. CASE i \in 2 .. high - low
      <4>1. i - 1 \in 1 .. high - low - 1 /\ low + (i - 1) = low + i - 1
        BY <2>2, <3>3
      <4> QED
        BY <2>5, <2>9, <3>3, <4>1
    <3> QED
      BY <2>2, <3>1, <3>2, <3>3
  <2>11. u = [i \in 1 .. high - low + 1 |-> low + i - 1]
    <3>1. DOMAIN u = 1 .. high - low + 1 /\ u = [i \in DOMAIN u |-> u[i]]
      BY <2>9
    <3> QED
      BY <2>10, <3>1
  <2> QED
    BY <2>1, <2>3, <2>7, <2>8, <2>11
<1>10. DrawnOK'
  BY <1>4, <1>5, <1>9 DEF DrawnOK
<1> QED
  BY <1>1, <1>4, <1>5, <1>6, <1>7, <1>8, <1>10 DEF DrawInv

LEMMA DrawStep == ASSUME DrawInv, [DrawNext]_allVars PROVE DrawInv'
<1>1. CASE UNCHANGED allVars
  <2>1. /\ UNCHANGED <<input, nodes, edges, loops, rank, chains>>
        /\ UNCHANGED <<stage, work, layers, visited, order, points>>
    BY <1>1 DEF allVars, vars, drawVars
  <2>2. EdgeDummies' = EdgeDummies /\ SelfDummies' = SelfDummies
    BY <2>1 DEF EdgeDummies, SelfDummies
  <2>3. Given' = Given
    BY <2>1, <2>2 DEF Given
  <2>4. Long' = Long
    BY <2>1, <2>3 DEF Long
  <2>5. (GivenOK => GivenOK') /\ (RanksOK => RanksOK') /\ (CutOK => CutOK')
    BY <2>1, GraphFrame
  <2>6. (RowsOK => RowsOK') /\ (OrderOK => OrderOK') /\ (LoopsOK => LoopsOK') /\ (DrawnOK => DrawnOK')
    BY <2>1, <2>2 DEF RowsOK, OrderOK, LoopsOK, FirstHasLoop, DrawnOK
  <2>7. RankDone => RankDone'
    BY <1>1, RankDoneStep DEF allVars
  <2> QED
    BY <2>1, <2>2, <2>3, <2>4, <2>5, <2>6, <2>7 DEF DrawInv
<1> QED
  BY <1>1, RankDraws, NormalizeDraws, OrderDraws, InsertDraws, PositionDraws, DenormalizeDraws,
     OutputDraws DEF DrawNext

LEMMA DrawInvHolds == Spec => []DrawInv
BY InitDraws, DrawStep, PTL DEF Spec

-----------------------------------------------------------------------------
(* The ranks.                                                              *)

RanksKept == stage # "rank" => pc = "ranked" /\ DOMAIN rank = nodes

LEMMA RanksKeptStep == ASSUME RanksKept, [DrawNext]_allVars PROVE RanksKept'
<1>1. CASE RankStep
  BY <1>1 DEF RankStep, drawVars, RanksKept
<1>2. CASE Normalize
  BY <1>2 DEF Normalize, RanksKept
<1>3. CASE InsertSelfEdges \/ PositionSelfEdges \/ Denormalize
  BY <1>3 DEF InsertSelfEdges, PositionSelfEdges, Denormalize, RanksKept
<1>4. CASE StartOrder \/ PlaceNode \/ AssignOrder \/ Output \/ UNCHANGED allVars
  BY <1>4 DEF StartOrder, PlaceNode, AssignOrder, Output, allVars, vars, drawVars, RanksKept
<1> QED
  BY <1>1, <1>2, <1>3, <1>4 DEF DrawNext

LEMMA FeasibleFromInv == DrawInv /\ RanksKept => RanksFeasible
<1> SUFFICES ASSUME DrawInv, RanksKept PROVE RanksFeasible
  OBVIOUS
<1>1. CASE stage = "rank"
  BY <1>1 DEF DrawInv, RankDone, IInv
<1>2. CASE stage # "rank"
  <2>1. /\ input \in Graphs /\ GivenOK /\ RanksOK /\ DOMAIN rank = nodes
        /\ CutOK \/ DOMAIN edges = Given
    BY <1>2 DEF DrawInv, RanksKept
  <2>2. ASSUME NEW e \in DOMAIN edges PROVE Slack(e) >= 0
    <3>1. edges[e].minlen = 1
      BY <2>1, <2>2 DEF GivenOK, FreshLabel
    <3>2. CASE CutOK
      <4>1. rank[e[1]] \in Nat /\ rank[e[2]] = rank[e[1]] + 1
        BY <2>1, <2>2, <3>2, EdgesAreLinks
      <4> QED
        BY <3>1, <4>1 DEF Slack
    <3>3. CASE DOMAIN edges = Given
      <4>1. rank[e[1]] \in Nat /\ rank[e[2]] \in Nat /\ rank[e[1]] < rank[e[2]]
        BY <2>1, <2>2, <3>3, GivenFacts
      <4> QED
        BY <3>1, <4>1 DEF Slack
    <3> QED
      BY <2>1, <3>2, <3>3
  <2> QED
    BY <2>1, <2>2 DEF RanksFeasible
<1> QED
  BY <1>1, <1>2

LEMMA PanicFromInv == IInv => PanicMeansCycle
<1> SUFFICES ASSUME IInv PROVE PanicMeansCycle
  OBVIOUS
<1>1. pc = "panicked" => HasCycle
  BY DEF IInv, PanicOK
<1>2. ASSUME pc = "tree" PROVE ~HasCycle
  <2>1. DOMAIN rank = nodes
    BY <1>2 DEF IInv, RanksFeasible
  <2>2. \A S \in SUBSET nodes :
          S # {} => \E n \in S : \A m \in S : <<n, m>> \notin DOMAIN edges
    BY <1>2, <2>1 DEF IInv, NoRankedCycle
  <2> QED
    BY <2>2 DEF HasCycle
<1> QED
  BY <1>1, <1>2 DEF PanicMeansCycle

LEMMA RanksKeptHolds == Spec => []RanksKept
<1>1. DrawInit => RanksKept
  BY DEF DrawInit, RanksKept
<1> QED
  BY <1>1, RanksKeptStep, PTL DEF Spec

-----------------------------------------------------------------------------
(* The theorems.                                                           *)

(* Layers: when init_order and order are done, every edge that normalize   *)
(* left joins neighbouring layers, and the nodes of a layer have the       *)
(* orders 0, 1, ... once each, in whatever order the tables were walked.   *)
THEOREM LayersAreExact == Spec => []LayersExact
BY DrawInvHolds, LayersFromInv, PTL

LEMMA NodesFromInv == DrawInv => NodesComeBack
<1> SUFFICES ASSUME DrawInv, stage \in {"done", "failed"}
             PROVE  /\ nodes \cap Nodes = input.nodes
                    /\ stage = "failed" => loops # {}
  BY DEF NodesComeBack
<1>1. /\ input \in Graphs /\ loops \subseteq Nodes /\ DrawnOK
      /\ nodes \ SelfDummies = input.nodes
  BY DEF DrawInv
<1>2. input.nodes \subseteq Nodes
  BY <1>1, LayoutRankConstantsOK
<1>3. SelfDummies \cap Nodes = {}
  BY <1>1, MadeUp DEF SelfDummies
<1>4. nodes \cap Nodes = input.nodes /\ nodes \ Nodes \subseteq SelfDummies
  BY <1>1, <1>2, <1>3
<1>5. SelfDummies # {} => loops # {}
  BY DEF SelfDummies
<1> QED
  BY <1>1, <1>4, <1>5 DEF DrawnOK

(* Nodes: whatever the ranks, denormalize takes out every dummy that       *)
(* normalize put in and no node of the model, so that layout_model can     *)
(* fail on the dummy of a self-edge only.                                  *)
THEOREM NodesComeThrough == Spec => []NodesComeBack
BY DrawInvHolds, NodesFromInv, PTL

LEMMA DrawnFromInv == DrawInv => EdgesDrawn
<1> SUFFICES ASSUME DrawInv, stage \in {"done", "failed"} PROVE EdgesDrawn
  BY DEF EdgesDrawn
<1>1. GivenOK /\ RanksOK /\ DrawnOK /\ DOMAIN edges = Given /\ input \in Graphs
  BY DEF DrawInv
<1>2. \A e \in DOMAIN edges : rank[e[1]] < rank[e[2]] /\ e[1] \in input.nodes
                              /\ rank[e[1]] \in Nat
  BY <1>1 DEF GivenOK, RanksOK
<1>3. \A e \in DOMAIN edges : e[1] # e[2]
  BY <1>2
<1>4. \A e \in DOMAIN edges :
        \E d \in input.edges : d[1] # d[2] /\ {d[1], d[2]} = {e[1], e[2]}
  BY <1>1, <1>3 DEF GivenOK, Back
<1>5. \A d \in input.edges :
        d[1] # d[2] => \E e \in DOMAIN edges : {d[1], d[2]} = {e[1], e[2]}
  BY <1>1 DEF GivenOK, Back
<1>6. {{e[1], e[2]} : e \in DOMAIN edges}
        = {{e[1], e[2]} : e \in {d \in input.edges : d[1] # d[2]}}
  <2>1. ASSUME NEW e \in DOMAIN edges
        PROVE  {e[1], e[2]} \in {{d[1], d[2]} : d \in {d \in input.edges : d[1] # d[2]}}
    <3>1. PICK d \in input.edges : d[1] # d[2] /\ {d[1], d[2]} = {e[1], e[2]}
      BY <1>4
    <3> QED
      BY <3>1
  <2>2. ASSUME NEW d \in input.edges, d[1] # d[2]
        PROVE  {d[1], d[2]} \in {{e[1], e[2]} : e \in DOMAIN edges}
    <3>1. PICK e \in DOMAIN edges : {d[1], d[2]} = {e[1], e[2]}
      BY <1>5, <2>2
    <3> QED
      BY <3>1
  <2> QED
    BY <2>1, <2>2
<1> QED
  BY <1>1, <1>2, <1>6 DEF EdgesDrawn, DrawnOK

(* Edges: what normalize cuts denormalize puts together again, whatever    *)
(* the ranks: no pair of nodes is parted or newly joined, and each edge    *)
(* points down and has one point in every layer from its source to its     *)
(* target.                                                                 *)
THEOREM EdgesComeBack == Spec => []EdgesDrawn
BY DrawInvHolds, DrawnFromInv, PTL

(* Ranks: longest_path gives every node a rank that respects every minlen; *)
(* no shift of the tree breaks that, nor the clean-up, nor any pass after  *)
(* it that cuts edges, adds dummies or takes them away.                    *)
THEOREM RanksAreFeasible == Spec => []RanksFeasible
BY DrawInvHolds, RanksKeptHolds, FeasibleFromInv, PTL

(* Tight tree: whatever order the tables are walked in, what feasible_tree *)
(* has gathered is held together by edges without slack.                   *)
THEOREM TreeStaysTight == Spec => []TreeIsTight
<1>1. DrawInv /\ RanksKept => TreeIsTight
  <2>1. IInv => TreeIsTight
    BY DEF IInv
  <2>2. pc # "tree" => TreeIsTight
    BY DEF TreeIsTight
  <2> QED
    BY <2>1, <2>2 DEF DrawInv, RankDone, RanksKept
<1> QED
  BY DrawInvHolds, RanksKeptHolds, <1>1, PTL

(* Cycles: the unwrap in longest_path fails on a cyclic graph only, and a  *)
(* graph that gets its ranks has no cycle, however large it is.            *)
THEOREM CyclesPanic == Spec => []PanicMeansCycle
<1>1. DrawInv /\ RanksKept => PanicMeansCycle
  <2>1. pc = "ranked" => PanicMeansCycle
    BY DEF PanicMeansCycle
  <2> QED
    BY <2>1, PanicFromInv DEF DrawInv, RankDone, RanksKept
<1> QED
  BY DrawInvHolds, RanksKeptHolds, <1>1, PTL

=============================================================================
