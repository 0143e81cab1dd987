------------------------------ MODULE MCLayout ------------------------------
(***************************************************************************)
(* Instances of LayoutDraw for TLC: every directed acyclic graph of four   *)
(* nodes, up to the names of the nodes, and every graph of three nodes,    *)
(* with cycles and up to two self-edges.                                   *)
(***************************************************************************)
EXTENDS LayoutDraw

CONSTANTS a, b, c, d

MCNodes == {a, b, c, d}
Down    == {<<a, b>>, <<a, c>>, <<a, d>>, <<b, c>>, <<b, d>>, <<c, d>>}

MCKeys == MCNodes \cup {Root} \cup {SelfDummy(n) : n \in MCNodes}
            \cup {Dummy(e, r) : e \in MCNodes \X MCNodes, r \in 0..6}

AcyclicGraphs == {[nodes |-> MCNodes, edges |-> E] : E \in SUBSET Down}
SmallGraphs   == {[nodes |-> {a, b, c}, edges |-> E] :
                    E \in SUBSET (({a, b, c} \X {a, b, c}) \ {<<c, c>>})}
MCGraphs      == AcyclicGraphs \cup SmallGraphs

=============================================================================
