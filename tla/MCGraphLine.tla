------------------------------ MODULE MCGraphLine -----------------------------
(***************************************************************************)
(* An instance of GraphLine for TLC: up to three files, each with some     *)
(* steps of 0 .. 3 in a row or with a hole, and coefficients of 1/2 and    *)
(* 3/2.                                                                    *)
(***************************************************************************)
EXTENDS GraphLine

MCFileData ==
  LET Run(first, last) == [n \in 1 .. last - first + 1 |-> first + n - 1]
  IN {Run(bounds[1], bounds[2]) : bounds \in {b \in (0 .. 3) \X (0 .. 3) : b[1] <= b[2]}}
       \cup {<<0, 2, 3>>}

=============================================================================
