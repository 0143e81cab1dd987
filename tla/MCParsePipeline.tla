--------------------------- MODULE MCParsePipeline ---------------------------
(***************************************************************************)
(* Instances of ParsePipeline for TLC.  File "a" has two tags, a record    *)
(* without scalars and more points than one batch holds; file "b" grows    *)
(* from nothing while it is imported; file "c" ends in a record that the   *)
(* parser rejects, file "d" in one on which it throws.                     *)
(***************************************************************************)
EXTENDS ParsePipeline

Scalar(t)  == [kind |-> "scalar", tag |-> t]
Other(k)   == [kind |-> k, tag |-> "loss"]

MCContent ==
  [p \in Paths |->
     CASE p = "a" -> <<Scalar("loss"), Scalar("norm"), Other("skip"), Scalar("loss")>>
       [] p = "b" -> <<Scalar("loss"), Scalar("loss")>>
       [] p = "c" -> <<Scalar("loss"), Other("corrupt"), Scalar("loss")>>
       [] p = "d" -> <<Scalar("norm"), Other("throw")>>
       [] p = "e" -> <<Scalar("loss")>>]

(* Files "b" and "e" are still empty when they are imported.  With records *)
(* of 30 bytes the sizes of "c" and "a" add up to 210, past what an int of *)
(* seven bits holds.                                                       *)
MCSizeAtImport ==
  [p \in Paths |-> IF p \in {"b", "e"} THEN 0 ELSE RecordSize * Len(Content[p])]

(* Overlapping imports, and a path listed twice.                           *)
AppendLists == {<<"a", "b">>, <<"c", "a">>, <<"b", "b">>}

(* Imports that replace one another and come back to the same file.        *)
ReplaceLists == {<<"b">>, <<"c", "b">>}

(* A file of one record, and one with a record on which the parser throws. *)
LiveLists == {<<"e", "d">>}

=============================================================================
