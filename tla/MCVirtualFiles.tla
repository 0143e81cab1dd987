--------------------------- MODULE MCVirtualFiles ---------------------------
(***************************************************************************)
(* An instance of VirtualFiles for TLC: a log with two tags and a batch    *)
(* size, a file with one, and virtual files, without a name and with the   *)
(* path of the second file.                                                *)
(***************************************************************************)
EXTENDS VirtualFiles

MCTagsOf  == [p \in Paths |-> IF p = "a" THEN {"loss", "norm"} ELSE {"loss"}]
MCBatchOf == [p \in Paths |-> IF p = "a" THEN 4 ELSE Unset]

Item(f, b) == [file |-> f, batch |-> b, length |-> 2]

(* A list that cannot be parsed, and one that names the log and what is at *)
(* the moment the other file, a virtual file or nothing.                   *)
MCTokenLists == {<<>>, <<Item("a", 1), Item("b", 1)>>}

=============================================================================
