------------------------------ MODULE MCFileData ------------------------------
(***************************************************************************)
(* Instances of FileData for TLC.                                          *)
(***************************************************************************)
EXTENDS FileData

MCValues == <<"one", "one", "two", "nan", "two">>

Median(size) == [algorithm |-> "windowMedian", setting |-> size]

(* A client that keeps its smoothing window, and one that changes it.      *)
OneParam  == {Median(2)}
TwoParams == {Median(2), Median(3)}

=============================================================================
