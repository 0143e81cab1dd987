------------------------------ MODULE GraphLine -------------------------------
(***************************************************************************)
(* How one line of a graph is computed from the files it is drawn from:    *)
(* the views of the files' points between two boundaries (File::GetData,   *)
(* VirtualFile::GetData), their sampling (DataView::GatherElement) and     *)
(* their concatenation (GraphLine::AddLineData), along the step axis or,   *)
(* for a token line, along step * tokenCof.                                *)
(*                                                                         *)
(* A file is the sequence of its points' steps.  Files are numbered in the *)
(* order they were written, which is the order of their wall times.        *)
(***************************************************************************)
EXTENDS Integers, Sequences, FiniteSets

CONSTANTS
  FileData,       \* what a file may hold: sequences of steps
  MaxFiles,       \* bound: the files merged into a virtual file
  MaxBoundary,    \* bound: the boundaries a request asks for are in 0 .. MaxBoundary
  Cofs,           \* GetTokenCof() * CofUnit, for each file
  CofUnit,
  MaxDataCount    \* SampleLineOp::maxDataCount

Ascending(s) == \A m, n \in DOMAIN s : m < n => s[m] < s[n]

ASSUME GraphLineConstantsOK ==
  /\ FileData \subseteq {s \in Seq(Nat) : s # <<>> /\ Ascending(s)}
  /\ MaxFiles \in Nat
  /\ MaxBoundary \in Nat
  /\ Cofs \subseteq Nat \ {0}
  /\ CofUnit \in Nat \ {0}
  /\ MaxDataCount \in Nat \ {0}

VARIABLES
  files,          \* the files' points: data_[tag] of each
  token,          \* whether the line is a token line
  cof,            \* GetTokenCof() of each file, in units of 1 / CofUnit
  left, right,    \* the request's boundaries, steps or tokens
  views,          \* dataView_: [file, lower, upper], the points from lower to upper - 1
  sampled,        \* the positions sampled of each view (DataView::points_)
  added,          \* how many views have been added to the line
  line,           \* srcData_: [file, step]
  pc

vars == <<files, token, cof, left, right, views, sampled, added, line, pc>>

Init ==
  /\ \E n \in 1 .. MaxFiles :
       /\ files \in [1 .. n -> FileData]
       /\ token \in BOOLEAN
       /\ cof \in IF token THEN [1 .. n -> Cofs] ELSE {[f \in 1 .. n |-> CofUnit]}
  /\ left \in 0 .. MaxBoundary
  /\ right \in left .. MaxBoundary
  /\ views = <<>> /\ sampled = <<>> /\ added = 0 /\ line = <<>>
  /\ pc = "getData"

-----------------------------------------------------------------------------
(* File::GetData.                                                           *)

FirstStep(f) == files[f][1]
LastStep(f) == files[f][Len(files[f])]

(* TOKEN_NORMAL: the boundaries are divided by the coefficient, the left    *)
(* one rounded down and the right one up.                                   *)
LeftStep(f) == (left * CofUnit) \div cof[f]

RoundedDown(f) == (right * CofUnit) \div cof[f]   \* mutant: both are rounded down

RightStep(f) == (right * CofUnit + cof[f] - 1) \div cof[f]

(* GetIntersectionRange: with range_, the file's first and last step.       *)
GetIntersectionRange(f) ==
  IF LeftStep(f) > LastStep(f) \/ RightStep(f) < FirstStep(f) THEN {}
  ELSE {<<IF LeftStep(f) > FirstStep(f) THEN LeftStep(f) ELSE FirstStep(f),
          IF RightStep(f) < LastStep(f) THEN RightStep(f) ELSE LastStep(f)>>}

(* GetBoundary: std::lower_bound, std::upper_bound on ascending data.       *)
\* mutant: both bounds are std::lower_bound
LowerBounds(f, l, r) ==
  {b \in (1 .. Len(files[f]) + 1) \X (1 .. Len(files[f]) + 1) :
     \A n \in DOMAIN files[f] :
       (files[f][n] < l <=> n < b[1]) /\ (files[f][n] < r <=> n < b[2])}

GetBoundary(f, l, r) ==
  {b \in (1 .. Len(files[f]) + 1) \X (1 .. Len(files[f]) + 1) :
     \A n \in DOMAIN files[f] :
       (files[f][n] < l <=> n < b[1]) /\ (files[f][n] <= r <=> n < b[2])}

FileViews(f) ==
  UNION {{[file |-> f, lower |-> b[1], upper |-> b[2]] : b \in GetBoundary(f, range[1], range[2])} :
           range \in GetIntersectionRange(f)}

AllViews == UNION {FileViews(f) : f \in DOMAIN files}

(* VirtualFile::GetData sorts the views by the step their lower iterator    *)
(* points to, then by wall time.                                            *)
LowerStep(v) == files[v.file][v.lower]

Before(u, v) ==
  \/ LowerStep(u) < LowerStep(v)
  \/ LowerStep(u) = LowerStep(v) /\ u.file < v.file

GetData ==
  /\ pc = "getData"
  /\ \E vs \in [1 .. Cardinality(AllViews) -> AllViews] :
       /\ \A m, n \in DOMAIN vs : m < n => Before(vs[m], vs[n])
       /\ views' = vs
  /\ pc' = "sample"
  /\ UNCHANGED <<files, token, cof, left, right, sampled, added, line>>

-----------------------------------------------------------------------------
(* SampleLineOp::Process.                                                   *)

Size(v) == v.upper - v.lower

(* std::accumulate over the views.                                          *)
Total == LET sum[n \in 0 .. Len(views)] == IF n = 0 THEN 0 ELSE sum[n - 1] + Size(views[n])
         IN sum[Len(views)]

Step == LET step == Total \div MaxDataCount IN IF step = 0 THEN 1 ELSE step

(* GatherElement on a view of size points, as offsets from its lower end.   *)
(* length_ is one more than size, so the loop goes on until it has passed   *)
(* the end; the last point is added unless the loop has met upper_ exactly. *)
\* mutants: the first point is missed; the end is passed; the last is not added
StartsLate(size, step) == [n \in 1 .. size \div step |-> n * step - 1]
PastTheEnd(size, step) == [n \in 1 .. size \div step + 1 |-> (n - 1) * step]
NeverTheLast(size, step) == [n \in 1 .. (size + step - 1) \div step |-> (n - 1) * step]

GatherElement(size, step) ==
  [n \in 1 .. (size + step - 1) \div step |-> (n - 1) * step]
    \o (IF size % step = 0 THEN <<>> ELSE <<size - 1>>)

Sample ==
  /\ pc = "sample"
  /\ sampled' = [n \in DOMAIN views |-> GatherElement(Size(views[n]), Step)]
  /\ pc' = "add"
  /\ UNCHANGED <<files, token, cof, left, right, views, added, line>>

-----------------------------------------------------------------------------
(* GetLineData and TransViewToData: AddLineData for each view.              *)

TokenStep(f, step) == IF token THEN (step * cof[f]) \div CofUnit ELSE step

Point(v, offset) ==
  [file |-> v.file, step |-> TokenStep(v.file, files[v.file][v.lower + offset])]

Points(n) == [k \in DOMAIN sampled[n] |-> Point(views[n], sampled[n][k])]

(* How much of the line is kept when points that start at step are added.   *)
AllOfIt(step) == {Len(line)}   \* mutant: nothing is erased

\* mutant: std::upper_bound for std::lower_bound
UpToIt(step) ==
  {k \in 0 .. Len(line) : \A n \in DOMAIN line : line[n].step <= step <=> n <= k}

KeptBefore(step) ==
  {k \in 0 .. Len(line) : \A n \in DOMAIN line : line[n].step < step <=> n <= k}

AddLineData ==
  /\ pc = "add"
  /\ added < Len(views)
  /\ IF Points(added + 1) = <<>> THEN UNCHANGED line
     ELSE \E k \in KeptBefore(Points(added + 1)[1].step) :
            line' = SubSeq(line, 1, k) \o Points(added + 1)
  /\ added' = added + 1
  /\ UNCHANGED <<files, token, cof, left, right, views, sampled, pc>>

GetLineData ==
  /\ pc = "add"
  /\ added = Len(views)
  /\ pc' = "done"
  /\ UNCHANGED <<files, token, cof, left, right, views, sampled, added, line>>

-----------------------------------------------------------------------------

Next == GetData \/ Sample \/ AddLineData \/ GetLineData

Spec == Init /\ [][Next]_vars

-----------------------------------------------------------------------------
(* Properties.                                                              *)

FileView == [file : Nat, lower : Nat, upper : Nat]

TypeOK ==
  /\ Len(files) \in 1 .. MaxFiles /\ files \in Seq(FileData)
  /\ token \in BOOLEAN
  /\ cof \in [DOMAIN files -> Nat \ {0}]
  /\ left \in Nat /\ right \in Nat
  /\ views \in Seq(FileView)
  /\ \A n \in DOMAIN views :
       /\ views[n].file \in DOMAIN files
       /\ 1 <= views[n].lower /\ views[n].lower <= views[n].upper
       /\ views[n].upper <= Len(files[views[n].file]) + 1
  /\ sampled \in Seq(Seq(Nat))
  /\ pc \in {"add", "done"} => DOMAIN sampled = DOMAIN views
  /\ \A n \in DOMAIN sampled : \A k \in DOMAIN sampled[n] : sampled[n][k] < Size(views[n])
  /\ added \in 0 .. Len(views)
  /\ line \in Seq([file : Nat, step : Nat])
  /\ pc \in {"getData", "sample", "add", "done"}

(* A view holds the points between the boundaries, both included: GetData   *)
(* leaves no point out and takes none too many.  On a token line the        *)
(* boundaries are converted to steps: nothing inside is left out, nor at    *)
(* the boundaries (at the right one only if no two steps may have the same  *)
(* token), and what is taken in excess is less than one step away.  That is *)
(* not what File.h says of GetData, which is to round a boundary without a  *)
(* point into the range: GetData rounds outwards, so the excess may lie     *)
(* outside the range asked for (step 0 at boundaries 1 and 1, with 3/2).    *)
InView(f, n) == \E m \in DOMAIN views :
  views[m].file = f /\ views[m].lower <= n /\ n < views[m].upper

ViewsMatchRange ==
  pc # "getData" =>
    \A f \in DOMAIN files : \A n \in DOMAIN files[f] :
      LET step == files[f][n]
      IN IF token
         THEN /\ left <= TokenStep(f, step) /\ TokenStep(f, step) < right => InView(f, n)
              /\ TokenStep(f, step) = right /\ cof[f] >= CofUnit => InView(f, n)
              /\ InView(f, n) => /\ (step + 1) * cof[f] > left * CofUnit
                                 /\ (step - 1) * cof[f] < right * CofUnit
         ELSE left <= step /\ step <= right <=> InView(f, n)

(* DataView::GatherElement as it is written: index is the loop's local, and *)
(* remain is length_ less what index has passed.                            *)
Gathered(size, step) ==
  LET last(index) == IF index # size THEN <<size - 1>> ELSE <<>>
      loop[index \in 0 .. size + 1] ==
        LET remain == size + 1 - index
        IN IF remain = 0 \/ index = size THEN last(index)
           ELSE <<index>> \o (IF remain < step THEN last(index) ELSE loop[index + step])
  IN loop[0]

(* What is sampled of each view is what the loop gathers, in its order.     *)
SampleIsGathered ==
  \A n \in DOMAIN sampled : sampled[n] = Gathered(Size(views[n]), Step)

(* Sampling leaves no hole: before every point of a view, less than a step  *)
(* away, there is one that is drawn.  So the first point always is; the     *)
(* last, which SampleLineOp.h says has to be drawn too, is not if the size  *)
(* of the view is a multiple of a step greater than 1.                      *)
SampleIsDense ==
  pc \in {"add", "done"} =>
    \A n \in DOMAIN views : \A k \in 0 .. Size(views[n]) - 1 :
      \E m \in DOMAIN sampled[n] : sampled[n][m] <= k /\ k < sampled[n][m] + Step

(* A line is drawn from left to right, whatever the files overlap and the   *)
(* coefficients they are converted with; AddLineData bisects it.            *)
LineAscending == \A m, n \in DOMAIN line : m < n => line[m].step <= line[n].step

(* "Files added later overwrite the data before": the line is one piece for *)
(* each view added, in their order, and a view's piece is those of its      *)
(* points that no view added later reaches.  end[n] is where the n-th ends. *)
Surviving(n) ==
  {k \in DOMAIN Points(n) :
     \A m \in n + 1 .. added : Points(m) # <<>> => Points(n)[k].step < Points(m)[1].step}

LineIsNewest ==
  \E end \in [0 .. added -> 0 .. Len(line)] :
    /\ end[0] = 0 /\ end[added] = Len(line)
    /\ \A n \in 1 .. added :
         /\ end[n - 1] <= end[n] /\ Surviving(n) = 1 .. end[n] - end[n - 1]
         /\ \A k \in Surviving(n) : line[end[n - 1] + k] = Points(n)[k]

=============================================================================
