---------------------------- MODULE FileData_proofs ----------------------------
(***************************************************************************)
(* Proofs about FileData: its types, that the two threads never meet in a  *)
(* vector although no one mutex covers all its uses, and that with one     *)
(* window for all requests the smoothed line is complete and in order.     *)
(***************************************************************************)
EXTENDS FileData, FiniteSetTheorems, SequenceTheorems, TLAPS

(* Where a thread is says which mutexes it holds.                          *)
LocksOK ==
  /\ graphMutext = "worker" <=> workerPc # "idle"
  /\ graphMutext = "http" <=> httpPc \in {"viewNormal", "viewSmoothing"}
  /\ dataMutex = "worker" <=> workerPc = "append"
  /\ dataMutex = "http" <=> httpPc = "sample"
  /\ smootherMutex = "worker" <=> workerPc = "sample"
  /\ smootherMutex = "http" <=> httpPc \in {"updateSmoothing", "sample"}

(* The worker has a point to append from UpdateGraph to AppendPoint.       *)
PointPending == workerPc \in {"data", "append"} => Len(data) < Len(Values)

LockInv == TypeOK /\ LocksOK /\ PointPending

-----------------------------------------------------------------------------
(* What Sample appends are points of the file, and it counts none twice.   *)
LEMMA SampleTypes ==
  ASSUME TypeOK, Sample, data' = data
  PROVE  /\ smoothingData' \in Seq(DOMAIN Values)
         /\ numAccum' \in 0 .. Len(data')
<1>1. CASE ~Sampled
  BY <1>1 DEF Sample, TypeOK
<1>2. CASE Sampled
  <2> DEFINE more == SubSeq(data, numAccum + 1, Len(data))
             span == numAccum + 1 .. Len(data)
             seen == Counted(data, numAccum + 1)
  <2>0. /\ data \in Seq(DOMAIN Values) /\ smoothingData \in Seq(DOMAIN Values)
        /\ numAccum \in 0 .. Len(data) /\ numAccum \in Nat /\ Len(data) \in Nat
    BY DEF TypeOK
  <2>1. smoothingData' = smoothingData \o more /\ numAccum' = numAccum + Cardinality(seen)
    BY <1>2 DEF Sample
  <2>2. more \in Seq(DOMAIN Values)
    <3>1. \A i \in span : data[i] \in DOMAIN Values
      BY <2>0
    <3> QED
      BY <2>0, <3>1, SubSeqProperties
  <2>3. smoothingData' \in Seq(DOMAIN Values)
    BY <2>0, <2>1, <2>2, ConcatProperties
  <2>4. IsFiniteSet(span) /\ Cardinality(span) = Len(data) - numAccum
    <3>1. numAccum + 1 \in Int /\ Len(data) \in Int
      BY <2>0
    <3>2. /\ IsFiniteSet(span)
          /\ Cardinality(span) = IF numAccum + 1 > Len(data) THEN 0
                                 ELSE Len(data) - (numAccum + 1) + 1
      BY <3>1, FS_Interval
    <3> QED
      BY <2>0, <3>2
  <2>5. seen \in SUBSET span
    BY DEF Counted
  <2>6. IsFiniteSet(seen) /\ Cardinality(seen) <= Cardinality(span)
    BY <2>4, <2>5, FS_Subset
  <2>7. Cardinality(seen) \in Nat
    BY <2>6, FS_CardinalityType
  <2> HIDE DEF seen, span, more
  <2> QED
    BY <2>0, <2>1, <2>3, <2>4, <2>6, <2>7
<1> QED
  BY <1>1, <1>2

LEMMA LockInit == Init => LockInv
BY FileDataConstantsOK DEF Init, LockInv, TypeOK, LocksOK, PointPending, Threads, NoView

LEMMA LockStep == LockInv /\ [Next]_vars => LockInv'
<1> SUFFICES ASSUME LockInv, [Next]_vars PROVE LockInv'
  OBVIOUS
<1> USE FileDataConstantsOK
<1> USE DEF LockInv, LocksOK, PointPending, Threads, fileVars, lockVars, httpVars
<1>1. CASE UpdateGraph
  BY <1>1 DEF UpdateGraph, TypeOK
<1>2. CASE LockData
  BY <1>2 DEF LockData, TypeOK
<1>3. CASE AppendPoint
  <2>1. data \in Seq(DOMAIN Values) /\ Len(data) \in Nat /\ Len(Values) \in Nat
        /\ DOMAIN Values = 1 .. Len(Values)
    BY DEF TypeOK
  <2>2. data' = Append(data, Len(data) + 1) /\ Len(data) < Len(Values)
    BY <1>3 DEF AppendPoint
  <2> QED
    BY <1>3, <2>1, <2>2 DEF AppendPoint, AfterAppend, TypeOK
<1>4. CASE LockSmoother
  BY <1>4 DEF LockSmoother, MayLockSmoother, TypeOK
<1>5. CASE UpdateDone
  <2>1. data' = data
    BY <1>5 DEF UpdateDone
  <2>2. smoothingData' \in Seq(DOMAIN Values) /\ numAccum' \in 0 .. Len(data')
    <3>1. CASE smoother = NoParam
      BY <1>5, <3>1 DEF UpdateDone, TypeOK
    <3>2. CASE smoother # NoParam
      BY <1>5, <2>1, <3>2, SampleTypes DEF UpdateDone, SampleAppended
    <3> QED
      BY <3>1, <3>2
  <2> QED
    BY <1>5, <2>1, <2>2 DEF UpdateDone, TypeOK
<1>6. ASSUME NEW p \in Params \cup {NoParam}, GetScalarData(p) PROVE LockInv'
  BY <1>6 DEF GetScalarData, TypeOK
<1>7. CASE UpdateSmoothingParam
  BY <1>7 DEF UpdateSmoothingParam, TypeOK
<1>8. CASE LockDataForSmoothing
  BY <1>8 DEF LockDataForSmoothing, TypeOK
<1>9. CASE UpdateSmoothingData
  <2>1. smoothingData' \in Seq(DOMAIN Values) /\ numAccum' \in 0 .. Len(data')
    BY <1>9, SampleTypes DEF UpdateSmoothingData
  <2> QED
    BY <1>9, <2>1 DEF UpdateSmoothingData, TypeOK
<1>10. CASE GetGraphData
  BY <1>10 DEF GetGraphData, TypeOK
<1>11. CASE GetData
  <2>1. data \in Seq(DOMAIN Values) /\ smoothingData \in Seq(DOMAIN Values) /\ capacity \in Nat
    BY DEF TypeOK
  <2>2. view' \in [line : {"none", "normal", "smoothing"}, length : Nat, capacity : Nat]
    BY <1>11, <2>1 DEF GetData, ViewOf, NoView
  <2>3. httpPc' \in {"readNormal", "readSmoothing"} /\ httpPc \in {"viewNormal", "viewSmoothing"}
    BY <1>11 DEF GetData
  <2> QED
    BY <1>11, <2>2, <2>3 DEF GetData, TypeOK
<1>12. CASE GetLineData
  BY <1>12 DEF GetLineData, NoView, TypeOK
<1>13. CASE UNCHANGED vars
  BY <1>13 DEF vars, TypeOK
<1> QED
  BY <1>1, <1>2, <1>3, <1>4, <1>5, <1>6, <1>7, <1>8, <1>9, <1>10, <1>11, <1>12, <1>13
     DEF Next, WorkerStep, HttpStep

(* Types: no smoother is ever ahead of the points it smooths.              *)
THEOREM FileTypes == Spec => []TypeOK
<1>1. LockInv => TypeOK
  BY DEF LockInv
<1> QED
  BY LockInit, LockStep, <1>1, PTL DEF Spec

(* The vectors of a File: whoever changes one holds some mutex that every  *)
(* other user of it holds, though it is not always the same mutex.         *)
THEOREM VectorsDoNotRace == Spec => []NoRace
<1>1. LockInv => NoRace
  BY DEF LockInv, LocksOK, NoRace, WorkerWrites, WorkerUses, HttpWrites, HttpUses
<1> QED
  BY LockInit, LockStep, <1>1, PTL DEF Spec

-----------------------------------------------------------------------------
(* Clients that all smooth with one window, and never with another.        *)
OneWindow == \E q \in Params : Params = {q} /\ q.algorithm = "windowMedian"

(* A vector that holds the points 1 .. n in order.                         *)
Points(n) == [i \in 1 .. n |-> i]

WindowInv ==
  /\ data = Points(Len(data))
  /\ smoothingData = Points(numAccum)
  /\ smoother = NoParam => numAccum = 0
  /\ httpPc \in {"updateSmoothing", "sample"} => smoother # NoParam
  /\ httpPc = "param" => param # NoParam
  /\ Quiet /\ smoother # NoParam => numAccum = Len(data)

(* The points up to m and those from m + 1 to n are the points up to n.    *)
LEMMA PointsJoin ==
  ASSUME NEW S, NEW s \in Seq(S), NEW t \in Seq(S),
         \A i \in 1 .. Len(s) : s[i] = i,
         \A i \in 1 .. Len(t) : t[i] = Len(s) + i
  PROVE  s \o t = Points(Len(s) + Len(t))
<1> DEFINE m == Len(s)
           n == Len(t)
<1>0. m \in Nat /\ n \in Nat
  OBVIOUS
<1>1. /\ s \o t \in Seq(S)
      /\ Len(s \o t) = m + n
      /\ \A i \in 1 .. m + n : (s \o t)[i] = IF i <= m THEN s[i] ELSE t[i - m]
  BY ConcatProperties
<1>2. ASSUME NEW i \in 1 .. m + n PROVE (s \o t)[i] = i
  <2>1. CASE i <= m
    BY <1>1, <2>1
  <2>2. CASE i > m
    <3>1. i - m \in 1 .. n
      BY <2>2
    <3> QED
      BY <1>1, <2>2, <3>1
  <2> QED
    BY <2>1, <2>2
<1> DEFINE u == s \o t
<1>3. u \in Seq(S) /\ Len(u) = m + n /\ \A i \in 1 .. m + n : u[i] = i
  BY <1>1, <1>2
<1> HIDE DEF u
<1>4. u = Points(m + n)
  BY <1>3 DEF Points
<1> QED
  BY <1>4 DEF u

(* Sample brings a window smoother, wherever it was, up to the last point. *)
LEMMA SampleCatchesUp ==
  ASSUME OneWindow, TypeOK, WindowInv, Sample, smoother # NoParam
  PROVE  numAccum' = Len(data) /\ smoothingData' = Points(Len(data))
<1> DEFINE more == SubSeq(data, numAccum + 1, Len(data))
           span == numAccum + 1 .. Len(data)
<1>1. smoother.algorithm = "windowMedian"
  BY DEF OneWindow, TypeOK
<1>2. Sampled /\ Counted(data, numAccum + 1) = span
  BY <1>1 DEF Sampled, Counted
<1>3. numAccum \in 0 .. Len(data) /\ numAccum \in Nat /\ Len(data) \in Nat
  BY DEF TypeOK
<1>4. smoothingData' = smoothingData \o more /\ numAccum' = numAccum + Cardinality(span)
  BY <1>2 DEF Sample
<1>5. Cardinality(span) = Len(data) - numAccum
  <2>1. numAccum + 1 \in Int /\ Len(data) \in Int
    BY <1>3
  <2>2. Cardinality(span) = IF numAccum + 1 > Len(data) THEN 0
                            ELSE Len(data) - (numAccum + 1) + 1
    BY <2>1, FS_Interval
  <2> QED
    BY <1>3, <2>2
<1>6. smoothingData \o more = Points(Len(data))
  <2>1. /\ data = Points(Len(data)) /\ smoothingData = Points(numAccum)
        /\ data \in Seq(DOMAIN Values) /\ smoothingData \in Seq(DOMAIN Values)
    BY DEF WindowInv, TypeOK
  <2>2. Len(smoothingData) = numAccum /\ \A i \in 1 .. numAccum : smoothingData[i] = i
    BY <1>3, <2>1 DEF Points
  <2>3. \A i \in 1 .. Len(data) : data[i] = i
    BY <1>3, <2>1 DEF Points
  <2>4. /\ more \in Seq(DOMAIN Values) /\ Len(more) = Len(data) - numAccum
        /\ \A i \in 1 .. Len(more) : more[i] = numAccum + i
    <3>1. \A i \in span : data[i] \in DOMAIN Values
      BY <1>3, <2>1
    <3>2. /\ more \in Seq(DOMAIN Values)
          /\ Len(more) = IF numAccum + 1 <= Len(data) THEN Len(data) - (numAccum + 1) + 1 ELSE 0
          /\ \A i \in 1 .. Len(data) - (numAccum + 1) + 1 : more[i] = data[numAccum + 1 + i - 1]
      BY <1>3, <3>1, SubSeqProperties
    <3>3. Len(more) = Len(data) - numAccum
      BY <1>3, <3>2
    <3> HIDE DEF more, span
    <3>4. ASSUME NEW i \in 1 .. Len(more) PROVE more[i] = numAccum + i
      BY <1>3, <2>3, <3>2, <3>3
    <3> QED
      BY <3>2, <3>3, <3>4
  <2> HIDE DEF more, span
  <2> DEFINE D == DOMAIN Values
  <2>5. smoothingData \in Seq(D) /\ more \in Seq(D)
    BY <2>1, <2>4
  <2>6. \A i \in 1 .. Len(smoothingData) : smoothingData[i] = i
    BY <2>2
  <2>7. \A i \in 1 .. Len(more) : more[i] = Len(smoothingData) + i
    BY <2>2, <2>4
  <2> HIDE DEF D
  <2>8. smoothingData \o more = Points(Len(smoothingData) + Len(more))
    BY <2>5, <2>6, <2>7, PointsJoin
  <2> QED
    BY <1>3, <2>2, <2>4, <2>8
<1> HIDE DEF span, more
<1> QED
  BY <1>3, <1>4, <1>5, <1>6

LEMMA WindowInit == Init => WindowInv
BY DEF Init, WindowInv, Points, Quiet

LEMMA WindowStep == ASSUME OneWindow PROVE LockInv /\ WindowInv /\ [Next]_vars => WindowInv'
<1> SUFFICES ASSUME LockInv, WindowInv, [Next]_vars PROVE WindowInv'
  OBVIOUS
<1> USE DEF fileVars, lockVars, httpVars
<1>0. TypeOK
  BY DEF LockInv
<1>1. CASE UpdateGraph
  BY <1>1 DEF UpdateGraph, WindowInv, Quiet
<1>2. CASE LockData
  BY <1>2 DEF LockData, WindowInv, Quiet
<1>3. CASE AppendPoint
  <2>1. data' = Points(Len(data'))
    <3>1. data \in Seq(DOMAIN Values) /\ Len(data) \in Nat
      BY <1>0 DEF TypeOK
    <3>2. \A i \in 1 .. Len(data) : data[i] = i
      BY <3>1 DEF WindowInv, Points
    <3>3. data' = Append(data, Len(data) + 1)
      BY <1>3 DEF AppendPoint
    <3> QED
      BY <3>1, <3>2, <3>3 DEF Points
  <2>2. UNCHANGED <<smoother, numAccum, smoothingData, httpVars>> /\ workerPc' = "smoother"
    BY <1>3 DEF AppendPoint
  <2>3. ~Quiet'
    BY <2>2 DEF Quiet
  <2> QED
    BY <2>1, <2>2, <2>3 DEF WindowInv
<1>4. CASE LockSmoother
  BY <1>4 DEF LockSmoother, WindowInv, Quiet
<1>5. CASE UpdateDone
  <2>1. CASE smoother = NoParam
    BY <1>5, <2>1 DEF UpdateDone, WindowInv, Quiet
  <2>2. CASE smoother # NoParam
    <3>1. numAccum' = Len(data) /\ smoothingData' = Points(Len(data))
      BY <1>0, <1>5, <2>2, SampleCatchesUp DEF UpdateDone, SampleAppended
    <3> QED
      BY <1>5, <2>2, <3>1 DEF UpdateDone, WindowInv, Quiet
  <2> QED
    BY <2>1, <2>2
<1>6. ASSUME NEW p \in Params \cup {NoParam}, GetScalarData(p) PROVE WindowInv'
  BY <1>6 DEF GetScalarData, WindowInv, Quiet
<1>7. CASE UpdateSmoothingParam
  <2>1. CASE smoother' = smoother /\ numAccum' = numAccum /\ httpPc' = "getSmoothing"
    BY <1>7, <2>1 DEF UpdateSmoothingParam, WindowInv, Quiet
  <2>2. CASE smoother' = param /\ numAccum' = 0 /\ httpPc' = "updateSmoothing" /\ ~SameSmoother(param)
    <3>1. param # NoParam /\ smoother = NoParam
      BY <1>0, <1>7, <2>2 DEF UpdateSmoothingParam, WindowInv, OneWindow, SameSmoother, TypeOK, NoParam
    <3> QED
      BY <1>7, <2>2, <3>1 DEF UpdateSmoothingParam, WindowInv, Quiet
  <2> QED
    BY <1>7, <2>1, <2>2 DEF UpdateSmoothingParam
<1>8. CASE LockDataForSmoothing
  BY <1>8 DEF LockDataForSmoothing, WindowInv, Quiet
<1>9. CASE UpdateSmoothingData
  <2>1. smoother # NoParam
    BY <1>9 DEF UpdateSmoothingData, WindowInv
  <2>2. numAccum' = Len(data) /\ smoothingData' = Points(Len(data))
    BY <1>0, <1>9, <2>1, SampleCatchesUp DEF UpdateSmoothingData
  <2> QED
    BY <1>9, <2>1, <2>2 DEF UpdateSmoothingData, WindowInv, Quiet
<1>10. CASE GetGraphData
  BY <1>10 DEF GetGraphData, WindowInv, Quiet
<1>11. CASE GetData
  BY <1>11 DEF GetData, WindowInv, Quiet
<1>12. CASE GetLineData
  BY <1>12 DEF GetLineData, WindowInv, Quiet
<1>13. CASE UNCHANGED vars
  BY <1>13 DEF vars, WindowInv, Quiet
<1> QED
  BY <1>1, <1>2, <1>3, <1>4, <1>5, <1>6, <1>7, <1>8, <1>9, <1>10, <1>11, <1>12, <1>13
     DEF Next, WorkerStep, HttpStep

LEMMA WindowAlways == ASSUME OneWindow PROVE Spec => [](LockInv /\ WindowInv)
<1>1. LockInv /\ WindowInv /\ [Next]_vars => WindowInv'
  BY WindowStep
<1> QED
  BY LockInit, LockStep, WindowInit, <1>1, PTL DEF Spec

(* With one window for all requests the smoothed line misses no point,     *)
(* whenever the window was set, for any number of points and requests.     *)
THEOREM OneWindowSmoothsAll == ASSUME OneWindow PROVE Spec => []SmoothingComplete
<1>1. LockInv /\ WindowInv => SmoothingComplete
  BY DEF WindowInv, SmoothingComplete
<1> QED
  BY WindowAlways, <1>1, PTL

(* With one window for all requests the smoothed points are in order, each *)
(* of them once: GetSmoothingData may take its boundaries by bisection.    *)
THEOREM OneWindowKeepsOrder == ASSUME OneWindow PROVE Spec => []SmoothingAscending
<1>1. LockInv /\ WindowInv => SmoothingAscending
  BY DEF LockInv, TypeOK, WindowInv, Points, SmoothingAscending
<1> QED
  BY WindowAlways, <1>1, PTL

=============================================================================
