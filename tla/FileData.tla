------------------------------- MODULE FileData -------------------------------
(***************************************************************************)
(* One File of the Scalar plugin's server under one tag: the parse worker  *)
(* appends points and smooths them while the HTTP thread answers           *)
(* GetScalarData, which may set the smoothing parameters.                  *)
(*                                                                         *)
(* Three mutexes are involved: graphMutext_ of the server, which UpdateGraph *)
(* and GetGraphData hold and UpdateSmoothingParam does not, and dataMutex_ *)
(* and smootherMutex_ of the File.  A point is its index: the worker       *)
(* appends Values[1], Values[2], ... at ascending steps.                   *)
(***************************************************************************)
EXTENDS Integers, Sequences, FiniteSets

CONSTANTS
  Values,       \* what the worker appends: "one", "two", ..., "nan" for a NaN or an infinity
  Params,       \* the smoothing parameters clients ask for: records [algorithm, setting]
  MaxRequests   \* bound: GetScalarData requests in one behaviour

Algorithms == {"irLow", "windowMedian", "windowTopX"}

ASSUME FileDataConstantsOK ==
  /\ Values \in Seq(STRING)
  /\ Params \subseteq [algorithm : Algorithms, setting : Nat]
  /\ MaxRequests \in Nat

NoParam == [algorithm |-> "none", setting |-> 0]

VARIABLES
  data,            \* File::data_[tag]: indexes into Values
  capacity,        \* what data_'s vector can hold before it moves its elements
  smoother,        \* File::smoother_[tag]: its parameters, NoParam if there is none
  numAccum,        \* SmootherBase::numAccum_ of that smoother
  smoothingData,   \* File::smoothingData_[tag]: indexes of the points smoothed, in order
  graphMutext, dataMutex, smootherMutex,   \* who holds each mutex
  workerPc,        \* the worker: where it is in UpdateGraph
  httpPc,          \* the HTTP thread: where it is in ProcessSingleGraphReq
  param,           \* the parameters of the request's smoothing line, NoParam if it has none
  view,            \* the DataView of the line under way
  requests

fileVars  == <<data, capacity, smoother, numAccum, smoothingData>>
lockVars  == <<graphMutext, dataMutex, smootherMutex>>
httpVars  == <<httpPc, param, view, requests>>
vars      == <<fileVars, lockVars, workerPc, httpVars>>

NoView == [line |-> "none", length |-> 0, capacity |-> 0]

Init ==
  /\ data = <<>> /\ capacity = 0
  /\ smoother = NoParam /\ numAccum = 0 /\ smoothingData = <<>>
  /\ graphMutext = "free" /\ dataMutex = "free" /\ smootherMutex = "free"
  /\ workerPc = "idle"
  /\ httpPc = "idle" /\ param = NoParam /\ view = NoView /\ requests = 0

-----------------------------------------------------------------------------
(* Smoothing.  Sample appends to dst every point of original from numAccum_ *)
(* on; the window smoothers count each of them, IRLowSmoother only those it *)
(* filters: not while all values are equal, and no NaN or infinity.         *)
IsConstant(original) == \A n \in DOMAIN original :
  Values[original[n]] # "nan" /\ Values[original[n]] = Values[original[1]]

\* mutant: the points smoothed before are counted again
CountedTwice(original, from) == 1 .. Len(original)

Counted(original, from) ==
  IF smoother.algorithm = "irLow"
  THEN IF IsConstant(original) THEN {}
       ELSE {n \in from .. Len(original) : Values[original[n]] # "nan"}
  ELSE from .. Len(original)

(* A weight of 0 turns IRLowSmoother off.                                   *)
Sampled == smoother # [algorithm |-> "irLow", setting |-> 0]

Sample ==
  IF Sampled
  THEN /\ smoothingData' = smoothingData \o SubSeq(data, numAccum + 1, Len(data))
       /\ numAccum' = numAccum + Cardinality(Counted(data, numAccum + 1))
  ELSE UNCHANGED <<smoothingData, numAccum>>

(* Equal: same algorithm and setting.  WindowTopXSmoother compares its      *)
(* windowSize_ with the other's top_, a share of it: they differ (but for a *)
(* window of 1 with all of it, which is not in Params).                     *)
NeverSame(p) == FALSE   \* mutant: every request makes a new smoother

SameSmoother(p) == smoother = p /\ p.algorithm # "windowTopX"

-----------------------------------------------------------------------------
(* The parse worker: ScalarVisuallyServer::UpdateGraph down to              *)
(* File::UpdateData, one point at a time.                                   *)

UpdateGraph ==
  /\ workerPc = "idle"
  /\ Len(data) < Len(Values)
  /\ graphMutext = "free"
  /\ graphMutext' = "worker"
  /\ workerPc' = "data"
  /\ UNCHANGED <<dataMutex, smootherMutex, fileVars, httpVars>>

LockData ==
  /\ workerPc = "data"
  /\ dataMutex = "free"
  /\ dataMutex' = "worker"
  /\ workerPc' = "append"
  /\ UNCHANGED <<graphMutext, smootherMutex, fileVars, httpVars>>

(* dataMutex_ is given up before smootherMutex_ is asked for ("to avoid a   *)
(* deadlock"), since UpdateSmoothingParam takes them in the other order.    *)
DataMutexKept == "worker"   \* mutant: dataMutex_ is held to the end of UpdateData

AfterAppend == "free"

AppendPoint ==
  /\ workerPc = "append"
  /\ data' = Append(data, Len(data) + 1)
  /\ capacity' = IF Len(data) < capacity THEN capacity ELSE IF capacity = 0 THEN 1 ELSE 2 * capacity
  /\ dataMutex' = AfterAppend
  /\ workerPc' = "smoother"
  /\ UNCHANGED <<graphMutext, smootherMutex, smoother, numAccum, smoothingData, httpVars>>

NoMutexNeeded == TRUE   \* mutant: UpdateData smooths without smootherMutex_

MayLockSmoother == smootherMutex = "free"

LockSmoother ==
  /\ workerPc = "smoother"
  /\ MayLockSmoother
  /\ smootherMutex' = "worker"
  /\ workerPc' = "sample"
  /\ UNCHANGED <<graphMutext, dataMutex, fileVars, httpVars>>

(* data_ is read here under smootherMutex_ alone.                           *)
NotSmoothed == UNCHANGED <<smoothingData, numAccum>>   \* mutant: new points are not smoothed

SampleAppended == Sample

UpdateDone ==
  /\ workerPc = "sample"
  /\ IF smoother = NoParam THEN UNCHANGED <<smoothingData, numAccum>> ELSE SampleAppended
  /\ smootherMutex' = "free"
  /\ graphMutext' = "free"
  /\ dataMutex' = IF dataMutex = "worker" THEN "free" ELSE dataMutex
  /\ workerPc' = "idle"
  /\ UNCHANGED <<data, capacity, smoother, httpVars>>

-----------------------------------------------------------------------------
(* The HTTP thread: ProcessSingleGraphReq, first the normal line, then the  *)
(* smoothing line if the request has one.                                   *)

GetScalarData(p) ==
  /\ httpPc = "idle"
  /\ requests < MaxRequests
  /\ requests' = requests + 1
  /\ param' = p
  /\ httpPc' = "getNormal"
  /\ UNCHANGED <<view, fileVars, lockVars, workerPc>>

(* SmoothingLineOp::Process: UpdateSmoothingParam takes no graphMutext_, so *)
(* it may or may not find the graph the first UpdateGraph is creating.      *)
GraphMayExist    == data # <<>> \/ workerPc # "idle"
GraphMayBeAbsent == data = <<>>

UpdateSmoothingParam ==
  /\ httpPc = "param"
  /\ \/ /\ GraphMayBeAbsent
        /\ httpPc' = "getSmoothing"
        /\ UNCHANGED <<smoother, numAccum, smootherMutex>>
     \/ /\ GraphMayExist
        /\ smootherMutex = "free"
        /\ IF SameSmoother(param)
           THEN /\ httpPc' = "getSmoothing"
                /\ UNCHANGED <<smoother, numAccum, smootherMutex>>
           ELSE /\ smoother' = param
                /\ numAccum' = 0
                /\ smootherMutex' = "http"
                /\ httpPc' = "updateSmoothing"
  /\ UNCHANGED <<data, capacity, smoothingData, graphMutext, dataMutex, workerPc, param, view,
                 requests>>

(* UpdateSmoothingData, still under smootherMutex_; smoothingData_ is not   *)
(* cleared for the new smoother.                                            *)
LockDataForSmoothing ==
  /\ httpPc = "updateSmoothing"
  /\ dataMutex = "free"
  /\ dataMutex' = "http"
  /\ httpPc' = "sample"
  /\ UNCHANGED <<graphMutext, smootherMutex, fileVars, workerPc, param, view, requests>>

UpdateSmoothingData ==
  /\ httpPc = "sample"
  /\ Sample
  /\ dataMutex' = "free"
  /\ smootherMutex' = "free"
  /\ httpPc' = "getSmoothing"
  /\ UNCHANGED <<data, capacity, smoother, graphMutext, workerPc, param, view, requests>>

(* GetGraphData, under graphMutext_: the view refers to the vector itself.  *)
(* (Requests ask for the whole range; GraphLine has the boundaries.)        *)
GetGraphData ==
  /\ httpPc \in {"getNormal", "getSmoothing"}
  /\ graphMutext = "free"
  /\ graphMutext' = "http"
  /\ httpPc' = IF httpPc = "getNormal" THEN "viewNormal" ELSE "viewSmoothing"
  /\ UNCHANGED <<dataMutex, smootherMutex, fileVars, workerPc, param, view, requests>>

(* There is no view where there are no points, nor without a smoother.      *)
ViewOf(line, points, room) ==
  IF points = <<>> THEN NoView ELSE [line |-> line, length |-> Len(points), capacity |-> room]

GetData ==
  /\ \/ /\ httpPc = "viewNormal"
        /\ view' = ViewOf("normal", data, capacity)
        /\ httpPc' = "readNormal"
     \/ /\ httpPc = "viewSmoothing"
        /\ view' = IF smoother = NoParam THEN NoView ELSE ViewOf("smoothing", smoothingData, 0)
        /\ httpPc' = "readSmoothing"
  /\ graphMutext' = "free"
  /\ UNCHANGED <<dataMutex, smootherMutex, fileVars, workerPc, param, requests>>

(* SampleLineOp::Process and GetLineData go through the view's iterators,   *)
(* with no mutex held.                                                      *)
GetLineData ==
  /\ httpPc \in {"readNormal", "readSmoothing"}
  /\ httpPc' = IF httpPc = "readNormal" /\ param # NoParam THEN "param" ELSE "idle"
  /\ view' = NoView
  /\ UNCHANGED <<param, requests, fileVars, lockVars, workerPc>>

-----------------------------------------------------------------------------

WorkerStep == UpdateGraph \/ LockData \/ AppendPoint \/ LockSmoother \/ UpdateDone

HttpStep ==
  \/ UpdateSmoothingParam \/ LockDataForSmoothing \/ UpdateSmoothingData
  \/ GetGraphData \/ GetData \/ GetLineData

Next ==
  \/ WorkerStep
  \/ \E p \in Params \cup {NoParam} : GetScalarData(p)
  \/ HttpStep

Spec == Init /\ [][Next]_vars

(* Both threads are scheduled; the worker parses a finite file and locks    *)
(* graphMutext_ once per point, so the HTTP thread gets it in the end.      *)
FairSpec == Spec /\ WF_vars(WorkerStep) /\ WF_vars(HttpStep)

-----------------------------------------------------------------------------
(* Properties.                                                              *)

Threads == {"free", "worker", "http"}

TypeOK ==
  /\ data \in Seq(DOMAIN Values) /\ Len(data) <= Len(Values)
  /\ capacity \in Nat
  /\ smoother \in Params \cup {NoParam}
  /\ numAccum \in 0 .. Len(data)
  /\ smoothingData \in Seq(DOMAIN Values)
  /\ graphMutext \in Threads /\ dataMutex \in Threads /\ smootherMutex \in Threads
  /\ workerPc \in {"idle", "data", "append", "smoother", "sample"}
  /\ httpPc \in {"idle", "getNormal", "viewNormal", "readNormal", "param", "updateSmoothing",
                 "sample", "getSmoothing", "viewSmoothing", "readSmoothing"}
  /\ param \in Params \cup {NoParam}
  /\ view \in [line : {"none", "normal", "smoothing"}, length : Nat, capacity : Nat]
  /\ requests \in 0 .. MaxRequests

(* No thread changes data_ or smoothingData_ while the other uses it,       *)
(* although no single mutex covers all of their uses: the worker smooths    *)
(* under smootherMutex_ only, and GetGraphData reads under graphMutext_     *)
(* only.                                                                    *)
WorkerWrites(v) == workerPc = IF v = "data" THEN "append" ELSE "sample"
WorkerUses(v)   == WorkerWrites(v) \/ workerPc = "sample"
HttpWrites(v)   == httpPc = "sample"
HttpUses(v)     == HttpWrites(v) \/ httpPc = IF v = "data" THEN "viewNormal" ELSE "viewSmoothing"

NoRace ==
  \A v \in {"data", "smoothingData"} :
    /\ ~ (WorkerWrites(v) /\ HttpUses(v))
    /\ ~ (HttpWrites(v) /\ WorkerUses(v))

(* smoothingData_ is in ascending order, as GetSmoothingData's GetBoundary  *)
(* takes it to be, and holds no point twice.                                *)
SmoothingAscending ==
  \A m, n \in DOMAIN smoothingData : m < n => smoothingData[m] < smoothingData[n]

(* Nothing is missing from the smoothed line: once no point is on its way,  *)
(* a smoother that was set before, during or after the import has smoothed  *)
(* every point.                                                             *)
Quiet == workerPc \in {"idle", "data", "append"} /\ httpPc \notin {"updateSmoothing", "sample"}

SmoothingComplete == Quiet /\ smoother # NoParam => smoothingData = data

(* The iterators of a view that is still to be read are those of the        *)
(* vector's elements: it has not moved them since.                          *)
ViewValid == httpPc = "readNormal" /\ view # NoView => view.capacity = capacity

(* GetBoundary takes the data it bisects to be in ascending order, and a    *)
(* DataView is to stand in for a copy of the data.  A client that changes   *)
(* its window breaks the first, since the new smoother appends every point  *)
(* again; one that reads a view after graphMutext_ has been released breaks *)
(* the second.  If the code kept one of them, this would hold.              *)
DataAsDocumented == SmoothingAscending \/ ViewValid

(* A request is answered, and the worker gets its points stored: the two    *)
(* never wait for one another.                                              *)
NobodyWaits ==
  /\ httpPc # "idle" ~> httpPc = "idle"
  /\ <>(Len(data) = Len(Values) /\ workerPc = "idle")

=============================================================================
