------------------------ MODULE ParsePipeline_proofs ------------------------
(***************************************************************************)
(* Theorems about ParsePipeline, for every value of its constants.         *)
(***************************************************************************)
EXTENDS ParsePipeline, TLAPS

(* What TypeOK needs to be inductive: a worker that is not idle has a task  *)
(* and has not read past the end of its file, and an import that is under   *)
(* way has a number.                                                        *)
WithinFile ==
  /\ \A o \in Objects : offSet[o] <= Len(RecordsOf(o))
  /\ \A w \in Workers : pc[w] # "idle" => /\ job[w] \in Objects
                                          /\ pos[w] <= Len(RecordsOf(job[w]))

TypeInv ==
  /\ TypeOK
  /\ WithinFile
  /\ httpPc # "idle" => project \in Projects

(* The records of a file are records.                                       *)
LEMMA RecordsType ==
  ASSUME NEW o \in Objects
  PROVE  /\ RecordsOf(o) \in Seq(Record)
         /\ Len(RecordsOf(o)) \in Nat
         /\ o[1] \in Paths /\ o[2] \in Projects
<1>1. o[1] \in Paths /\ o[2] \in Projects  BY DEF Objects
<1>2. RecordsOf(o) \in Seq(Record)  BY <1>1, ConstantsOK DEF RecordsOf
<1> QED  BY <1>1, <1>2

(* What a worker takes out of its cache is a record of its file that it has *)
(* read and not taken out before.                                           *)
LEMMA FrontType ==
  ASSUME TypeInv, NEW w \in Workers, pc[w] # "idle", NEW k \in CacheFront(w)
  PROVE  /\ k \in Nat /\ sent[w] < k /\ k <= pos[w]
         /\ k \in DOMAIN RecordsOf(job[w])
         /\ Tag(job[w], k) \in Tags
<1>1. job[w] \in Objects /\ pos[w] \in Nat /\ sent[w] \in Nat /\ pos[w] <= Len(RecordsOf(job[w]))
  BY DEF TypeInv, TypeOK, WithinFile
<1>2. k \in sent[w] + 1 .. pos[w]
  BY DEF CacheFront, Cached
<1>3. k \in Nat /\ sent[w] < k /\ k <= pos[w] /\ k \in 1 .. Len(RecordsOf(job[w]))
  BY <1>1, <1>2, RecordsType
<1>4. RecordsOf(job[w])[k] \in Record
  BY <1>1, <1>3, RecordsType
<1> QED  BY <1>3, <1>4, <1>1, RecordsType DEF Tag, Record

(* What is left of a division by a positive number is a natural number.    *)
LEMMA RemainderType ==
  ASSUME NEW x \in Int, NEW m \in Nat \ {0}
  PROVE  x % m \in Nat
OBVIOUS

(* Adding the size of a file to the total gives a uint64_t, whatever wraps. *)
LEMMA SumType ==
  ASSUME NEW total \in Nat, NEW size \in Nat
  PROVE  ToUint64(ToInt(total) + size) \in Nat
<1> DEFINE two  == 2 * IntHalf
           four == 4 * IntHalf * IntHalf
<1>1. IntHalf \in Nat \ {0}  BY ConstantsOK
<1>2. two \in Nat \ {0}  BY <1>1
<1>3. four \in Nat \ {0}
  <2> DEFINE double == 4 * IntHalf
  <2>1. double \in Nat \ {0}  BY <1>1
  <2> HIDE DEF double
  <2>2. double * IntHalf \in Nat \ {0}  BY <1>1, <2>1
  <2> QED  BY <2>2 DEF double
<1> HIDE DEF two, four
<1>4. ToInt(total) \in Int
  <2>1. total + IntHalf \in Int  BY <1>1
  <2>2. (total + IntHalf) % two \in Nat  BY <1>2, <2>1, RemainderType
  <2> QED  BY <1>1, <2>2 DEF ToInt, two
<1>5. ToInt(total) + size \in Int  BY <1>4
<1> QED  BY <1>3, <1>5, RemainderType DEF ToUint64, four

(* The watcher's percentage is one.                                         *)
LEMMA PercentType ==
  ASSUME NEW i, NEW percent \in Percents(i)
  PROVE  percent \in 0..100
<1>1. 0 \in 0..100 /\ 100 \in 0..100
  OBVIOUS
<1>2. ASSUME NEW u \in UInt32 PROVE Capped(u) \in 0..100
  BY ConstantsOK DEF UInt32, Capped
<1> QED
  BY <1>1, <1>2 DEF Percents, ToUint32

(* The three ways a ParseState changes keep it one.                         *)
LEMMA StateFiles ==
  ASSUME NEW S \in [Projects -> ParseStates], NEW i \in Projects, NEW p \in Paths
  PROVE  [S EXCEPT ![i].files = @ \cup {p}] \in [Projects -> ParseStates]
<1>1. [S[i] EXCEPT !.files = @ \cup {p}] \in ParseStates  BY DEF ParseStates
<1>2. [S EXCEPT ![i].files = @ \cup {p}]
        = [S EXCEPT ![i] = [S[i] EXCEPT !.files = S[i].files \cup {p}]]
  OBVIOUS
<1> QED  BY <1>1, <1>2

LEMMA StatePercent ==
  ASSUME NEW S \in [Projects -> ParseStates], NEW i \in Projects, NEW percent \in 0..100
  PROVE  [S EXCEPT ![i].percent = percent] \in [Projects -> ParseStates]
<1>1. [S[i] EXCEPT !.percent = percent] \in ParseStates  BY DEF ParseStates
<1>2. [S EXCEPT ![i].percent = percent] = [S EXCEPT ![i] = [S[i] EXCEPT !.percent = percent]]
  OBVIOUS
<1> QED  BY <1>1, <1>2

LEMMA StateFinish ==
  ASSUME NEW S \in [Projects -> ParseStates], NEW i \in Projects
  PROVE  [S EXCEPT ![i].finish = TRUE, ![i].percent = 100] \in [Projects -> ParseStates]
<1> DEFINE T == [S EXCEPT ![i].finish = TRUE]
<1>1. T \in [Projects -> ParseStates]
  <2>1. [S[i] EXCEPT !.finish = TRUE] \in ParseStates
    <3> DEFINE s == S[i]
    <3>1. s \in ParseStates  OBVIOUS
    <3> HIDE DEF s
    <3>2. [s EXCEPT !.finish = TRUE] \in ParseStates  BY ONLY <3>1 DEF ParseStates
    <3> QED  BY <3>2 DEF s
  <2>2. T = [S EXCEPT ![i] = [S[i] EXCEPT !.finish = TRUE]]  OBVIOUS
  <2> QED  BY <2>1, <2>2
<1>2. [T EXCEPT ![i].percent = 100] = [S EXCEPT ![i].finish = TRUE, ![i].percent = 100]
  BY Zenon
<1> HIDE DEF T
<1>3. [T EXCEPT ![i].percent = 100] \in [Projects -> ParseStates]
  <2>1. 100 \in 0..100  OBVIOUS
  <2> QED  BY <1>1, <2>1, StatePercent
<1> QED  BY <1>2, <1>3

LEMMA TypeInit == Init => TypeInv
<1> SUFFICES ASSUME Init PROVE TypeInv  OBVIOUS
<1>1. NoState \in ParseStates  BY DEF NoState, ParseStates
<1>2. TypeOK  BY <1>1, ConstantsOK DEF Init, TypeOK, Objects, HttpStates, WorkerStates, NoJob
<1>3. WithinFile  BY RecordsType DEF Init, WithinFile
<1> QED  BY <1>2, <1>3 DEF TypeInv, Init

(* Every step keeps the types.                                              *)
LEMMA TypeNext == TypeInv /\ [Next]_vars => TypeInv'
<1> SUFFICES ASSUME TypeInv, [Next]_vars PROVE TypeInv'  OBVIOUS
<1> USE ConstantsOK
<1>1. ASSUME NEW append \in BOOLEAN, NEW list \in ImportLists, ImportFile(append, list)
      PROVE  TypeInv'
  <2>1. list \in Seq(Paths) /\ project' \in Projects
    BY <1>1 DEF ImportFile, TypeInv, TypeOK, Projects
  <2> QED
    BY <1>1, <2>1 DEF ImportFile, TypeInv, TypeOK, WithinFile, HttpStates, Projects, fileVars,
       graphVars, workerVars, poolVars, watchVars
<1>2. ASSUME ResetFiles PROVE TypeInv'
  BY <1>2 DEF ResetFiles, TypeInv, TypeOK, WithinFile, HttpStates, graphVars, workerVars,
     poolVars, watchVars
<1>3. ASSUME ResetGraphs PROVE TypeInv'
  BY <1>3 DEF ResetGraphs, TypeInv, TypeOK, WithinFile, HttpStates, fileVars, workerVars,
     poolVars, watchVars
<1>4. ASSUME ResetIncremental PROVE TypeInv'
  BY <1>4 DEF ResetIncremental, TypeInv, TypeOK, WithinFile, HttpStates, fileVars, workerVars,
     poolVars, watchVars
<1>5. ASSUME ResetParse PROVE TypeInv'
  BY <1>5 DEF ResetParse, TypeInv, TypeOK, WithinFile, HttpStates, NoState, ParseStates,
     fileVars, graphVars, workerVars, poolVars
<1>6. ASSUME AddParseTask PROVE TypeInv'
  BY <1>6 DEF AddParseTask, TypeInv, TypeOK, WithinFile, HttpStates, fileVars, graphVars,
     workerVars, poolVars, watchVars
<1>7. ASSUME AddFile PROVE TypeInv'
  <2>1. Head(todo) \in Paths /\ todo' \in Seq(Paths) /\ project \in Projects
    BY <1>7 DEF AddFile, TypeInv, TypeOK
  <2>2. SizeAtImport[Head(todo)] \in Nat
    BY <2>1
  <2>3. dataSize' \in Nat
    <3>1. dataSize \in Nat  BY DEF TypeInv, TypeOK
    <3>2. ToUint64(ToInt(dataSize) + SizeAtImport[Head(todo)]) \in Nat  BY <2>2, <3>1, SumType
    <3> QED  BY <1>7, <3>1, <3>2 DEF AddFile
  <2>4. fresh' \in Seq(Paths)
    <3>1. fresh \in Seq(Paths)  BY DEF TypeInv, TypeOK
    <3>2. fresh' = Append(fresh, Head(todo)) \/ fresh' = fresh  BY <1>7 DEF AddFile
    <3>3. Append(fresh, Head(todo)) \in Seq(Paths)  BY <2>1, <3>1
    <3> QED  BY <3>1, <3>2, <3>3
  <2>5. fileInfoMap' \in [Paths -> {0} \cup Projects]
    BY <1>7, <2>1 DEF AddFile, TypeInv, TypeOK
  <2> QED
    BY <1>7, <2>1, <2>3, <2>4 DEF AddFile, TypeInv, TypeOK, WithinFile, HttpStates, graphVars,
       workerVars, poolVars, watchVars
<1>8. ASSUME OpenProject PROVE TypeInv'
  <2>1. OpenState(dataSize) \in ParseStates
    BY DEF OpenState, ParseStates, TypeInv, TypeOK
  <2> QED
    BY <1>8, <2>1 DEF OpenProject, TypeInv, TypeOK, WithinFile, HttpStates, fileVars,
       graphVars, workerVars, poolVars
<1>9. ASSUME Submit PROVE TypeInv'
  <2>1. Head(fresh) \in Paths /\ fresh' \in Seq(Paths) /\ project \in Projects
    BY <1>9 DEF Submit, TypeInv, TypeOK
  <2>2. <<Head(fresh), project>> \in Objects
    BY <2>1 DEF Objects
  <2>3. parseStateMap' \in [Projects -> ParseStates]
    BY <1>9, <2>1, StateFiles DEF Submit, TypeInv, TypeOK
  <2>4. tasks' \in Seq(Objects) 
    BY <1>9, <2>2 DEF Submit, TypeInv, TypeOK
  <2>5. result' \in [Objects -> {"none", "pending", "empty", "data", "thrown"}]
    BY <1>9, <2>2 DEF Submit, TypeInv, TypeOK
  <2> QED
    BY <1>9, <2>1, <2>3, <2>4, <2>5 DEF Submit, TypeInv, TypeOK, WithinFile, HttpStates, fileVars,
       graphVars, workerVars
<1>10. ASSUME ImportDone PROVE TypeInv'
  BY <1>10 DEF ImportDone, TypeInv, TypeOK, WithinFile, HttpStates, fileVars, graphVars,
     workerVars, poolVars, watchVars
<1>11. ASSUME NEW i \in Projects, GetParseState(i) PROVE TypeInv'
  <2>1. NoState \in ParseStates  BY DEF NoState, ParseStates
  <2> QED
    BY <1>11, <2>1 DEF GetParseState, TypeInv, TypeOK, WithinFile, fileVars, graphVars,
       workerVars, poolVars, httpVars
<1>12. ASSUME GetIncremental PROVE TypeInv'
  BY <1>12 DEF GetIncremental, TypeInv, TypeOK, WithinFile, fileVars, workerVars, poolVars,
     httpVars, watchVars
<1>13. ASSUME NEW w \in Workers, WorkerStep(w) PROVE TypeInv'
  <2>1. CASE TakeTask(w)
    <3>1. Head(tasks) \in Objects /\ tasks' \in Seq(Objects)
      BY <2>1 DEF TakeTask, PopFront, TypeInv, TypeOK
    <3>2. offSet[Head(tasks)] \in Nat /\ offSet[Head(tasks)] <= Len(RecordsOf(Head(tasks)))
      BY <3>1 DEF TypeInv, TypeOK, WithinFile
    <3> QED
      BY <2>1, <3>1, <3>2 DEF TakeTask, TypeInv, TypeOK, WithinFile, WorkerStates, fileVars,
         graphVars, httpVars, watchVars
  <2>2. CASE ReadRecord(w)
    <3>1. job[w] \in Objects /\ pos[w] \in Nat /\ pos[w] <= Len(RecordsOf(job[w]))
      BY <2>2 DEF ReadRecord, TypeInv, TypeOK, WithinFile
    <3>2. Len(RecordsOf(job[w])) \in Nat  BY <3>1, RecordsType
    <3>3. NextKind(job[w], pos[w]) # "end" => pos[w] + 1 <= Len(RecordsOf(job[w]))
      BY <3>1, <3>2 DEF NextKind
    <3>4. tasks' = tasks /\ UNCHANGED <<fileVars, graphVars, httpVars, watchVars>>
      BY <2>2 DEF ReadRecord
    <3>5. CASE /\ NextKind(job[w], pos[w]) \in {"end", "corrupt"}
               /\ force' = [force EXCEPT ![w] = TRUE]
               /\ pc' = [pc EXCEPT ![w] = Resume(job[w], sent[w], pos[w], TRUE)]
               /\ UNCHANGED <<job, pos, sent, result>>
      BY <3>1, <3>4, <3>5 DEF Resume, TypeInv, TypeOK, WithinFile, WorkerStates, fileVars,
         graphVars, httpVars, watchVars
    <3>6. CASE /\ NextKind(job[w], pos[w]) = "scalar"
               /\ pos' = [pos EXCEPT ![w] = pos[w] + 1]
               /\ pc' = [pc EXCEPT ![w] = IF ReachLimit(job[w], sent[w], pos[w] + 1)
                                          THEN "check" ELSE "read"]
               /\ UNCHANGED <<job, sent, force, result>>
      BY <3>1, <3>3, <3>4, <3>6, SMTT(30) DEF TypeInv, TypeOK, WithinFile, WorkerStates, fileVars,
         graphVars, httpVars, watchVars
    <3>7. CASE /\ NextKind(job[w], pos[w]) = "skip"
               /\ pos' = [pos EXCEPT ![w] = pos[w] + 1]
               /\ UNCHANGED <<pc, job, sent, force, result>>
      BY <3>1, <3>3, <3>4, <3>7, SMTT(30) DEF TypeInv, TypeOK, WithinFile, WorkerStates, fileVars,
         graphVars, httpVars, watchVars
    <3>8. CASE /\ NextKind(job[w], pos[w]) = "throw"
               /\ result' = [result EXCEPT ![job[w]] = ExceptionResult]
               /\ Release(w)
      BY <3>1, <3>4, <3>8 DEF ExceptionResult, Release, TypeInv, TypeOK, WithinFile,
         WorkerStates, fileVars, graphVars, httpVars, watchVars
    <3> QED
      BY <2>2, <3>5, <3>6, <3>7, <3>8 DEF ReadRecord
  <2>3. CASE CheckImported(w)
    BY <2>3 DEF CheckImported, TypeInv, TypeOK, WithinFile, WorkerStates, fileVars, graphVars,
       poolVars, httpVars, watchVars
  <2>4. CASE CheckIncremental(w)
    BY <2>4 DEF CheckIncremental, TypeInv, TypeOK, WithinFile, WorkerStates, fileVars,
       graphVars, poolVars, httpVars, watchVars
  <2>5. CASE AddIncremental(w)
    <3>1. PICK k \in CacheFront(w) :
            incrementalTag' = incrementalTag \cup {<<Tag(job[w], k), job[w][1]>>}
      BY <2>5 DEF AddIncremental
    <3>2. Tag(job[w], k) \in Tags /\ job[w][1] \in Paths
      BY <2>5, FrontType, RecordsType DEF AddIncremental, TypeInv, WithinFile
    <3> QED
      BY <2>5, <3>1, <3>2, SMTT(30) DEF AddIncremental, TypeInv, TypeOK, WithinFile, WorkerStates,
         fileVars, poolVars, httpVars, watchVars
  <2>6. CASE UpdateGraph(w)
    <3>1. PICK k \in CacheFront(w) :
            graphs' = [graphs EXCEPT ![Tag(job[w], k)] = WithFile(@, job[w][1])]
      BY <2>6 DEF UpdateGraph
    <3>2. Tag(job[w], k) \in Tags /\ job[w][1] \in Paths
      BY <2>6, FrontType, RecordsType DEF UpdateGraph, TypeInv, WithinFile
    <3> QED
      BY <2>6, <3>1, <3>2 DEF UpdateGraph, WithFile, TypeInv, TypeOK, WithinFile, WorkerStates,
         fileVars, poolVars, httpVars, watchVars
  <2>7. CASE UpdateData(w)
    <3>1. PICK k \in CacheFront(w) :
            /\ data' = IF IsFileImported(job[w][1])
                       THEN [data EXCEPT ![Live(job[w][1])][Tag(job[w], k)] = Append(@, k)]
                       ELSE data
            /\ sent' = [sent EXCEPT ![w] = PopCache(w, k)]
            /\ pc' = [pc EXCEPT ![w] = Resume(job[w], PopCache(w, k), pos[w], force[w])]
      BY <2>7 DEF UpdateData
    <3>2. k \in Nat /\ Tag(job[w], k) \in Tags /\ job[w][1] \in Paths
      BY <2>7, FrontType, RecordsType DEF UpdateData, TypeInv, WithinFile
    <3>3. data' \in [Objects -> [Tags -> Seq(Nat)]]
      <4>1. CASE ~IsFileImported(job[w][1])
        BY <3>1, <4>1 DEF TypeInv, TypeOK
      <4>2. CASE IsFileImported(job[w][1])
        <5>1. Live(job[w][1]) \in Objects
          BY <3>2, <4>2 DEF Live, IsFileImported, Objects, TypeInv, TypeOK
        <5>2. Append(data[Live(job[w][1])][Tag(job[w], k)], k) \in Seq(Nat)
          BY <5>1, <3>2 DEF TypeInv, TypeOK
        <5> QED
          BY <3>1, <4>2, <5>1, <5>2 DEF TypeInv, TypeOK
      <4> QED  BY <4>1, <4>2
    <3> QED
      BY <2>7, <3>1, <3>2, <3>3 DEF UpdateData, PopCache, Resume, TypeInv, TypeOK, WithinFile,
         WorkerStates, poolVars, graphVars, httpVars, watchVars
  <2>8. CASE SetOffSet(w)
    BY <2>8 DEF SetOffSet, TypeInv, TypeOK, WithinFile, WorkerStates, poolVars, graphVars,
       httpVars, watchVars
  <2>9. CASE TaskDone(w)
    BY <2>9 DEF TaskDone, Release, TypeInv, TypeOK, WithinFile, WorkerStates, fileVars,
       graphVars, httpVars, watchVars
  <2> QED
    BY <1>13, <2>1, <2>2, <2>3, <2>4, <2>5, <2>6, <2>7, <2>8, <2>9 DEF WorkerStep
<1>14. ASSUME StartRound PROVE TypeInv'
  BY <1>14 DEF StartRound, TypeInv, TypeOK, WithinFile, fileVars, graphVars, workerVars,
     poolVars, httpVars
<1>15. ASSUME NEW i \in Projects, WatchProject(i) PROVE TypeInv'
  <2>1. parseStateMap' \in [Projects -> ParseStates]
    <3>1. CASE parseStateMap' = [parseStateMap EXCEPT ![i].finish = TRUE, ![i].percent = 100]
      BY <1>15, <3>1, StateFinish DEF TypeInv, TypeOK
    <3>2. CASE \E percent \in Percents(i) : parseStateMap' = [parseStateMap EXCEPT ![i].percent = percent]
      <4>1. PICK percent \in Percents(i) :
              parseStateMap' = [parseStateMap EXCEPT ![i].percent = percent]
        BY <3>2
      <4> QED  BY <1>15, <4>1, PercentType, StatePercent DEF TypeInv, TypeOK
    <3>3. CASE UNCHANGED parseStateMap
      BY <3>3 DEF TypeInv, TypeOK
    <3> QED
      BY <1>15, <3>1, <3>2, <3>3 DEF WatchProject
  <2> QED
    BY <1>15, <2>1 DEF WatchProject, TypeInv, TypeOK, WithinFile, fileVars, graphVars,
       workerVars, poolVars, httpVars
<1>16. ASSUME UNCHANGED vars PROVE TypeInv'
  BY <1>16 DEF vars, TypeInv, TypeOK, WithinFile, fileVars, graphVars, workerVars, poolVars,
     httpVars, watchVars
<1> QED
  BY <1>1, <1>2, <1>3, <1>4, <1>5, <1>6, <1>7, <1>8, <1>9, <1>10, <1>11, <1>12, <1>13, <1>14,
     <1>15, <1>16 DEF Next, ImportStep

(* Every variable keeps its type: in particular the percentage reported to  *)
(* a client never leaves 0..100, whatever int overflow does to dataSize_.   *)
THEOREM TypeCorrect == Spec => []TypeOK
<1>1. TypeInv => TypeOK  BY DEF TypeInv
<1> QED  BY <1>1, TypeInit, TypeNext, PTL DEF Spec

-----------------------------------------------------------------------------
(* Sequences: what the queue operations do, index by index.                 *)
LEMMA AppendFacts ==
  ASSUME NEW S, NEW s \in Seq(S), NEW e \in S
  PROVE  /\ Append(s, e) \in Seq(S)
         /\ DOMAIN Append(s, e) = 1 .. Len(s) + 1
         /\ DOMAIN s = 1 .. Len(s) /\ Len(s) \in Nat
         /\ \A n \in DOMAIN s : Append(s, e)[n] = s[n]
         /\ Append(s, e)[Len(s) + 1] = e
OBVIOUS

LEMMA TailFacts ==
  ASSUME NEW S, NEW s \in Seq(S), s # <<>>
  PROVE  /\ Tail(s) \in Seq(S)
         /\ DOMAIN s = 1 .. Len(s) /\ Len(s) \in Nat \ {0}
         /\ DOMAIN Tail(s) = 1 .. Len(s) - 1
         /\ \A n \in DOMAIN Tail(s) : Tail(s)[n] = s[n + 1]
         /\ Head(s) = s[1]
OBVIOUS

-----------------------------------------------------------------------------
(* TaskIsInOnePlace, strengthened: the queue holds pending tasks without    *)
(* repetition and none that a worker holds, no two workers hold the same,   *)
(* and the tasks an import has still to submit do not exist yet.            *)
QueueOnce ==
  /\ \A m, n \in DOMAIN tasks : tasks[m] = tasks[n] => m = n
  /\ \A n \in DOMAIN tasks : result[tasks[n]] = "pending"

JobsOnce ==
  /\ \A w \in Workers : pc[w] = "idle" => job[w] = NoJob
  /\ \A w \in Workers : pc[w] # "idle" => /\ result[job[w]] = "pending"
                                          /\ \A n \in DOMAIN tasks : tasks[n] # job[w]
  /\ \A v, w \in Workers : pc[v] # "idle" /\ pc[w] # "idle" /\ job[v] = job[w] => v = w

PendingIsSomewhere ==
  \A o \in Objects : result[o] = "pending" =>
    \/ \E n \in DOMAIN tasks : tasks[n] = o
    \/ \E w \in Workers : pc[w] # "idle" /\ job[w] = o

NotYetSubmitted ==
  /\ \A o \in Objects : o[2] > project => result[o] = "none"
  /\ httpPc \notin {"idle", "submit"} =>
       \A p \in Paths : result[<<p, project>>] = "none"
  /\ httpPc = "add" => \A n \in DOMAIN fresh : fileInfoMap[fresh[n]] # 0
  /\ httpPc \in {"add", "submit"} =>
       \A m, n \in DOMAIN fresh : fresh[m] = fresh[n] => m = n
  /\ httpPc = "submit" => \A n \in DOMAIN fresh : result[<<fresh[n], project>>] = "none"

PlaceInv == QueueOnce /\ JobsOnce /\ PendingIsSomewhere /\ NotYetSubmitted

LEMMA PlaceInit == Init => PlaceInv
BY DEF Init, PlaceInv, QueueOnce, JobsOnce, PendingIsSomewhere, NotYetSubmitted

(* What an action that leaves the queue, the workers' tasks, the results    *)
(* and the import alone cannot disturb.                                     *)
LEMMA PlaceFrame ==
  ASSUME PlaceInv, UNCHANGED <<fileInfoMap, tasks, result, job>>,
         UNCHANGED <<httpPc, project, fresh>>,
         \A w \in Workers : pc'[w] = "idle" <=> pc[w] = "idle"
  PROVE  PlaceInv'
BY DEF PlaceInv, QueueOnce, JobsOnce, PendingIsSomewhere, NotYetSubmitted

LEMMA PlaceNext == TypeInv /\ PlaceInv /\ [Next]_vars => PlaceInv'
<1> SUFFICES ASSUME TypeInv, PlaceInv, [Next]_vars PROVE PlaceInv'  OBVIOUS
<1>1. ASSUME NEW append \in BOOLEAN, NEW list \in ImportLists, ImportFile(append, list)
      PROVE  PlaceInv'
  <2>1. QueueOnce' /\ JobsOnce' /\ PendingIsSomewhere'
    BY <1>1 DEF ImportFile, PlaceInv, QueueOnce, JobsOnce, PendingIsSomewhere, workerVars,
       poolVars
  <2>2. project' = project + 1 /\ project \in Int /\ result' = result
        /\ httpPc' \in {"import", "resetFiles"} /\ project' \in Projects
    BY <1>1, ConstantsOK DEF ImportFile, poolVars, TypeInv, TypeOK, Projects
  <2>3. \A p \in Paths : <<p, project'>> \in Objects
    BY <2>2 DEF Objects
  <2>4. \A o \in Objects : o[2] \in Int
    BY DEF Objects, Projects
  <2> QED
    BY <2>1, <2>2, <2>3, <2>4 DEF PlaceInv, NotYetSubmitted
<1>2. ASSUME ResetFiles \/ ResetGraphs \/ ResetIncremental \/ ResetParse PROVE PlaceInv'
  <2>1. /\ UNCHANGED <<tasks, result, pc, job, project, fresh>>
        /\ httpPc \notin {"idle", "submit"} /\ httpPc' \notin {"idle", "submit", "add"}
    BY <1>2 DEF ResetFiles, ResetGraphs, ResetIncremental, ResetParse, workerVars, poolVars
  <2> QED
    BY <2>1 DEF PlaceInv, QueueOnce, JobsOnce, PendingIsSomewhere, NotYetSubmitted
<1>3. ASSUME AddParseTask PROVE PlaceInv'
  BY <1>3 DEF AddParseTask, PlaceInv, QueueOnce, JobsOnce, PendingIsSomewhere, NotYetSubmitted,
     fileVars, workerVars, poolVars
<1>4. ASSUME AddFile PROVE PlaceInv'
  <2>1. QueueOnce' /\ JobsOnce' /\ PendingIsSomewhere'
    BY <1>4 DEF AddFile, PlaceInv, QueueOnce, JobsOnce, PendingIsSomewhere, workerVars,
       poolVars
  <2>2. /\ fresh \in Seq(Paths) /\ Head(todo) \in Paths
        /\ fileInfoMap \in [Paths -> {0} \cup Projects] /\ project \in Projects
    BY <1>4 DEF AddFile, TypeInv, TypeOK
  <2>3. UNCHANGED <<httpPc, project, result>> /\ httpPc = "add"
    BY <1>4 DEF AddFile, poolVars
  <2>4. /\ \A n \in DOMAIN fresh' : fileInfoMap'[fresh'[n]] # 0
        /\ \A m, n \in DOMAIN fresh' : fresh'[m] = fresh'[n] => m = n
    <3>1. CASE fresh' = fresh /\ fileInfoMap' = fileInfoMap
      BY <2>3, <3>1 DEF PlaceInv, NotYetSubmitted
    <3>2. CASE /\ fileInfoMap[Head(todo)] = 0
               /\ fresh' = Append(fresh, Head(todo))
               /\ fileInfoMap' = [fileInfoMap EXCEPT ![Head(todo)] = project]
      <4>1. \A n \in DOMAIN fresh : fresh[n] # Head(todo)
        BY <2>3, <3>2 DEF PlaceInv, NotYetSubmitted
      <4>2. project # 0  BY <2>2 DEF Projects
      <4>3. \A n \in DOMAIN fresh : fresh[n] \in Paths /\ fileInfoMap'[fresh[n]] # 0
        BY <2>2, <2>3, <3>2, <4>2, AppendFacts DEF PlaceInv, NotYetSubmitted
      <4>4. fileInfoMap'[Head(todo)] # 0
        BY <2>2, <3>2, <4>2
      <4> QED
        BY <2>2, <2>3, <3>2, <4>1, <4>3, <4>4, AppendFacts DEF PlaceInv, NotYetSubmitted
    <3> QED
      BY <1>4, <3>1, <3>2 DEF AddFile, ToBeAdded, IsFileImported
  <2> QED
    BY <2>1, <2>3, <2>4 DEF PlaceInv, NotYetSubmitted
<1>5. ASSUME OpenProject PROVE PlaceInv'
  <2>1. \A n \in DOMAIN fresh : fresh[n] \in Paths
    BY DEF TypeInv, TypeOK
  <2> QED
    BY <1>5, <2>1 DEF OpenProject, PlaceInv, QueueOnce, JobsOnce, PendingIsSomewhere,
       NotYetSubmitted, fileVars, workerVars, poolVars
<1>6. ASSUME Submit PROVE PlaceInv'
  <2> DEFINE o == <<Head(fresh), project>>
  <2>1. /\ fresh \in Seq(Paths) /\ fresh # <<>> /\ tasks \in Seq(Objects)
        /\ project \in Projects /\ httpPc = "submit"
    BY <1>6 DEF Submit, TypeInv, TypeOK
  <2>2. Head(fresh) = fresh[1] /\ 1 \in DOMAIN fresh /\ fresh[1] \in Paths
    BY <2>1, TailFacts
  <2>3. o \in Objects /\ result[o] = "none"
    BY <2>1, <2>2 DEF Objects, PlaceInv, NotYetSubmitted
  <2>4. /\ tasks' = Append(tasks, o) /\ result' = [result EXCEPT ![o] = "pending"]
        /\ fresh' = Tail(fresh) /\ UNCHANGED <<httpPc, project, pc, job, fileInfoMap>>
    BY <1>6 DEF Submit, workerVars, fileVars
  <2>5. result \in [Objects -> {"none", "pending", "empty", "data", "thrown"}]
    BY DEF TypeInv, TypeOK
  <2>6. /\ DOMAIN tasks' = 1 .. Len(tasks) + 1 /\ DOMAIN tasks = 1 .. Len(tasks)
        /\ Len(tasks) \in Nat /\ tasks'[Len(tasks) + 1] = o
        /\ \A n \in DOMAIN tasks : tasks'[n] = tasks[n] /\ tasks[n] \in Objects
    BY <2>1, <2>3, <2>4, AppendFacts
  <2> HIDE DEF o
  <2>7. QueueOnce'
    BY <2>3, <2>4, <2>5, <2>6 DEF PlaceInv, QueueOnce
  <2>8. JobsOnce'
    BY <2>3, <2>4, <2>5, <2>6 DEF PlaceInv, JobsOnce, TypeInv, WithinFile
  <2>9. PendingIsSomewhere'
    BY <2>3, <2>4, <2>5, <2>6 DEF PlaceInv, PendingIsSomewhere
  <2>10. NotYetSubmitted'
    <3>1. \A q \in Objects : q[2] > project => q # o
      BY <2>1 DEF o, Projects
    <3>2. /\ DOMAIN fresh = 1 .. Len(fresh) /\ Len(fresh) \in Nat \ {0}
          /\ DOMAIN fresh' = 1 .. Len(fresh) - 1
          /\ \A n \in DOMAIN fresh' : fresh'[n] = fresh[n + 1]
      BY <2>1, <2>4, TailFacts
    <3>3. \A m, n \in DOMAIN fresh : fresh[m] = fresh[n] => m = n
      BY <2>1 DEF PlaceInv, NotYetSubmitted
    <3>4. \A n \in DOMAIN fresh' : n + 1 \in DOMAIN fresh /\ n + 1 # 1
      BY <3>2
    <3>5. \A n \in DOMAIN fresh' :
            <<fresh'[n], project>> \in Objects /\ <<fresh'[n], project>> # o
                                               /\ result[<<fresh'[n], project>>] = "none"
      BY <2>1, <2>2, <3>2, <3>3, <3>4 DEF o, Objects, PlaceInv, NotYetSubmitted
    <3>6. \A m, n \in DOMAIN fresh' : fresh'[m] = fresh'[n] => m = n
      BY <3>2, <3>3, <3>4
    <3> QED
      BY <2>1, <2>3, <2>4, <2>5, <3>1, <3>5, <3>6 DEF PlaceInv, NotYetSubmitted
  <2> QED
    BY <2>7, <2>8, <2>9, <2>10 DEF PlaceInv
<1>7. ASSUME ImportDone PROVE PlaceInv'
  BY <1>7 DEF ImportDone, PlaceInv, QueueOnce, JobsOnce, PendingIsSomewhere, NotYetSubmitted,
     fileVars, workerVars, poolVars
<1>8. ASSUME NEW w \in Workers, TakeTask(w) PROVE PlaceInv'
  <2>1. /\ tasks \in Seq(Objects) /\ tasks # <<>> /\ pc[w] = "idle"
        /\ tasks' = Tail(tasks) /\ job' = [job EXCEPT ![w] = Head(tasks)]
        /\ UNCHANGED <<result, fileInfoMap, httpPc, project, fresh>>
        /\ pc'[w] # "idle" /\ \A v \in Workers \ {w} : pc'[v] = pc[v]
    BY <1>8 DEF TakeTask, PopFront, TypeInv, TypeOK, fileVars, httpVars
  <2>2. /\ DOMAIN tasks = 1 .. Len(tasks) /\ Len(tasks) \in Nat \ {0}
        /\ DOMAIN tasks' = 1 .. Len(tasks) - 1
        /\ \A n \in DOMAIN tasks' : tasks'[n] = tasks[n + 1]
        /\ Head(tasks) = tasks[1] /\ 1 \in DOMAIN tasks
    BY <2>1, TailFacts
  <2>3. \A n \in DOMAIN tasks' : n + 1 \in DOMAIN tasks /\ n + 1 # 1
    BY <2>2
  <2>4. /\ job'[w] = tasks[1] /\ \A v \in Workers \ {w} : job'[v] = job[v]
    BY <2>1, <2>2 DEF TypeInv, TypeOK
  <2>5. QueueOnce'
    BY <2>1, <2>2, <2>3 DEF PlaceInv, QueueOnce
  <2>6. JobsOnce'
    BY <2>1, <2>2, <2>3, <2>4 DEF PlaceInv, QueueOnce, JobsOnce
  <2>7. PendingIsSomewhere'
    <3>1. \A n \in DOMAIN tasks : n # 1 => n - 1 \in DOMAIN tasks' /\ tasks'[n - 1] = tasks[n]
      BY <2>2
    <3> SUFFICES ASSUME NEW o \in Objects, result'[o] = "pending"
                 PROVE  \/ \E n \in DOMAIN tasks' : tasks'[n] = o
                        \/ \E v \in Workers : pc'[v] # "idle" /\ job'[v] = o
      BY DEF PendingIsSomewhere
    <3>2. CASE \E n \in DOMAIN tasks : tasks[n] = o
      BY <2>1, <2>4, <3>1, <3>2, ZenonT(40)
    <3>3. CASE \E v \in Workers : pc[v] # "idle" /\ job[v] = o
      BY <2>1, <2>4, <3>3
    <3> QED
      BY <2>1, <3>2, <3>3 DEF PlaceInv, PendingIsSomewhere
  <2>8. NotYetSubmitted'
    BY <2>1 DEF PlaceInv, NotYetSubmitted
  <2> QED
    BY <2>5, <2>6, <2>7, <2>8 DEF PlaceInv
<1>9. ASSUME NEW w \in Workers, NEW r \in {"empty", "data", "thrown"}, pc[w] # "idle",
             result' = [result EXCEPT ![job[w]] = r], Release(w),
             UNCHANGED <<tasks, fileVars, httpVars>>
      PROVE  PlaceInv'
  <2>1. /\ job[w] \in Objects /\ result \in [Objects -> {"none", "pending", "empty", "data", "thrown"}]
        /\ result[job[w]] = "pending" /\ tasks \in Seq(Objects)
    BY <1>9 DEF TypeInv, TypeOK, WithinFile, PlaceInv, JobsOnce
  <2>2. /\ pc'[w] = "idle" /\ \A v \in Workers \ {w} : pc'[v] = pc[v] /\ job'[v] = job[v]
        /\ job'[w] = NoJob
        /\ UNCHANGED <<tasks, fileInfoMap, httpPc, project, fresh>>
    BY <1>9 DEF Release, TypeInv, TypeOK, fileVars, httpVars
  <2>3. \A n \in DOMAIN tasks : tasks[n] \in Objects /\ tasks[n] # job[w]
    BY <1>9, <2>1 DEF PlaceInv, JobsOnce
  <2>4. \A o \in Objects : o # job[w] => result'[o] = result[o]
    BY <1>9, <2>1
  <2>5. result'[job[w]] = r  BY <1>9, <2>1
  <2>6. QueueOnce'
    BY <2>2, <2>3, <2>4 DEF PlaceInv, QueueOnce
  <2>7. JobsOnce'
    BY <1>9, <2>1, <2>2, <2>4 DEF PlaceInv, JobsOnce, TypeInv, WithinFile
  <2>8. PendingIsSomewhere'
    BY <1>9, <2>2, <2>4, <2>5 DEF PlaceInv, PendingIsSomewhere
  <2>9. \A o \in Objects : result[o] = "none" => result'[o] = "none"
    BY <2>1, <2>4
  <2>10. NotYetSubmitted'
    <3>1. project \in Projects => \A p \in Paths : <<p, project>> \in Objects
      BY DEF Objects
    <3>2. \A n \in DOMAIN fresh : fresh[n] \in Paths
      BY DEF TypeInv, TypeOK
    <3> QED
      BY <2>2, <2>9, <3>1, <3>2 DEF PlaceInv, NotYetSubmitted, TypeInv
  <2> QED
    BY <2>6, <2>7, <2>8, <2>10 DEF PlaceInv
<1>10. ASSUME NEW w \in Workers, ReadRecord(w) PROVE PlaceInv'
  <2>1. CASE NextKind(job[w], pos[w]) = "throw"
    BY <1>9, <1>10, <2>1 DEF ReadRecord, ExceptionResult
  <2>2. CASE NextKind(job[w], pos[w]) # "throw"
    <3>1. UNCHANGED <<job, result>> /\ \A v \in Workers \ {w} : pc'[v] = pc[v]
      BY <1>10, <2>2 DEF ReadRecord, TypeInv, TypeOK
    <3>2. pc'[w] # "idle"
      BY <1>10, <2>2 DEF ReadRecord, Resume, TypeInv, TypeOK
    <3> QED
      BY <1>10, <3>1, <3>2, PlaceFrame DEF ReadRecord, fileVars, httpVars
  <2> QED
    BY <2>1, <2>2
<1>11. ASSUME NEW w \in Workers,
              \/ CheckImported(w) \/ CheckIncremental(w) \/ AddIncremental(w)
              \/ UpdateGraph(w) \/ UpdateData(w) \/ SetOffSet(w)
       PROVE  PlaceInv'
  <2>1. /\ UNCHANGED <<fileInfoMap, tasks, result, job, httpPc, project, fresh>>
        /\ pc[w] # "idle" /\ pc'[w] # "idle" /\ \A v \in Workers \ {w} : pc'[v] = pc[v]
    BY <1>11 DEF CheckImported, CheckIncremental, AddIncremental, UpdateGraph, UpdateData,
       SetOffSet, Resume, TypeInv, TypeOK, fileVars, poolVars, httpVars
  <2> QED
    BY <2>1, PlaceFrame
<1>12. ASSUME NEW w \in Workers, TaskDone(w) PROVE PlaceInv'
  BY <1>9, <1>12 DEF TaskDone
<1>13. ASSUME \/ \E i \in Projects : GetParseState(i) \/ WatchProject(i)
              \/ GetIncremental \/ StartRound \/ UNCHANGED vars
       PROVE  PlaceInv'
  <2>1. UNCHANGED <<fileInfoMap, tasks, result, job, pc, httpPc, project, fresh>>
    BY <1>13 DEF GetParseState, WatchProject, GetIncremental, StartRound, vars, fileVars,
       poolVars, workerVars, httpVars
  <2> QED
    BY <2>1, PlaceFrame
<1> QED
  BY <1>1, <1>2, <1>3, <1>4, <1>5, <1>6, <1>7, <1>8, <1>10, <1>11, <1>12, <1>13
     DEF Next, ImportStep, WorkerStep

(* A task is in the queue once, or with one worker, or over, whatever       *)
(* imports and resets do meanwhile.                                         *)
THEOREM TaskInOnePlace == Spec => []TaskIsInOnePlace
<1>1. TypeInv /\ PlaceInv => TaskIsInOnePlace
  <2> SUFFICES ASSUME TypeInv, PlaceInv, NEW o \in Objects
               PROVE  IF result[o] = "pending" THEN \E here \in Places(o) : Places(o) = {here}
                                               ELSE Places(o) = {}
    BY DEF TaskIsInOnePlace
  <2>1. NoJob # o  BY DEF NoJob, Objects
  <2>2. \A w \in Workers : job[w] = o => pc[w] # "idle"
    BY <2>1 DEF PlaceInv, JobsOnce
  <2>3. CASE result[o] # "pending"
    BY <2>2, <2>3 DEF Places, PlaceInv, QueueOnce, JobsOnce
  <2>4. CASE result[o] = "pending"
    <3>1. ASSUME NEW n \in DOMAIN tasks, tasks[n] = o PROVE Places(o) = {<<"queue", n>>}
      BY <2>2, <3>1 DEF Places, PlaceInv, QueueOnce, JobsOnce
    <3>2. ASSUME NEW w \in Workers, job[w] = o PROVE Places(o) = {<<"worker", w>>}
      BY <2>2, <3>2 DEF Places, PlaceInv, QueueOnce, JobsOnce
    <3> QED
      BY <2>4, <3>1, <3>2 DEF PlaceInv, PendingIsSomewhere
  <2> QED
    BY <2>3, <2>4
<1> QED
  BY <1>1, TypeInit, TypeNext, PlaceInit, PlaceNext, PTL DEF Spec

-----------------------------------------------------------------------------
(* Without append = false no import resets anything.                        *)
ResetStates == {"resetFiles", "resetGraphs", "resetIncremental", "resetParse"}

(* GraphsAnnounced and DataReachable, strengthened to every File and to a   *)
(* worker about to write into the graph or into the File.                   *)
Announced(t, p) == <<t, p>> \in incrementalTag \cup delivered

GraphInv ==
  /\ httpPc \notin ResetStates
  /\ \A t \in Tags : \A p \in graphs[t] : Announced(t, p)
  /\ \A w \in Workers : \A k \in CacheFront(w) :
       /\ pc[w] = "graph" => Announced(Tag(job[w], k), job[w][1])
       /\ pc[w] = "append" => job[w][1] \in graphs[Tag(job[w], k)]
  /\ \A o \in Objects, t \in Tags : data[o][t] # <<>> => o[1] \in graphs[t]

LEMMA GraphInit == Init => GraphInv
<1> SUFFICES ASSUME Init PROVE GraphInv  OBVIOUS
<1>1. httpPc \notin ResetStates  BY DEF Init, ResetStates
<1> QED  BY <1>1 DEF Init, GraphInv

(* There is one front.                                                      *)
LEMMA FrontUnique ==
  ASSUME TypeInv, NEW w \in Workers, pc[w] # "idle",
         NEW k \in CacheFront(w), NEW l \in CacheFront(w)
  PROVE  k = l
<1>1. k \in Nat /\ l \in Nat  BY FrontType
<1>2. k <= l /\ l <= k  BY DEF CacheFront
<1> QED  BY <1>1, <1>2

(* What the other threads' steps leave of GraphInv: graphs and announced    *)
(* pairs only grow, and the worker that moves is not where GraphInv asks    *)
(* something of it.                                                         *)
LEMMA GraphFrame ==
  ASSUME GraphInv, httpPc' \notin ResetStates, UNCHANGED <<data, graphs>>,
         incrementalTag \cup delivered \subseteq incrementalTag' \cup delivered',
         \A w \in Workers : \/ UNCHANGED <<pc[w], job[w], pos[w], sent[w]>>
                            \/ pc'[w] \notin {"graph", "append"}
  PROVE  GraphInv'
<1>1. \A t \in Tags : \A p \in graphs'[t] : Announced(t, p)'
  BY DEF GraphInv, Announced
<1>2. ASSUME NEW w \in Workers, NEW k \in CacheFront(w)'
      PROVE  /\ pc'[w] = "graph" => Announced(Tag(job[w], k), job[w][1])'
             /\ pc'[w] = "append" => job'[w][1] \in graphs'[Tag(job[w], k)']
  <2>1. CASE UNCHANGED <<pc[w], job[w], pos[w], sent[w]>>
    <3>1. k \in CacheFront(w) /\ Tag(job[w], k)' = Tag(job[w], k)
      BY <2>1 DEF CacheFront, Cached, Kind, Tag, RecordsOf
    <3> QED  BY <2>1, <3>1 DEF GraphInv, Announced
  <2>2. CASE pc'[w] \notin {"graph", "append"}
    BY <2>2
  <2> QED  BY <2>1, <2>2
<1> QED  BY <1>1, <1>2 DEF GraphInv

LEMMA GraphNext ==
  ~CanReplace /\ TypeInv /\ GraphInv /\ [Next]_vars => GraphInv'
<1> SUFFICES ASSUME ~CanReplace, TypeInv, GraphInv, [Next]_vars PROVE GraphInv'  OBVIOUS
<1>1. ASSUME \/ \E append \in BOOLEAN, list \in ImportLists : ImportFile(append, list)
             \/ ImportStep
      PROVE  GraphInv'
  <2>1. httpPc' \notin ResetStates
    BY <1>1 DEF ImportFile, ImportStep, ResetFiles, ResetGraphs, ResetIncremental, ResetParse,
       AddParseTask, AddFile, OpenProject, Submit, ImportDone, ResetStates, GraphInv
  <2>2. UNCHANGED <<data, graphVars, workerVars>>
    BY <1>1 DEF ImportFile, ImportStep, ResetFiles, ResetGraphs, ResetIncremental, ResetParse,
       AddParseTask, AddFile, OpenProject, Submit, ImportDone, ResetStates, GraphInv,
       fileVars
  <2> QED
    BY <2>1, <2>2, GraphFrame DEF graphVars, workerVars
<1>2. ASSUME \/ \E i \in Projects : GetParseState(i) \/ WatchProject(i)
             \/ StartRound \/ UNCHANGED vars
      PROVE  GraphInv'
  <2>1. UNCHANGED <<data, graphVars, workerVars, httpPc>>
    BY <1>2 DEF GetParseState, WatchProject, StartRound, vars, fileVars, httpVars
  <2> QED
    BY <2>1, GraphFrame DEF graphVars, workerVars, GraphInv
<1>3. ASSUME GetIncremental PROVE GraphInv'
  <2>1. incrementalTag \cup delivered \subseteq incrementalTag' \cup delivered'
    BY <1>3 DEF GetIncremental
  <2>2. UNCHANGED <<data, graphs, workerVars, httpPc>>
    BY <1>3 DEF GetIncremental, fileVars, httpVars
  <2> QED
    BY <2>1, <2>2, GraphFrame DEF workerVars, GraphInv
<1>4. ASSUME NEW w \in Workers,
             TakeTask(w) \/ ReadRecord(w) \/ CheckImported(w) \/ SetOffSet(w) \/ TaskDone(w)
      PROVE  GraphInv'
  <2>1. UNCHANGED <<data, graphVars, httpPc>>
    BY <1>4 DEF TakeTask, ReadRecord, CheckImported, SetOffSet, TaskDone, fileVars, httpVars
  <2>2. \A v \in Workers \ {w} : UNCHANGED <<pc[v], job[v], pos[v], sent[v]>>
    BY <1>4 DEF TakeTask, ReadRecord, CheckImported, SetOffSet, TaskDone, Release, TypeInv,
       TypeOK
  <2>3. pc'[w] \notin {"graph", "append"}
    BY <1>4 DEF TakeTask, ReadRecord, CheckImported, SetOffSet, TaskDone, Release, Resume,
       TypeInv, TypeOK
  <2> QED
    BY <2>1, <2>2, <2>3, GraphFrame DEF graphVars, GraphInv
<1>5. ASSUME NEW w \in Workers,
             CheckIncremental(w) \/ AddIncremental(w) \/ UpdateGraph(w) \/ UpdateData(w)
      PROVE  GraphInv'
  <2>1. PICK k \in CacheFront(w) : TRUE
    BY <1>5 DEF CheckIncremental, AddIncremental, UpdateGraph, UpdateData
  <2> DEFINE t == Tag(job[w], k)
             p == job[w][1]
  <2>2. t \in Tags /\ p \in Paths /\ job[w] \in Objects /\ pc[w] # "idle"
    BY <1>5, FrontType, RecordsType DEF CheckIncremental, AddIncremental, UpdateGraph,
       UpdateData, TypeInv, WithinFile
  <2>3. \A l \in CacheFront(w) : l = k
    BY <2>2, FrontUnique
  <2>4. /\ UNCHANGED <<job, pos, httpPc>>
        /\ \A v \in Workers \ {w} : UNCHANGED <<pc[v], sent[v]>>
    BY <1>5 DEF CheckIncremental, AddIncremental, UpdateGraph, UpdateData, httpVars, TypeInv,
       TypeOK
  <2>5. \A v \in Workers : \A l : Tag(job[v], l)' = Tag(job[v], l)
    BY <2>4 DEF Tag, RecordsOf
  <2>6. ASSUME NEW v \in Workers, UNCHANGED sent[v] PROVE CacheFront(v)' = CacheFront(v)
    BY <2>4, <2>6 DEF CacheFront, Cached, Kind, RecordsOf
  <2> HIDE DEF t, p
  <2>7. CASE CheckIncremental(w)
    <3>1. UNCHANGED <<sent, data, graphs, incrementalTag, delivered>>
      BY <2>7 DEF CheckIncremental, fileVars, graphVars
    <3>2. pc'[w] = IF p \notin graphs[t] THEN "announce" ELSE "graph"
      BY <2>1, <2>3, <2>7 DEF CheckIncremental, IsIncremental, TypeInv, TypeOK, t, p
    <3>3. pc'[w] = "graph" => Announced(t, p)
      BY <2>2, <3>2 DEF GraphInv
    <3> QED
      BY <2>3, <2>4, <2>5, <2>6, <3>1, <3>2, <3>3 DEF GraphInv, Announced, t, p
  <2>8. CASE AddIncremental(w)
    <3>1. UNCHANGED <<sent, data, graphs, delivered>>
      BY <2>8 DEF AddIncremental, fileVars
    <3>2. pc'[w] = "graph" /\ incrementalTag' = incrementalTag \cup {<<t, p>>}
      BY <2>1, <2>3, <2>8 DEF AddIncremental, TypeInv, TypeOK, t, p
    <3> QED
      BY <2>3, <2>4, <2>5, <2>6, <3>1, <3>2 DEF GraphInv, Announced, t, p
  <2>9. CASE UpdateGraph(w)
    <3>1. UNCHANGED <<sent, data, incrementalTag, delivered>> /\ pc[w] = "graph"
      BY <2>9 DEF UpdateGraph, fileVars
    <3>2. pc'[w] = "append" /\ graphs' = [graphs EXCEPT ![t] = graphs[t] \cup {p}]
      BY <2>1, <2>3, <2>9 DEF UpdateGraph, WithFile, TypeInv, TypeOK, t, p
    <3>3. graphs \in [Tags -> SUBSET Paths]  BY DEF TypeInv, TypeOK
    <3>4. /\ p \in graphs'[t]
          /\ \A u \in Tags : graphs[u] \subseteq graphs'[u]
          /\ \A u \in Tags : \A q \in graphs'[u] : q \in graphs[u] \/ (u = t /\ q = p)
      BY <2>2, <3>2, <3>3
    <3>5. Announced(t, p)
      BY <2>1, <3>1 DEF GraphInv, t, p
    <3>6. \A u \in Tags : \A q \in graphs'[u] : Announced(u, q)'
      BY <3>1, <3>4, <3>5 DEF GraphInv, Announced
    <3>7. \A o \in Objects, u \in Tags : data'[o][u] # <<>> => o[1] \in graphs'[u]
      BY <3>1, <3>4 DEF GraphInv
    <3>8. ASSUME NEW v \in Workers, NEW l \in CacheFront(v)'
          PROVE  /\ pc'[v] = "graph" => Announced(Tag(job[v], l), job[v][1])'
                 /\ pc'[v] = "append" => job'[v][1] \in graphs'[Tag(job[v], l)']
      <4>1. l \in CacheFront(v)  BY <2>6, <3>1, <3>8
      <4>2. CASE v = w
        BY <2>3, <2>4, <2>5, <3>2, <3>4, <4>1, <4>2 DEF t, p
      <4>3. CASE v # w
        <5>1. pc'[v] = "append" => pc[v] # "idle" /\ Tag(job[v], l) \in Tags
          BY <2>4, <4>1, <4>3, FrontType
        <5> QED
          BY <2>4, <2>5, <3>1, <3>4, <4>1, <4>3, <5>1 DEF GraphInv, Announced
      <4> QED  BY <4>2, <4>3
    <3> QED
      BY <2>4, <3>6, <3>7, <3>8 DEF GraphInv
  <2>10. CASE UpdateData(w)
    <3>1. UNCHANGED <<graphs, incrementalTag, delivered>> /\ pc[w] = "append"
      BY <2>10 DEF UpdateData, graphVars
    <3>2. pc'[w] \notin {"graph", "append"} /\ \A v \in Workers \ {w} : sent'[v] = sent[v]
      BY <2>10 DEF UpdateData, Resume, TypeInv, TypeOK
    <3>3. p \in graphs[t]
      BY <2>1, <3>1 DEF GraphInv, t, p
    <3>4. data' = IF IsFileImported(p)
                  THEN [data EXCEPT ![Live(p)][t] = Append(@, k)] ELSE data
      BY <2>3, <2>10 DEF UpdateData, t, p
    <3>5. \A o \in Objects, u \in Tags :
            data'[o][u] = data[o][u] \/ (o[1] = p /\ u = t)
      <4>1. Live(p)[1] = p  BY DEF Live
      <4>2. IsFileImported(p) => Live(p) \in Objects
        BY <2>2 DEF Live, IsFileImported, Objects, TypeInv, TypeOK
      <4> QED
        BY <2>2, <3>4, <4>1, <4>2 DEF TypeInv, TypeOK
    <3>6. \A o \in Objects, u \in Tags : data'[o][u] # <<>> => o[1] \in graphs'[u]
      BY <3>1, <3>3, <3>5 DEF GraphInv
    <3>7. ASSUME NEW v \in Workers, NEW l \in CacheFront(v)'
          PROVE  /\ pc'[v] = "graph" => Announced(Tag(job[v], l), job[v][1])'
                 /\ pc'[v] = "append" => job'[v][1] \in graphs'[Tag(job[v], l)']
      <4>1. CASE v = w  BY <3>2, <4>1
      <4>2. CASE v # w
        <5>1. l \in CacheFront(v)  BY <2>6, <3>2, <3>7, <4>2
        <5> QED
          BY <2>4, <2>5, <3>1, <4>2, <5>1 DEF GraphInv, Announced
      <4> QED  BY <4>1, <4>2
    <3> QED
      BY <2>4, <3>1, <3>6, <3>7 DEF GraphInv, Announced
  <2> QED
    BY <1>5, <2>7, <2>8, <2>9, <2>10
<1> QED
  BY <1>1, <1>2, <1>3, <1>4, <1>5 DEF Next, WorkerStep

(* While clients only append, every graph is announced to the client that   *)
(* polls GetIncrementalTag, ...                                             *)
THEOREM AppendAnnouncesGraphs ==
  ASSUME ~CanReplace
  PROVE  Spec => []GraphsAnnounced
<1>1. GraphInv => GraphsAnnounced  BY DEF GraphInv, GraphsAnnounced, Announced
<1> QED  BY <1>1, TypeInit, TypeNext, GraphInit, GraphNext, PTL DEF Spec

(* ... and every point that is in a File can be reached through its graph.  *)
THEOREM AppendKeepsDataReachable ==
  ASSUME ~CanReplace
  PROVE  Spec => []DataReachable
<1>1. TypeInv /\ GraphInv => DataReachable
  <2> SUFFICES ASSUME TypeInv, GraphInv, NEW p \in Paths, NEW t \in Tags, IsFileImported(p),
                      data[Live(p)][t] # <<>>
               PROVE  p \in graphs[t]
    BY DEF DataReachable
  <2>1. Live(p) \in Objects /\ Live(p)[1] = p
    BY DEF Live, IsFileImported, Objects, TypeInv, TypeOK
  <2> QED
    BY <2>1 DEF GraphInv
<1> QED  BY <1>1, TypeInit, TypeNext, GraphInit, GraphNext, PTL DEF Spec

-----------------------------------------------------------------------------
(* DataAscending and DataOnce, strengthened to: every task writes into the  *)
(* File of its own import, what it writes is ascending, and it has written  *)
(* nothing beyond the last record it took out of its cache.                 *)
Ascending(s) == \A m, n \in DOMAIN s : m < n => s[m] < s[n]

OwnFile ==
  /\ \A o \in Objects : result[o] # "none" => fileInfoMap[o[1]] = o[2]
  /\ httpPc \in {"add", "submit"} => \A n \in DOMAIN fresh : fileInfoMap[fresh[n]] = project

Untouched(o) == \A t \in Tags : data[o][t] = <<>>

DataInv ==
  /\ httpPc \notin ResetStates
  /\ \A o \in Objects, t \in Tags : Ascending(data[o][t])
  /\ \A o \in Objects : result[o] = "none" => Untouched(o)
  /\ \A n \in DOMAIN tasks : Untouched(tasks[n])
  /\ \A w \in Workers : pc[w] # "idle" =>
       \A t \in Tags : \A n \in DOMAIN data[job[w]][t] : data[job[w]][t][n] <= sent[w]

LEMMA OwnInit == Init => OwnFile
BY DEF Init, OwnFile

LEMMA OwnNext ==
  ~CanReplace /\ TypeInv /\ PlaceInv /\ GraphInv /\ OwnFile /\ [Next]_vars => OwnFile'
<1> SUFFICES ASSUME ~CanReplace, TypeInv, PlaceInv, GraphInv, OwnFile, [Next]_vars
             PROVE  OwnFile'
  OBVIOUS
<1>1. ASSUME NEW append \in BOOLEAN, NEW list \in ImportLists, ImportFile(append, list)
      PROVE  OwnFile'
  BY <1>1 DEF ImportFile, OwnFile, fileVars, poolVars
<1>2. ASSUME ResetFiles \/ ResetGraphs \/ ResetIncremental \/ ResetParse PROVE OwnFile'
  BY <1>2 DEF ResetFiles, ResetGraphs, ResetIncremental, ResetParse, GraphInv, ResetStates
<1>3. ASSUME AddParseTask PROVE OwnFile'
  BY <1>3 DEF AddParseTask, OwnFile, fileVars, poolVars
<1>4. ASSUME AddFile PROVE OwnFile'
  <2>1. /\ fresh \in Seq(Paths) /\ Head(todo) \in Paths /\ httpPc = "add"
        /\ fileInfoMap \in [Paths -> {0} \cup Projects]
        /\ UNCHANGED <<httpPc, project, result>>
    BY <1>4 DEF AddFile, TypeInv, TypeOK, poolVars
  <2>2. CASE UNCHANGED <<fresh, fileInfoMap>>
    BY <2>1, <2>2 DEF OwnFile
  <2>3. CASE /\ fileInfoMap[Head(todo)] = 0
             /\ fresh' = Append(fresh, Head(todo))
             /\ fileInfoMap' = [fileInfoMap EXCEPT ![Head(todo)] = project]
    <3>1. \A o \in Objects : o[1] \in Paths /\ o[2] # 0
      BY DEF Objects, Projects
    <3>2. \A o \in Objects : result'[o] # "none" => fileInfoMap'[o[1]] = o[2]
      BY <2>1, <2>3, <3>1 DEF OwnFile
    <3>3. \A n \in DOMAIN fresh : fresh[n] \in Paths /\ fileInfoMap'[fresh[n]] = project
      BY <2>1, <2>3, AppendFacts DEF OwnFile
    <3>4. \A n \in DOMAIN fresh' : fileInfoMap'[fresh'[n]] = project
      BY <2>1, <2>3, <3>3, AppendFacts
    <3> QED
      BY <2>1, <3>2, <3>4 DEF OwnFile
  <2> QED
    BY <1>4, <2>2, <2>3 DEF AddFile, ToBeAdded, IsFileImported
<1>5. ASSUME OpenProject \/ ImportDone PROVE OwnFile'
  BY <1>5 DEF OpenProject, ImportDone, OwnFile, fileVars, poolVars
<1>6. ASSUME Submit PROVE OwnFile'
  <2>1. /\ fresh \in Seq(Paths) /\ fresh # <<>> /\ project \in Projects /\ httpPc = "submit"
        /\ fresh' = Tail(fresh) /\ UNCHANGED <<httpPc, project, fileInfoMap>>
        /\ result' = [result EXCEPT ![<<Head(fresh), project>>] = "pending"]
        /\ result \in [Objects -> {"none", "pending", "empty", "data", "thrown"}]
    BY <1>6 DEF Submit, TypeInv, TypeOK, fileVars
  <2>2. Head(fresh) = fresh[1] /\ 1 \in DOMAIN fresh
    BY <2>1, TailFacts
  <2>3. fileInfoMap[Head(fresh)] = project
    BY <2>1, <2>2 DEF OwnFile
  <2>4. \A o \in Objects : result'[o] # "none" => fileInfoMap'[o[1]] = o[2]
    BY <2>1, <2>3 DEF OwnFile
  <2>5. \A n \in DOMAIN fresh' : n + 1 \in DOMAIN fresh /\ fresh'[n] = fresh[n + 1]
    BY <2>1, TailFacts
  <2> QED
    BY <2>1, <2>4, <2>5 DEF OwnFile
<1>7. ASSUME NEW w \in Workers, WorkerStep(w) PROVE OwnFile'
  <2>1. UNCHANGED <<fileInfoMap, httpPc, project, fresh>>
    BY <1>7 DEF WorkerStep, TakeTask, ReadRecord, CheckImported, CheckIncremental,
       AddIncremental, UpdateGraph, UpdateData, SetOffSet, TaskDone, fileVars, httpVars
  <2>2. \A o \in Objects : result[o] = "none" => result'[o] = "none"
    <3>1. result' = result \/ \E r : pc[w] # "idle" /\ result' = [result EXCEPT ![job[w]] = r]
      BY <1>7 DEF WorkerStep, TakeTask, ReadRecord, CheckImported, CheckIncremental,
         AddIncremental, UpdateGraph, UpdateData, SetOffSet, TaskDone, poolVars
    <3> QED
      BY <3>1 DEF PlaceInv, JobsOnce, TypeInv, TypeOK
  <2> QED
    BY <2>1, <2>2 DEF OwnFile
<1>8. ASSUME \/ \E i \in Projects : GetParseState(i) \/ WatchProject(i)
             \/ GetIncremental \/ StartRound \/ UNCHANGED vars
      PROVE  OwnFile'
  BY <1>8 DEF GetParseState, WatchProject, GetIncremental, StartRound, vars, fileVars,
     poolVars, httpVars, OwnFile
<1> QED
  BY <1>1, <1>2, <1>3, <1>4, <1>5, <1>6, <1>7, <1>8 DEF Next, ImportStep

LEMMA DataInit == Init => DataInv
<1> SUFFICES ASSUME Init PROVE DataInv  OBVIOUS
<1>1. httpPc \notin ResetStates  BY DEF Init, ResetStates
<1> QED  BY <1>1 DEF Init, DataInv, Ascending, Untouched

(* A step that adds no point, starts no task and moves no worker's sent.    *)
LEMMA DataFrame ==
  ASSUME DataInv, httpPc' \notin ResetStates, UNCHANGED <<data, tasks>>,
         \A o \in Objects : result'[o] = "none" => result[o] = "none",
         \A w \in Workers : pc'[w] # "idle" => pc[w] # "idle" /\ UNCHANGED <<job[w], sent[w]>>
  PROVE  DataInv'
BY DEF DataInv, Untouched, Ascending

LEMMA DataNext ==
  ~CanReplace /\ TypeInv /\ PlaceInv /\ GraphInv /\ OwnFile /\ DataInv /\ [Next]_vars
    => DataInv'
<1> SUFFICES ASSUME ~CanReplace, TypeInv, PlaceInv, GraphInv, OwnFile, DataInv, [Next]_vars
             PROVE  DataInv'
  OBVIOUS
<1>0. httpPc' \notin ResetStates
  BY GraphNext DEF GraphInv
<1>1. ASSUME Submit PROVE DataInv'
  <2> DEFINE o == <<Head(fresh), project>>
  <2>1. /\ fresh \in Seq(Paths) /\ fresh # <<>> /\ project \in Projects /\ httpPc = "submit"
        /\ tasks \in Seq(Objects) /\ tasks' = Append(tasks, o)
        /\ result' = [result EXCEPT ![o] = "pending"]
        /\ UNCHANGED <<data, pc, job, sent>>
        /\ result \in [Objects -> {"none", "pending", "empty", "data", "thrown"}]
    BY <1>1 DEF Submit, TypeInv, TypeOK, fileVars, workerVars
  <2>2. Head(fresh) = fresh[1] /\ 1 \in DOMAIN fresh /\ fresh[1] \in Paths
    BY <2>1, TailFacts
  <2>3. o \in Objects /\ result[o] = "none"
    BY <2>1, <2>2 DEF Objects, PlaceInv, NotYetSubmitted
  <2> HIDE DEF o
  <2>4. \A n \in DOMAIN tasks' : tasks'[n] = o \/ \E m \in DOMAIN tasks : tasks'[n] = tasks[m]
    BY <2>1, <2>3, AppendFacts
  <2>5. \A q \in Objects : result'[q] = "none" => result[q] = "none"
    BY <2>1, <2>3
  <2>6. \A q : Untouched(q)' <=> Untouched(q)
    BY <2>1 DEF Untouched
  <2> QED
    BY <1>0, <2>1, <2>3, <2>4, <2>5, <2>6 DEF DataInv, Ascending
<1>2. ASSUME \/ \E append \in BOOLEAN, list \in ImportLists : ImportFile(append, list)
             \/ ResetFiles \/ ResetGraphs \/ ResetIncremental \/ ResetParse
             \/ AddParseTask \/ AddFile \/ OpenProject \/ ImportDone
             \/ \E i \in Projects : GetParseState(i) \/ WatchProject(i)
             \/ GetIncremental \/ StartRound \/ UNCHANGED vars
      PROVE  DataInv'
  <2>1. UNCHANGED <<data, tasks, result, pc, job, sent>>
    BY <1>2 DEF ImportFile, ResetFiles, ResetGraphs, ResetIncremental, ResetParse,
       AddParseTask, AddFile, OpenProject, ImportDone, GetParseState, WatchProject,
       GetIncremental, StartRound, vars, fileVars, workerVars, poolVars
  <2> QED
    BY <1>0, <2>1, DataFrame
<1>3. ASSUME NEW w \in Workers, TakeTask(w) PROVE DataInv'
  <2>1. /\ tasks \in Seq(Objects) /\ tasks # <<>> /\ tasks' = Tail(tasks)
        /\ job' = [job EXCEPT ![w] = Head(tasks)]
        /\ UNCHANGED <<data, result>>
        /\ \A v \in Workers \ {w} : UNCHANGED <<pc[v], job[v], sent[v]>>
    BY <1>3 DEF TakeTask, PopFront, TypeInv, TypeOK, fileVars
  <2>2. Head(tasks) = tasks[1] /\ 1 \in DOMAIN tasks /\ job'[w] = tasks[1]
    BY <2>1, TailFacts DEF TypeInv, TypeOK
  <2>3. Untouched(job'[w])
    BY <2>2 DEF DataInv
  <2>4. \A t \in Tags : DOMAIN data'[job'[w]][t] = {}
    BY <2>1, <2>3 DEF Untouched
  <2>5. \A n \in DOMAIN tasks' : n + 1 \in DOMAIN tasks /\ tasks'[n] = tasks[n + 1]
    BY <2>1, TailFacts
  <2>6. \A q : Untouched(q)' <=> Untouched(q)
    BY <2>1 DEF Untouched
  <2>7. \A v \in Workers : pc'[v] # "idle" =>
          \A t \in Tags : \A n \in DOMAIN data'[job'[v]][t] : data'[job'[v]][t][n] <= sent'[v]
    BY <2>1, <2>4 DEF DataInv
  <2> QED
    BY <1>0, <2>1, <2>5, <2>6, <2>7 DEF DataInv, Ascending
<1>4. ASSUME NEW w \in Workers,
             \/ ReadRecord(w) \/ CheckImported(w) \/ CheckIncremental(w) \/ AddIncremental(w)
             \/ UpdateGraph(w) \/ SetOffSet(w) \/ TaskDone(w)
      PROVE  DataInv'
  <2>1. UNCHANGED <<data, tasks>> /\ pc[w] # "idle"
    BY <1>4 DEF ReadRecord, CheckImported, CheckIncremental, AddIncremental, UpdateGraph,
       SetOffSet, TaskDone, fileVars, poolVars
  <2>2. \A v \in Workers \ {w} : UNCHANGED <<pc[v], job[v], sent[v]>>
    BY <1>4 DEF ReadRecord, CheckImported, CheckIncremental, AddIncremental, UpdateGraph,
       SetOffSet, TaskDone, Release, TypeInv, TypeOK
  <2>3. pc'[w] # "idle" => UNCHANGED <<job[w], sent[w]>>
    BY <1>4 DEF ReadRecord, CheckImported, CheckIncremental, AddIncremental, UpdateGraph,
       SetOffSet, TaskDone, Release, TypeInv, TypeOK
  <2>4. \A o \in Objects : result'[o] = "none" => result[o] = "none"
    <3>1. \/ result' = result
          \/ \E r \in {"empty", "data", "thrown"} : result' = [result EXCEPT ![job[w]] = r]
      BY <1>4 DEF ReadRecord, CheckImported, CheckIncremental, AddIncremental, UpdateGraph,
         SetOffSet, TaskDone, ExceptionResult, poolVars
    <3> QED
      BY <3>1 DEF TypeInv, TypeOK
  <2> QED
    BY <1>0, <2>1, <2>2, <2>3, <2>4, DataFrame
<1>5. ASSUME NEW w \in Workers, UpdateData(w) PROVE DataInv'
  <2> DEFINE o == job[w]
  <2>1. PICK k \in CacheFront(w) :
          /\ data' = IF IsFileImported(o[1])
                     THEN [data EXCEPT ![Live(o[1])][Tag(o, k)] = Append(@, k)]
                     ELSE data
          /\ sent' = [sent EXCEPT ![w] = k]
    BY <1>5 DEF UpdateData, PopCache
  <2> DEFINE t == Tag(o, k)
             s == data[o][t]
  <2>2. /\ o \in Objects /\ t \in Tags /\ k \in Nat /\ sent[w] < k /\ pc[w] # "idle"
        /\ UNCHANGED <<job, tasks, result>>
        /\ \A v \in Workers \ {w} : UNCHANGED <<pc[v], sent[v]>>
        /\ pc'[w] # "idle"
    BY <1>5, FrontType DEF UpdateData, Resume, TypeInv, TypeOK, WithinFile, poolVars
  <2>3. result[o] = "pending" /\ \A n \in DOMAIN tasks : tasks[n] # o
    BY <2>2 DEF PlaceInv, JobsOnce
  <2>4. \A v \in Workers \ {w} : pc[v] # "idle" => job[v] # o
    BY <2>2 DEF PlaceInv, JobsOnce
  <2>5. fileInfoMap[o[1]] = o[2] /\ o[2] # 0 /\ o = <<o[1], o[2]>>
    BY <2>2, <2>3 DEF OwnFile, Objects, Projects
  <2>6. IsFileImported(o[1]) /\ Live(o[1]) = o
    BY <2>5 DEF IsFileImported, Live
  <2>7. data \in [Objects -> [Tags -> Seq(Nat)]] /\ sent \in [Workers -> Nat]
    BY DEF TypeInv, TypeOK
  <2>8. s \in Seq(Nat)  BY <2>2, <2>7
  <2> HIDE DEF o, t, s
  <2>9. /\ data'[o][t] = Append(s, k)
        /\ \A u \in Tags \ {t} : data'[o][u] = data[o][u]
        /\ \A q \in Objects \ {o} : data'[q] = data[q]
    BY <2>1, <2>2, <2>6, <2>7 DEF s, t
  <2>10. \A n \in DOMAIN s : s[n] \in Nat /\ s[n] < k
    BY <2>2, <2>7, <2>8 DEF DataInv, o, s
  <2>11. Ascending(Append(s, k))
    <3>1. Ascending(s)  BY <2>2 DEF DataInv, s
    <3>2. /\ DOMAIN Append(s, k) = 1 .. Len(s) + 1 /\ DOMAIN s = 1 .. Len(s) /\ Len(s) \in Nat
          /\ \A n \in DOMAIN s : Append(s, k)[n] = s[n]
          /\ Append(s, k)[Len(s) + 1] = k
      BY <2>2, <2>8, AppendFacts
    <3> QED
      BY <2>10, <3>1, <3>2 DEF Ascending
  <2>12. \A q \in Objects, u \in Tags : Ascending(data'[q][u])
    BY <2>2, <2>9, <2>11 DEF DataInv
  <2>13. \A q \in Objects \ {o} : Untouched(q) => Untouched(q)'
    BY <2>9 DEF Untouched
  <2>14. \A u \in Tags : \A n \in DOMAIN data'[o][u] : data'[o][u][n] <= k
    <3>1. \A n \in DOMAIN Append(s, k) : Append(s, k)[n] <= k
      BY <2>2, <2>8, <2>10, AppendFacts
    <3>2. ASSUME NEW u \in Tags \ {t}, NEW n \in DOMAIN data[o][u]
          PROVE  data[o][u][n] <= k
      <4>1. data[o][u][n] \in Nat  BY <2>2, <2>7
      <4> QED  BY <2>2, <2>7, <4>1 DEF DataInv, o
    <3> QED
      BY <2>9, <3>1, <3>2
  <2>15. ASSUME NEW v \in Workers, pc'[v] # "idle", NEW u \in Tags,
                NEW n \in DOMAIN data'[job'[v]][u]
         PROVE  data'[job'[v]][u][n] <= sent'[v]
    <3>1. CASE v = w
      BY <2>1, <2>2, <2>7, <2>14, <2>15, <3>1, SMTT(30) DEF o
    <3>2. CASE v # w
      <4>1. pc[v] # "idle" /\ job[v] \in Objects \ {o}
        BY <2>2, <2>4, <2>15, <3>2 DEF TypeInv, WithinFile
      <4> QED
        BY <2>2, <2>9, <2>15, <3>2, <4>1 DEF DataInv
    <3> QED  BY <3>1, <3>2
  <2>16. \A n \in DOMAIN tasks : tasks[n] \in Objects
    BY DEF TypeInv, TypeOK
  <2> QED
    BY <1>0, <2>2, <2>3, <2>12, <2>13, <2>15, <2>16 DEF DataInv
<1> QED
  BY <1>1, <1>2, <1>3, <1>4, <1>5 DEF Next, ImportStep, WorkerStep

(* The data of every File a client can reach, while clients only append.    *)
LEMMA LiveAscending ==
  ASSUME TypeInv, DataInv, NEW p \in Paths, IsFileImported(p), NEW t \in Tags
  PROVE  data[Live(p)][t] \in Seq(Nat) /\ Ascending(data[Live(p)][t])
<1>1. Live(p) \in Objects
  BY DEF Live, IsFileImported, Objects, TypeInv, TypeOK
<1> QED
  BY <1>1 DEF DataInv, TypeInv, TypeOK

(* The condition File::GetBoundary's bisection states holds as long as      *)
(* clients only append, ...                                                 *)
THEOREM AppendKeepsDataAscending ==
  ASSUME ~CanReplace
  PROVE  Spec => []DataAscending
<1>1. TypeInv /\ DataInv => DataAscending
  <2> SUFFICES ASSUME TypeInv, DataInv, NEW p \in Paths, IsFileImported(p), NEW t \in Tags,
                      NEW m \in DOMAIN data[Live(p)][t], NEW n \in DOMAIN data[Live(p)][t],
                      m < n
               PROVE  data[Live(p)][t][m] <= data[Live(p)][t][n]
    BY DEF DataAscending
  <2> QED
    BY LiveAscending DEF Ascending
<1> QED
  BY <1>1, TypeInit, TypeNext, PlaceInit, PlaceNext, GraphInit, GraphNext, OwnInit, OwnNext,
     DataInit, DataNext, PTL DEF Spec

(* ... and no point of a file is stored twice.                              *)
THEOREM AppendStoresDataOnce ==
  ASSUME ~CanReplace
  PROVE  Spec => []DataOnce
<1>1. TypeInv /\ DataInv => DataOnce
  <2> SUFFICES ASSUME TypeInv, DataInv, NEW p \in Paths, IsFileImported(p), NEW t \in Tags,
                      NEW m \in DOMAIN data[Live(p)][t], NEW n \in DOMAIN data[Live(p)][t],
                      data[Live(p)][t][m] = data[Live(p)][t][n]
               PROVE  m = n
    BY DEF DataOnce
  <2>1. data[Live(p)][t] \in Seq(Nat) /\ Ascending(data[Live(p)][t])
    BY LiveAscending
  <2>2. m \in Nat /\ n \in Nat /\ data[Live(p)][t][m] \in Nat
    BY <2>1
  <2> QED
    BY <2>1, <2>2 DEF Ascending
<1> QED
  BY <1>1, TypeInit, TypeNext, PlaceInit, PlaceNext, GraphInit, GraphNext, OwnInit, OwnNext,
     DataInit, DataNext, PTL DEF Spec

=============================================================================
