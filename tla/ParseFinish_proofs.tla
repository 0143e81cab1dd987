------------------------- MODULE ParseFinish_proofs -------------------------
(***************************************************************************)
(* FinishedMeansLoaded and PercentNeverFalls of ParsePipeline for every    *)
(* value of its constants: what a task has stored when it ends, what       *)
(* parseWatcher and GetParseState make of it, across the Resets of imports *)
(* that replace, and the sum that the percentage is taken from.            *)
(***************************************************************************)
EXTENDS ParsePipeline_proofs, FiniteSetTheorems, WellFoundedInduction

-----------------------------------------------------------------------------
(* What a task stores.                                                     *)
Stored(o, k) == \E n \in DOMAIN data[o][Tag(o, k)] : data[o][Tag(o, k)][n] = k

StoredUpTo(o, m) == \A k \in DOMAIN RecordsOf(o) : Kind(o, k) = "scalar" /\ k <= m => Stored(o, k)

(* A task flushes before it ends all that it could read of its file.       *)
AllFlushed(w) ==
  pos[w] = 0 \/ (force[w] /\ Cached(job[w], sent[w], pos[w]) = {})

WorkerFlush(w) ==
  /\ sent[w] <= pos[w] /\ StoredUpTo(job[w], sent[w])
  /\ pc[w] = "read" => ~force[w]
  /\ force[w] => NextKind(job[w], pos[w]) \in {"end", "corrupt"}
  /\ pc[w] \in {"setOffSet", "return"} => AllFlushed(w)

(* A File is the one its path names until a Reset; after one its task may  *)
(* drop its points, or put them into the File of a later import.           *)
Current(o) == fileInfoMap[o[1]] = o[2]

FlushInv ==
  /\ \A o \in Objects : result[o] = "none" => offSet[o] = 0
  /\ \A n \in DOMAIN tasks : offSet[tasks[n]] = 0
  /\ \A w \in Workers : pc[w] # "idle" /\ Current(job[w]) => WorkerFlush(w)
  /\ \A o \in Objects : result[o] = "data" /\ Current(o) => Loaded(o)

LEMMA FlushInit == Init => FlushInv
BY DEF Init, FlushInv

(* What a step leaves in the Files: nothing in them moves or goes, and a   *)
(* File whose task has been submitted is not the one its path names again. *)
DataKept ==
  \A o \in Objects, t \in Tags : \A n \in DOMAIN data[o][t] :
    n \in DOMAIN data'[o][t] /\ data'[o][t][n] = data[o][t][n]

NoneRevived == \A o \in Objects : Current(o)' => Current(o) \/ result[o] = "none"

LEMMA StoredKept ==
  ASSUME DataKept, NEW o \in Objects, NEW k \in DOMAIN RecordsOf(o), Stored(o, k)
  PROVE  Stored(o, k)'
<1>1. RecordsOf(o)[k] \in Record
  BY RecordsType
<1>2. Tag(o, k) \in Tags /\ Tag(o, k)' = Tag(o, k)
  BY <1>1 DEF Tag, Record, RecordsOf
<1> QED
  BY <1>2 DEF DataKept, Stored

LEMMA StoredUpToKept ==
  ASSUME DataKept, NEW o \in Objects, NEW m, StoredUpTo(o, m)
  PROVE  StoredUpTo(o, m)'
<1>1. \A k \in DOMAIN RecordsOf(o) : Kind(o, k) = "scalar" /\ k <= m => Stored(o, k)'
  BY StoredKept DEF StoredUpTo
<1> QED
  BY <1>1 DEF StoredUpTo, RecordsOf, Kind

(* What a worker has kept it keeps.                                        *)
LEMMA WorkerKept ==
  ASSUME DataKept, NEW w \in Workers, WorkerFlush(w), job[w] \in Objects,
         UNCHANGED <<pc[w], job[w], pos[w], sent[w], force[w]>>
  PROVE  WorkerFlush(w)'
<1>1. StoredUpTo(job[w], sent[w])'
  <2>1. \A o, m : o = job[w] /\ m = sent[w] => StoredUpTo(o, m)'
    BY StoredUpToKept DEF WorkerFlush
  <2> QED
    BY <2>1 DEF StoredUpTo, Stored, Kind, Tag, RecordsOf
<1>2. (NextKind(job[w], pos[w]))' = NextKind(job[w], pos[w])
  BY DEF NextKind, Kind, RecordsOf
<1>3. (Cached(job[w], sent[w], pos[w]))' = Cached(job[w], sent[w], pos[w])
  BY DEF Cached, Kind, RecordsOf
<1>4. AllFlushed(w)' <=> AllFlushed(w)
  BY <1>3 DEF AllFlushed
<1> QED
  BY <1>1, <1>2, <1>4 DEF WorkerFlush

LEMMA LoadedKept ==
  ASSUME DataKept, NEW o \in Objects, Loaded(o)
  PROVE  Loaded(o)'
<1>1. \A k \in Readable(o) : Stored(o, k)'
  BY StoredKept DEF Loaded, Readable, Stored
<1> QED
  BY <1>1 DEF Loaded, Stored, Readable, Kind, Tag, RecordsOf

(* A task whose file has been read to its end, or to the record that the   *)
(* parser rejects, and whose cache is empty, has loaded the file.          *)
LEMMA FlushedIsLoaded ==
  ASSUME TypeInv, NEW w \in Workers, pc[w] # "idle", WorkerFlush(w),
         force[w], Cached(job[w], sent[w], pos[w]) = {}
  PROVE  Loaded(job[w])
<1> DEFINE o == job[w]
<1>1. /\ o \in Objects /\ pos[w] \in Nat /\ sent[w] \in Nat
      /\ RecordsOf(o) \in Seq(Record) /\ Len(RecordsOf(o)) \in Nat
  BY RecordsType DEF TypeInv, TypeOK, WithinFile
<1>2. NextKind(o, pos[w]) \in {"end", "corrupt"} /\ StoredUpTo(o, sent[w])
  BY DEF WorkerFlush
<1>3. Cached(o, sent[w], pos[w]) = {}
  OBVIOUS
<1> HIDE DEF o
<1>4. ASSUME NEW k \in Readable(o) PROVE Stored(o, k)
  <2>1. /\ k \in DOMAIN RecordsOf(o) /\ Kind(o, k) = "scalar" /\ k \in Nat
        /\ k <= Len(RecordsOf(o)) /\ \A l \in 1 .. k : Kind(o, l) # "corrupt"
    BY <1>1 DEF Readable
  <2>2. CASE k <= sent[w]
    BY <1>2, <2>1, <2>2 DEF StoredUpTo
  <2>3. CASE sent[w] < k /\ k <= pos[w]
    <3>1. k \in sent[w] + 1 .. pos[w]
      BY <1>1, <2>1, <2>3
    <3> QED
      BY <1>3, <2>1, <3>1 DEF Cached
  <2>4. CASE pos[w] < k
    <3>1. pos[w] + 1 \in 1 .. k /\ pos[w] < Len(RecordsOf(o))
      BY <1>1, <2>1, <2>4
    <3>2. NextKind(o, pos[w]) = Kind(o, pos[w] + 1)
      BY <3>1 DEF NextKind
    <3>3. Kind(o, pos[w] + 1) # "end"
      <4>1. pos[w] + 1 \in 1 .. Len(RecordsOf(o))
        BY <1>1, <3>1
      <4>2. RecordsOf(o)[pos[w] + 1] \in Record
        BY <1>1, <4>1
      <4> QED
        BY <4>2 DEF Kind, Record, Kinds
    <3> QED
      BY <1>2, <2>1, <3>1, <3>2, <3>3
  <2> QED
    BY <1>1, <2>1, <2>2, <2>3, <2>4
<1> QED
  BY <1>4 DEF Loaded, Stored, o

(* A step that ends no task well and starts none, and makes no File whose  *)
(* task has been submitted the current one.                                *)
LEMMA FlushFrame ==
  ASSUME TypeInv, PlaceInv, FlushInv, DataKept, NoneRevived, UNCHANGED <<tasks, offSet>>,
         \A o \in Objects : result'[o] \in {"none", "data"} => result[o] = result'[o],
         \A w \in Workers : pc'[w] # "idle" =>
           pc[w] # "idle" /\ UNCHANGED <<pc[w], job[w], pos[w], sent[w], force[w]>>
  PROVE  FlushInv'
<1>1. \A o \in Objects : result'[o] = "none" => offSet'[o] = 0
  BY DEF FlushInv
<1>2. \A n \in DOMAIN tasks' : offSet'[tasks'[n]] = 0
  BY DEF FlushInv
<1>3. ASSUME NEW w \in Workers, pc'[w] # "idle", Current(job[w])'
      PROVE  WorkerFlush(w)'
  <2>1. /\ job[w] \in Objects /\ result[job[w]] = "pending"
        /\ pc[w] # "idle" /\ UNCHANGED <<pc[w], job[w], pos[w], sent[w], force[w]>>
    BY <1>3 DEF TypeInv, WithinFile, PlaceInv, JobsOnce
  <2>2. \A o : o = job[w] => Current(o)'
    BY <1>3, <2>1 DEF Current
  <2>3. Current(job[w])
    BY <2>1, <2>2 DEF NoneRevived
  <2> QED
    BY <2>1, <2>3, WorkerKept DEF FlushInv
<1>4. \A o \in Objects : result'[o] = "data" /\ Current(o)' => Loaded(o)'
  BY LoadedKept DEF FlushInv, NoneRevived
<1> QED
  BY <1>1, <1>2, <1>3, <1>4 DEF FlushInv

(* A step of a worker that only moves it: it has to keep its own promises. *)
LEMMA FlushWorker ==
  ASSUME TypeInv, FlushInv, DataKept, UNCHANGED <<fileInfoMap, tasks, offSet, result>>,
         NEW w \in Workers, pc[w] # "idle", UNCHANGED job,
         Current(job[w]) => WorkerFlush(w)',
         \A v \in Workers \ {w} : UNCHANGED <<pc[v], pos[v], sent[v], force[v]>>
  PROVE  FlushInv'
<1>1. \A v \in Workers : Current(job[v])' <=> Current(job[v])
  BY DEF Current
<1>2. \A v \in Workers : pc'[v] # "idle" /\ Current(job[v])' => WorkerFlush(v)'
  BY <1>1, WorkerKept DEF FlushInv, TypeInv, WithinFile
<1>3. \A o \in Objects : result'[o] = "data" /\ Current(o)' => Loaded(o)'
  BY LoadedKept DEF FlushInv, Current
<1> QED
  BY <1>2, <1>3 DEF FlushInv

LEMMA DataUnchanged ==
  ASSUME UNCHANGED data
  PROVE  DataKept
BY DEF DataKept

LEMMA TakeFlush ==
  ASSUME TypeInv, PlaceInv, FlushInv, NEW w \in Workers, TakeTask(w)
  PROVE  FlushInv'
<1>1. /\ tasks \in Seq(Objects) /\ tasks # <<>> /\ tasks' = Tail(tasks)
      /\ UNCHANGED <<data, result, offSet, fileInfoMap>>
      /\ \A v \in Workers \ {w} : UNCHANGED <<pc[v], job[v], pos[v], sent[v], force[v]>>
  BY DEF TakeTask, PopFront, TypeInv, TypeOK, fileVars
<1>2. Head(tasks) = tasks[1] /\ 1 \in DOMAIN tasks
      /\ \A n \in DOMAIN tasks' : n + 1 \in DOMAIN tasks /\ tasks'[n] = tasks[n + 1]
  BY <1>1, TailFacts
<1>3. offSet[Head(tasks)] = 0 /\ Head(tasks) \in Objects
  BY <1>1, <1>2 DEF FlushInv
<1>4. /\ job'[w] = Head(tasks) /\ pos'[w] = 0 /\ sent'[w] = 0 /\ force'[w] = FALSE
      /\ pc'[w] \in {"read", "setOffSet"}
  BY <1>3 DEF TakeTask, TypeInv, TypeOK
<1>5. WorkerFlush(w)'
  <2>1. \A k \in DOMAIN RecordsOf(job'[w]) : ~ (k <= 0)
    BY <1>3, <1>4, RecordsType
  <2>2. StoredUpTo(job[w], sent[w])'
    BY <1>4, <2>1 DEF StoredUpTo, RecordsOf
  <2> QED
    BY <1>4, <2>2 DEF WorkerFlush, AllFlushed
<1>6. ASSUME NEW v \in Workers, v # w, pc'[v] # "idle", Current(job[v])' PROVE WorkerFlush(v)'
  <2>1. pc[v] # "idle" /\ job[v] \in Objects /\ Current(job[v])
    BY <1>1, <1>6 DEF Current, TypeInv, WithinFile
  <2> QED
    BY <1>1, <1>6, <2>1, WorkerKept, DataUnchanged DEF FlushInv
<1>7. \A o \in Objects : result'[o] = "data" /\ Current(o)' => Loaded(o)'
  BY <1>1, LoadedKept, DataUnchanged DEF FlushInv, Current
<1> QED
  BY <1>1, <1>2, <1>5, <1>6, <1>7 DEF FlushInv

LEMMA ReadFlush ==
  ASSUME TypeInv, PlaceInv, FlushInv, NEW w \in Workers, ReadRecord(w)
  PROVE  FlushInv'
<1> DEFINE o == job[w]
<1>1. /\ pc[w] = "read" /\ UNCHANGED <<fileInfoMap, data, tasks, offSet>>
      /\ o \in Objects /\ pos[w] \in Nat /\ sent[w] \in Nat
      /\ Current(o) => WorkerFlush(w) /\ ~force[w] /\ sent[w] <= pos[w]
  BY DEF ReadRecord, fileVars, FlushInv, WorkerFlush, TypeInv, TypeOK, WithinFile
<1>2. /\ pc \in [Workers -> WorkerStates] /\ pos \in [Workers -> Nat] /\ sent \in [Workers -> Nat]
      /\ force \in [Workers -> BOOLEAN] /\ job \in [Workers -> Objects \cup {NoJob}]
  BY DEF TypeInv, TypeOK
<1>3. CASE NextKind(o, pos[w]) \in {"end", "corrupt"} /\ UNCHANGED <<job, pos, sent, result>>
           /\ force' = [force EXCEPT ![w] = TRUE]
           /\ pc' = [pc EXCEPT ![w] = Resume(o, sent[w], pos[w], TRUE)]
  <2>1. \A v \in Workers \ {w} : UNCHANGED <<pc[v], pos[v], sent[v], force[v]>>
    BY <1>2, <1>3
  <2>2. force'[w] /\ pc'[w] = Resume(o, sent[w], pos[w], TRUE)
    BY <1>2, <1>3
  <2>3. pc'[w] # "read" /\ (pc'[w] = "setOffSet" => Cached(o, sent[w], pos[w]) = {})
        /\ pc'[w] # "return"
    BY <2>2 DEF Resume
  <2>4. Current(o) => (StoredUpTo(job[w], sent[w]))'
    BY <1>1, <1>3 DEF WorkerFlush, StoredUpTo, Stored, Kind, Tag, RecordsOf
  <2>5. (NextKind(job[w], pos[w]))' = NextKind(o, pos[w])
        /\ (Cached(job[w], sent[w], pos[w]))' = Cached(o, sent[w], pos[w])
    BY <1>3 DEF NextKind, Cached, Kind, RecordsOf
  <2>6. Current(o) => WorkerFlush(w)'
    BY <1>1, <1>3, <2>2, <2>3, <2>4, <2>5 DEF WorkerFlush, AllFlushed
  <2> QED
    BY <1>1, <1>3, <2>1, <2>6, FlushWorker, DataUnchanged
<1>4. CASE /\ pos' = [pos EXCEPT ![w] = pos[w] + 1] /\ UNCHANGED <<job, sent, force, result>>
           /\ \E q \in {"check", "read"} : pc' = [pc EXCEPT ![w] = q]
  <2>1. \A v \in Workers \ {w} : UNCHANGED <<pc[v], pos[v], sent[v], force[v]>>
    BY <1>2, <1>4
  <2>2. pos'[w] = pos[w] + 1 /\ pc'[w] \in {"check", "read"}
    BY <1>2, <1>4
  <2>3. Current(o) => (StoredUpTo(job[w], sent[w]))'
    BY <1>1, <1>4 DEF WorkerFlush, StoredUpTo, Stored, Kind, Tag, RecordsOf
  <2>4. Current(o) => WorkerFlush(w)'
    BY <1>1, <1>4, <2>2, <2>3 DEF WorkerFlush
  <2> QED
    BY <1>1, <1>4, <2>1, <2>4, FlushWorker, DataUnchanged
<1>5. CASE result' = [result EXCEPT ![o] = "thrown"] /\ Release(w)
  <2>1. \A v \in Workers : pc'[v] # "idle" =>
          pc[v] # "idle" /\ UNCHANGED <<pc[v], job[v], pos[v], sent[v], force[v]>>
    BY <1>2, <1>5 DEF Release
  <2>2. \A q \in Objects : result'[q] \in {"none", "data"} => result[q] = result'[q]
    BY <1>1, <1>5 DEF TypeInv, TypeOK
  <2> QED
    BY <1>1, <2>1, <2>2, FlushFrame, DataUnchanged DEF NoneRevived, Current
<1>6. CASE NextKind(o, pos[w]) = "scalar" /\ pos' = [pos EXCEPT ![w] = pos[w] + 1]
           /\ pc' = [pc EXCEPT ![w] = IF ReachLimit(o, sent[w], pos[w] + 1) THEN "check" ELSE "read"]
           /\ UNCHANGED <<job, sent, force, result>>
  BY <1>4, <1>6
<1>7. CASE pos' = [pos EXCEPT ![w] = pos[w] + 1] /\ UNCHANGED <<pc, job, sent, force, result>>
  <2>1. pc' = [pc EXCEPT ![w] = "read"]
    BY <1>1, <1>2, <1>7
  <2> QED
    BY <1>4, <1>7, <2>1
<1> QED
  BY <1>3, <1>5, <1>6, <1>7 DEF ReadRecord, ExceptionResult

(* A worker passes these steps with its File current only if its path is   *)
(* still imported.                                                         *)
LEMMA PassFlush ==
  ASSUME TypeInv, PlaceInv, FlushInv, NEW w \in Workers,
         CheckImported(w) \/ CheckIncremental(w) \/ AddIncremental(w) \/ UpdateGraph(w)
  PROVE  FlushInv'
<1>1. /\ UNCHANGED <<fileInfoMap, data, tasks, offSet, result, job, pos, sent, force>>
      /\ pc[w] # "idle" /\ \E q : pc' = [pc EXCEPT ![w] = q]
  BY DEF CheckImported, CheckIncremental, AddIncremental, UpdateGraph, fileVars, poolVars
<1>2. /\ pc \in [Workers -> WorkerStates] /\ job[w] \in Objects
  BY <1>1 DEF TypeInv, TypeOK, WithinFile
<1>3. \A v \in Workers \ {w} : UNCHANGED <<pc[v], pos[v], sent[v], force[v]>>
  BY <1>1, <1>2
<1>4. ASSUME Current(job[w]) PROVE WorkerFlush(w)'
  <2>1. IsFileImported(job[w][1])
    BY <1>2, <1>4 DEF Current, IsFileImported, Objects, Projects
  <2>2. pc'[w] \in {"incremental", "announce", "graph", "append"}
    BY <1>2, <2>1 DEF CheckImported, CheckIncremental, AddIncremental, UpdateGraph
  <2>3. WorkerFlush(w)
    BY <1>1, <1>4 DEF FlushInv
  <2>4. (StoredUpTo(job[w], sent[w]))'
    BY <1>1, <2>3 DEF WorkerFlush, StoredUpTo, Stored, Kind, Tag, RecordsOf
  <2>5. (NextKind(job[w], pos[w]))' = NextKind(job[w], pos[w])
    BY <1>1 DEF NextKind, Kind, RecordsOf
  <2> QED
    BY <1>1, <2>2, <2>3, <2>4, <2>5 DEF WorkerFlush
<1> QED
  BY <1>1, <1>3, <1>4, FlushWorker, DataUnchanged

(* The File that gets the points loses none of those it has.               *)
LEMMA AppendKeeps ==
  ASSUME TypeInv, NEW w \in Workers, pc[w] # "idle", NEW k \in CacheFront(w),
         data' = IF IsFileImported(job[w][1])
                 THEN [data EXCEPT ![Live(job[w][1])][Tag(job[w], k)] = Append(@, k)]
                 ELSE data
  PROVE  DataKept
<1> DEFINE l == Live(job[w][1])
           t == Tag(job[w], k)
           s == data[l][t]
<1>1. k \in Nat /\ t \in Tags /\ job[w] \in Objects
  BY FrontType DEF TypeInv, WithinFile
<1>2. CASE ~IsFileImported(job[w][1])
  BY <1>2, DataUnchanged
<1>3. CASE IsFileImported(job[w][1])
  <2>1. l \in Objects
    BY <1>1, <1>3 DEF Live, IsFileImported, Objects, TypeInv, TypeOK
  <2>2. data \in [Objects -> [Tags -> Seq(Nat)]]
    BY DEF TypeInv, TypeOK
  <2>3. data' = [data EXCEPT ![l][t] = Append(@, k)]
    BY <1>3
  <2> HIDE DEF l, t, s
  <2>4. s \in Seq(Nat)
    BY <1>1, <2>1, <2>2 DEF s
  <2>5. /\ data'[l][t] = Append(s, k)
        /\ \A u \in Tags \ {t} : data'[l][u] = data[l][u]
        /\ \A q \in Objects \ {l} : data'[q] = data[q]
    BY <1>1, <2>1, <2>2, <2>3 DEF s
  <2>6. ASSUME NEW n \in DOMAIN s
        PROVE  n \in DOMAIN data'[l][t] /\ data'[l][t][n] = s[n]
    BY <1>1, <2>4, <2>5, AppendFacts
  <2> QED
    BY <2>5, <2>6 DEF DataKept, s
<1> QED
  BY <1>2, <1>3

(* Taking the front record out of the cache leaves no scalar behind.       *)
LEMMA UpdateFlush ==
  ASSUME TypeInv, PlaceInv, FlushInv, NEW w \in Workers, UpdateData(w)
  PROVE  FlushInv'
<1> DEFINE o == job[w]
<1>1. PICK k \in CacheFront(w) :
        /\ data' = IF IsFileImported(o[1])
                   THEN [data EXCEPT ![Live(o[1])][Tag(o, k)] = Append(@, k)]
                   ELSE data
        /\ sent' = [sent EXCEPT ![w] = k]
        /\ pc' = [pc EXCEPT ![w] = Resume(o, k, pos[w], force[w])]
  BY DEF UpdateData, PopCache
<1> DEFINE t == Tag(o, k)
           s == data[o][t]
<1>2. /\ o \in Objects /\ t \in Tags /\ k \in Nat /\ sent[w] < k /\ k <= pos[w] /\ pc[w] # "idle"
      /\ UNCHANGED <<job, pos, force, tasks, result, offSet, fileInfoMap>>
  BY FrontType DEF UpdateData, TypeInv, TypeOK, WithinFile, poolVars
<1>3. /\ pc \in [Workers -> WorkerStates] /\ sent \in [Workers -> Nat] /\ pos \in [Workers -> Nat]
      /\ data \in [Objects -> [Tags -> Seq(Nat)]] /\ force \in [Workers -> BOOLEAN]
  BY DEF TypeInv, TypeOK
<1>4. \A v \in Workers \ {w} : UNCHANGED <<pc[v], pos[v], sent[v], force[v]>>
  BY <1>1, <1>2, <1>3
<1>5. DataKept
  BY <1>1, <1>2, AppendKeeps
<1>6. sent'[w] = k /\ pc'[w] = Resume(o, k, pos[w], force[w])
  BY <1>1, <1>3
<1>7. ASSUME Current(o) PROVE WorkerFlush(w)'
  <2>1. IsFileImported(o[1]) /\ Live(o[1]) = o
    BY <1>2, <1>7 DEF Current, IsFileImported, Live, Objects, Projects
  <2>2. WorkerFlush(w) /\ \A l \in Cached(o, sent[w], pos[w]) : k <= l
    BY <1>2, <1>7 DEF FlushInv, CacheFront
  <2> HIDE DEF o, t, s
  <2>3. s \in Seq(Nat)
    BY <1>2, <1>3 DEF s
  <2>4. data'[o][t] = Append(s, k)
    BY <1>1, <1>2, <1>3, <2>1 DEF s, t
  <2>5. Stored(o, k)'
    <3>1. Len(s) + 1 \in DOMAIN Append(s, k) /\ Append(s, k)[Len(s) + 1] = k
      BY <1>2, <2>3, AppendFacts
    <3>2. (Tag(o, k))' = t
      BY <1>2 DEF Tag, RecordsOf, t, o
    <3> QED
      BY <1>2, <2>4, <3>1, <3>2 DEF Stored, o
  <2>6. ASSUME NEW l \in DOMAIN RecordsOf(o), Kind(o, l) = "scalar", l <= k
        PROVE  Stored(o, l)'
    <3>1. l \in Nat
      BY <1>2, RecordsType
    <3>2. CASE l <= sent[w]
      <4>1. Stored(o, l)
        BY <2>2, <2>6, <3>2 DEF WorkerFlush, StoredUpTo, o
      <4>2. \A q \in Objects : q = o => Stored(q, l)'
        BY <1>5, <2>6, <4>1, StoredKept
      <4> QED
        BY <1>2, <4>2 DEF Stored, Tag, RecordsOf, o
    <3>3. CASE ~ (l <= sent[w])
      <4>1. l \in sent[w] + 1 .. pos[w]
        BY <1>2, <1>3, <2>6, <3>1, <3>3
      <4>2. k <= l
        BY <2>2, <2>6, <4>1 DEF Cached
      <4>3. l = k
        BY <1>2, <2>6, <3>1, <4>2
      <4> QED
        BY <2>5, <4>3
    <3> QED
      BY <3>2, <3>3
  <2>7. (StoredUpTo(job[w], sent[w]))'
    BY <1>2, <1>6, <2>6 DEF StoredUpTo, RecordsOf, Kind, Stored, Tag, o
  <2>8. /\ (NextKind(job[w], pos[w]))' = NextKind(job[w], pos[w])
        /\ (Cached(job[w], sent[w], pos[w]))' = Cached(o, k, pos[w])
    BY <1>2, <1>6 DEF NextKind, Cached, Kind, RecordsOf, o
  <2>9. /\ pc'[w] = "read" => ~force[w]
        /\ pc'[w] = "setOffSet" => force[w] /\ Cached(o, k, pos[w]) = {}
        /\ pc'[w] # "return"
    BY <1>6 DEF Resume
  <2>10. UNCHANGED <<pos[w], force[w]>> /\ sent'[w] <= pos'[w]
    BY <1>2, <1>6
  <2> QED
    BY <2>2, <2>7, <2>8, <2>9, <2>10 DEF WorkerFlush, AllFlushed
<1> QED
  BY <1>2, <1>4, <1>5, <1>7, FlushWorker

LEMMA EndFlush ==
  ASSUME TypeInv, PlaceInv, FlushInv, NEW w \in Workers, SetOffSet(w) \/ TaskDone(w)
  PROVE  FlushInv'
<1> DEFINE o == job[w]
<1>1. /\ pc[w] \in {"setOffSet", "return"} /\ UNCHANGED <<fileInfoMap, data, tasks>>
      /\ Current(o) => WorkerFlush(w)
      /\ o \in Objects /\ result[o] = "pending" /\ \A n \in DOMAIN tasks : tasks[n] # o
  BY DEF SetOffSet, TaskDone, fileVars, poolVars, FlushInv, TypeInv, WithinFile, PlaceInv, JobsOnce
<1>2. /\ pc \in [Workers -> WorkerStates] /\ pos \in [Workers -> Nat] /\ sent \in [Workers -> Nat]
      /\ force \in [Workers -> BOOLEAN] /\ job \in [Workers -> Objects \cup {NoJob}]
      /\ offSet \in [Objects -> Nat] /\ tasks \in Seq(Objects)
      /\ result \in [Objects -> {"none", "pending", "empty", "data", "thrown"}]
  BY DEF TypeInv, TypeOK
<1>3. CASE SetOffSet(w)
  <2>1. /\ offSet' = [offSet EXCEPT ![o] = pos[w]] /\ pc' = [pc EXCEPT ![w] = "return"]
        /\ UNCHANGED <<job, pos, sent, force, result>>
    BY <1>3 DEF SetOffSet, poolVars
  <2>2. \A q \in Objects : q # o => offSet'[q] = offSet[q]
    BY <1>2, <2>1
  <2>3. \A q \in Objects : result'[q] = "none" => offSet'[q] = 0
    BY <1>1, <2>1, <2>2 DEF FlushInv
  <2>4. \A n \in DOMAIN tasks' : offSet'[tasks'[n]] = 0
    BY <1>1, <1>2, <2>2 DEF FlushInv
  <2>5. \A v \in Workers \ {w} : UNCHANGED <<pc[v], job[v], pos[v], sent[v], force[v]>>
    BY <1>2, <2>1
  <2>6. Current(o) => WorkerFlush(w)'
    <3>1. pc'[w] = "return"
      BY <1>2, <2>1
    <3>2. Current(o) => (StoredUpTo(job[w], sent[w]))'
      BY <1>1, <2>1 DEF WorkerFlush, StoredUpTo, Stored, Kind, Tag, RecordsOf
    <3>3. /\ (NextKind(job[w], pos[w]))' = NextKind(o, pos[w])
          /\ (Cached(job[w], sent[w], pos[w]))' = Cached(o, sent[w], pos[w])
      BY <2>1 DEF NextKind, Cached, Kind, RecordsOf
    <3> QED
      BY <1>1, <2>1, <3>1, <3>2, <3>3 DEF WorkerFlush, AllFlushed
  <2>7. \A v \in Workers : pc'[v] # "idle" /\ Current(job[v])' => WorkerFlush(v)'
    <3>1. \A v \in Workers : Current(job[v])' <=> Current(job[v])
      BY <1>1, <2>1 DEF Current
    <3> QED
      BY <1>1, <2>5, <2>6, <3>1, WorkerKept, DataUnchanged DEF FlushInv, TypeInv, WithinFile
  <2>8. \A q \in Objects : result'[q] = "data" /\ Current(q)' => Loaded(q)'
    BY <1>1, <2>1, LoadedKept, DataUnchanged DEF FlushInv, Current
  <2> QED
    BY <2>3, <2>4, <2>7, <2>8 DEF FlushInv
<1>4. CASE TaskDone(w)
  <2>1. /\ result' = [result EXCEPT ![o] = IF SawNothing(o, pos[w]) THEN "empty" ELSE "data"]
        /\ Release(w) /\ UNCHANGED offSet
    BY <1>4 DEF TaskDone, fileVars
  <2>2. /\ pc'[w] = "idle"
        /\ \A v \in Workers \ {w} : UNCHANGED <<pc[v], job[v], pos[v], sent[v], force[v]>>
    BY <1>2, <2>1 DEF Release
  <2>3. ASSUME NEW v \in Workers, pc'[v] # "idle", Current(job[v])' PROVE WorkerFlush(v)'
    <3>1. v # w /\ pc[v] # "idle" /\ job[v] \in Objects /\ Current(job[v])
      BY <1>1, <2>2, <2>3 DEF Current, TypeInv, WithinFile
    <3> QED
      BY <1>1, <2>2, <3>1, WorkerKept, DataUnchanged DEF FlushInv
  <2>4. \A q \in Objects : q # o => result'[q] = result[q]
    BY <1>2, <2>1
  <2>5. result'[o] = "data" /\ Current(o) => Loaded(o)
    <3>1. CASE pos[w] = 0
      <4>1. SawNothing(o, pos[w])
        BY <3>1 DEF SawNothing
      <4> QED
        BY <1>1, <1>2, <2>1, <4>1
    <3>2. CASE pos[w] # 0
      BY <1>1, <3>2, FlushedIsLoaded DEF WorkerFlush, AllFlushed
    <3> QED
      BY <3>1, <3>2
  <2>6. \A q \in Objects : result'[q] = "data" /\ Current(q)' => Loaded(q)'
    BY <1>1, <2>4, <2>5, LoadedKept, DataUnchanged DEF FlushInv, Current
  <2>7. \A q \in Objects : result'[q] = "none" => offSet'[q] = 0
    <3>1. result'[o] # "none"
      BY <1>1, <1>2, <2>1
    <3> QED
      BY <2>1, <2>4, <3>1 DEF FlushInv
  <2> QED
    BY <1>1, <2>1, <2>3, <2>6, <2>7 DEF FlushInv
<1> QED
  BY <1>3, <1>4

LEMMA FlushNext ==
  TypeInv /\ PlaceInv /\ FlushInv /\ [Next]_vars => FlushInv'
<1> SUFFICES ASSUME TypeInv, PlaceInv, FlushInv, [Next]_vars PROVE FlushInv'
  OBVIOUS
<1>1. ASSUME Submit PROVE FlushInv'
  <2> DEFINE o == <<Head(fresh), project>>
  <2>1. /\ fresh \in Seq(Paths) /\ fresh # <<>> /\ project \in Projects /\ httpPc = "submit"
        /\ tasks \in Seq(Objects) /\ tasks' = Append(tasks, o)
        /\ result' = [result EXCEPT ![o] = "pending"]
        /\ UNCHANGED <<fileInfoMap, data, offSet, pc, job, pos, sent, force>>
        /\ result \in [Objects -> {"none", "pending", "empty", "data", "thrown"}]
    BY <1>1 DEF Submit, TypeInv, TypeOK, fileVars, workerVars
  <2>2. Head(fresh) = fresh[1] /\ 1 \in DOMAIN fresh /\ fresh[1] \in Paths
    BY <2>1, TailFacts
  <2>3. o \in Objects /\ result[o] = "none" /\ offSet[o] = 0
    BY <2>1, <2>2 DEF Objects, PlaceInv, NotYetSubmitted, FlushInv
  <2> HIDE DEF o
  <2>4. \A n \in DOMAIN tasks' : tasks'[n] = o \/ \E m \in DOMAIN tasks : tasks'[n] = tasks[m]
    BY <2>1, <2>3, AppendFacts
  <2>5. \A n \in DOMAIN tasks' : offSet'[tasks'[n]] = 0
    BY <2>1, <2>3, <2>4 DEF FlushInv
  <2>6. \A w \in Workers : pc'[w] # "idle" /\ Current(job[w])' => WorkerFlush(w)'
    <3>1. \A w \in Workers : Current(job[w])' <=> Current(job[w])
      BY <2>1 DEF Current
    <3> QED
      BY <2>1, <3>1, WorkerKept, DataUnchanged DEF FlushInv, TypeInv, WithinFile
  <2>7. \A q \in Objects : result'[q] \in {"none", "data"} => result[q] = result'[q]
    BY <2>1
  <2>8. \A q \in Objects : result'[q] = "data" /\ Current(q)' => Loaded(q)'
    BY <2>1, <2>7, LoadedKept, DataUnchanged DEF FlushInv, Current
  <2> QED
    BY <2>1, <2>5, <2>6, <2>7, <2>8 DEF FlushInv
<1>2. ASSUME \/ \E append \in BOOLEAN, list \in ImportLists : ImportFile(append, list)
             \/ ResetFiles \/ ResetGraphs \/ ResetIncremental \/ ResetParse
             \/ AddParseTask \/ AddFile \/ OpenProject \/ ImportDone
             \/ \E i \in Projects : GetParseState(i) \/ WatchProject(i)
             \/ GetIncremental \/ StartRound \/ UNCHANGED vars
      PROVE  FlushInv'
  <2>1. UNCHANGED <<data, offSet, tasks, result, pc, job, pos, sent, force>>
    BY <1>2 DEF ImportFile, ResetFiles, ResetGraphs, ResetIncremental, ResetParse,
       AddParseTask, AddFile, OpenProject, ImportDone, GetParseState, WatchProject,
       GetIncremental, StartRound, vars, fileVars, workerVars, poolVars
  <2>2. NoneRevived
    <3>1. CASE UNCHANGED fileInfoMap
      BY <3>1 DEF NoneRevived, Current
    <3>2. CASE ResetFiles
      BY <3>2 DEF ResetFiles, NoneRevived, Current, Objects, Projects
    <3>3. CASE AddFile
      <4>1. /\ httpPc = "add" /\ fileInfoMap \in [Paths -> {0} \cup Projects]
            /\ \/ UNCHANGED fileInfoMap
               \/ fileInfoMap' = [fileInfoMap EXCEPT ![Head(todo)] = project]
        BY <3>3 DEF AddFile, TypeInv, TypeOK
      <4>2. \A p \in Paths : fileInfoMap'[p] = fileInfoMap[p] \/ fileInfoMap'[p] = project
        BY <4>1
      <4>3. \A o \in Objects : o[2] = project => result[o] = "none"
        BY <4>1 DEF PlaceInv, NotYetSubmitted, Objects
      <4> QED
        BY <4>2, <4>3 DEF NoneRevived, Current, Objects
    <3> QED
      BY <1>2, <3>1, <3>2, <3>3 DEF ImportFile, ResetGraphs, ResetIncremental, ResetParse,
         AddParseTask, OpenProject, ImportDone, GetParseState, WatchProject, GetIncremental,
         StartRound, vars, fileVars
  <2> QED
    BY <2>1, <2>2, FlushFrame, DataUnchanged
<1>3. ASSUME NEW w \in Workers, WorkerStep(w) PROVE FlushInv'
  BY <1>3, TakeFlush, ReadFlush, PassFlush, UpdateFlush, EndFlush DEF WorkerStep
<1> QED
  BY <1>1, <1>2, <1>3 DEF Next, ImportStep

-----------------------------------------------------------------------------
(* What the client is told.  A file that belongs to a project is still     *)
(* being added to it, or is one of the files the project waits for, or its *)
(* task is over.                                                           *)
Accounted(p, i) ==
  \/ i = project /\ httpPc \in {"add", "submit"} /\ \E n \in DOMAIN fresh : fresh[n] = p
  \/ parseStateMap[i].known /\ p \in parseStateMap[i].files
  \/ Ready(<<p, i>>)

(* A project under way has not been reported yet, none of its files is     *)
(* there before AddFile adds it, and none of any project between the first *)
(* and the last step of a Reset.                                           *)
BeforeAdd == ResetStates \cup {"import"}

Numbered ==
  /\ \A i \in told : i <= project /\ (httpPc # "idle" => i # project)
  /\ \A p \in Paths : fileInfoMap[p] <= project
  /\ httpPc \in BeforeAdd => \A p \in Paths : fileInfoMap[p] # project
  /\ httpPc \in ResetStates \ {"resetFiles"} => \A p \in Paths : fileInfoMap[p] = 0

(* While parseMutex_ is the handler's the watcher has no project to visit, *)
(* and a project has no tasks until they are submitted.                    *)
Opening ==
  /\ httpPc \in {"add", "submit"} => watching = {}
  /\ httpPc = "submit" => parseStateMap[project].known /\ ~parseStateMap[project].finish
  /\ httpPc \in BeforeAdd \cup {"add"} => parseStateMap[project].files = {}
  /\ \A i \in Projects : i > project => parseStateMap[i].files = {}

Reported ==
  /\ \A p \in Paths, i \in Projects : fileInfoMap[p] = i => Accounted(p, i)
  /\ \A i \in Projects : parseStateMap[i].finish => \A p \in parseStateMap[i].files : Ready(<<p, i>>)
  /\ \A i \in told, p \in Paths : fileInfoMap[p] = i => Ready(<<p, i>>)

FinishInv == Numbered /\ Opening /\ Reported

LEMMA FinishInit == Init => FinishInv
<1> SUFFICES ASSUME Init PROVE FinishInv
  OBVIOUS
<1>1. \A i \in Projects : parseStateMap[i].files = {} /\ parseStateMap[i].finish = FALSE
  BY DEF Init, NoState
<1>2. \A p \in Paths : fileInfoMap[p] = 0
  BY DEF Init
<1>3. 0 \notin Projects /\ project = 0 /\ httpPc = "idle" /\ told = {}
  BY DEF Init, Projects
<1> QED
  BY <1>1, <1>2, <1>3 DEF FinishInv, Numbered, Opening, Reported, BeforeAdd, ResetStates

(* A step of a worker can only make more tasks ready.                      *)
LEMMA FinishFrame ==
  ASSUME FinishInv, UNCHANGED <<fileInfoMap, parseStateMap, watching, told>>,
         UNCHANGED <<httpPc, project, fresh>>,
         \A o \in Objects : Ready(o) => Ready(o)',
         TypeInv
  PROVE  FinishInv'
<1>1. Numbered' /\ Opening'
  BY DEF FinishInv, Numbered, Opening
<1>2. \A p \in Paths, i \in Projects : Ready(<<p, i>>) => Ready(<<p, i>>)'
  BY DEF Objects
<1>3. \A i \in Projects : parseStateMap[i].files \subseteq Paths
  BY DEF TypeInv, TypeOK, ParseStates
<1>4. told \subseteq Projects
  BY DEF TypeInv, TypeOK
<1>5. \A p \in Paths, i \in Projects : Accounted(p, i) => Accounted(p, i)'
  BY <1>2 DEF Accounted
<1>6. Reported'
  BY <1>2, <1>3, <1>4, <1>5 DEF FinishInv, Reported
<1> QED
  BY <1>1, <1>6 DEF FinishInv

LEMMA WorkerFinish ==
  ASSUME TypeInv, PlaceInv, FinishInv, NEW w \in Workers, WorkerStep(w)
  PROVE  FinishInv'
<1>1. UNCHANGED <<fileInfoMap, parseStateMap, watching, told, httpPc, project, fresh>>
  BY DEF WorkerStep, TakeTask, ReadRecord, CheckImported, CheckIncremental, AddIncremental,
     UpdateGraph, UpdateData, SetOffSet, TaskDone, fileVars, httpVars, watchVars
<1>2. \/ UNCHANGED result
      \/ \E r : pc[w] # "idle" /\ result' = [result EXCEPT ![job[w]] = r]
  BY DEF WorkerStep, TakeTask, ReadRecord, CheckImported, CheckIncremental, AddIncremental,
     UpdateGraph, UpdateData, SetOffSet, TaskDone, poolVars
<1>3. \A o \in Objects : Ready(o) => Ready(o)'
  BY <1>2 DEF Ready, PlaceInv, JobsOnce, TypeInv, TypeOK
<1> QED
  BY <1>1, <1>3, FinishFrame

LEMMA ImportFinish ==
  ASSUME TypeInv, FinishInv,
         NEW append \in BOOLEAN, NEW list \in ImportLists, ImportFile(append, list)
  PROVE  FinishInv'
<1>1. /\ httpPc = "idle" /\ httpPc' \in {"import", "resetFiles"} /\ project' = project + 1
      /\ project \in Nat /\ project' \in Projects
      /\ UNCHANGED <<fileInfoMap, parseStateMap, watching, told, fresh, result>>
  <2>1. project < MaxImports /\ project' = project + 1
    BY DEF ImportFile
  <2>2. project \in Nat /\ project' \in Projects
    BY <2>1, ConstantsOK DEF TypeInv, TypeOK, Projects
  <2> QED
    BY <2>1, <2>2 DEF ImportFile, fileVars, poolVars, watchVars
<1>2. told \subseteq Projects /\ fileInfoMap \in [Paths -> {0} \cup Projects]
  BY DEF TypeInv, TypeOK
<1>3. Numbered'
  BY <1>1, <1>2 DEF FinishInv, Numbered, Projects, ResetStates
<1>4. Opening'
  BY <1>1 DEF FinishInv, Opening, Projects
<1>5. \A p \in Paths, i \in Projects : Accounted(p, i) => Accounted(p, i)'
  BY <1>1 DEF Accounted, Ready
<1>6. Reported'
  BY <1>1, <1>5 DEF FinishInv, Reported, Ready
<1> QED
  BY <1>3, <1>4, <1>6 DEF FinishInv

(* A Reset takes every File away before it forgets the projects that wait  *)
(* for their tasks.                                                        *)
LEMMA ResetFinish ==
  ASSUME TypeInv, FinishInv, ResetFiles \/ ResetGraphs \/ ResetIncremental \/ ResetParse
  PROVE  FinishInv'
<1>1. /\ httpPc \in ResetStates /\ httpPc' \in BeforeAdd \ {"resetFiles"}
      /\ httpPc' # "import" => UNCHANGED parseStateMap
      /\ project \in Projects /\ UNCHANGED <<project, watching, told, result>>
      /\ told \subseteq Projects
  BY DEF ResetFiles, ResetGraphs, ResetIncremental, ResetParse, ResetStates, BeforeAdd, TypeInv,
     TypeOK, poolVars, watchVars
<1>2. \A p \in Paths : fileInfoMap'[p] = 0
  <2>1. CASE ResetFiles
    BY <2>1 DEF ResetFiles
  <2>2. CASE ResetGraphs \/ ResetIncremental \/ ResetParse
    BY <2>2 DEF ResetGraphs, ResetIncremental, ResetParse, ResetStates, FinishInv, Numbered,
       fileVars
  <2> QED
    BY <2>1, <2>2
<1>3. \A i \in Projects : /\ \/ parseStateMap'[i] = parseStateMap[i]
                             \/ parseStateMap'[i].files = {}
                          /\ parseStateMap'[i].finish => parseStateMap'[i] = parseStateMap[i]
  <2>1. CASE UNCHANGED parseStateMap
    BY <2>1
  <2>2. CASE ResetParse
    BY <2>2 DEF ResetParse, NoState
  <2> QED
    BY <2>1, <2>2 DEF ResetFiles, ResetGraphs, ResetIncremental, watchVars
<1>4. 0 \notin Projects /\ \A i \in Projects : i # 0 /\ i > 0
  BY DEF Projects
<1>5. Numbered'
  <2>1. httpPc # "idle"
    BY <1>1 DEF ResetStates
  <2>2. \A p \in Paths : fileInfoMap'[p] <= project /\ fileInfoMap'[p] # project
    BY <1>1, <1>2, <1>4 DEF Projects
  <2> QED
    BY <1>1, <1>2, <2>1, <2>2 DEF FinishInv, Numbered
<1>6. Opening'
  <2>1. httpPc \in BeforeAdd /\ httpPc' \notin {"add", "submit"}
    BY <1>1 DEF BeforeAdd, ResetStates
  <2> QED
    BY <1>1, <1>3, <2>1 DEF FinishInv, Opening
<1>7. Reported'
  BY <1>1, <1>2, <1>3, <1>4 DEF FinishInv, Reported, Ready
<1> QED
  BY <1>5, <1>6, <1>7 DEF FinishInv

LEMMA AddFinish ==
  ASSUME TypeInv, FinishInv, AddParseTask \/ AddFile
  PROVE  FinishInv'
<1>1. UNCHANGED <<project, parseStateMap, watching, told, result>> /\ project \in Projects
  BY DEF AddParseTask, AddFile, TypeInv, poolVars, watchVars
<1>2. CASE AddParseTask
  <2>1. httpPc = "import" /\ httpPc' = "add" /\ watching = {} /\ UNCHANGED fileInfoMap
    BY <1>2 DEF AddParseTask, ParseMutexFree, fileVars
  <2>2. \A p \in Paths, i \in Projects : Accounted(p, i) => Accounted(p, i)'
    BY <1>1, <2>1 DEF Accounted, Ready
  <2>3. Numbered' /\ Opening'
    BY <1>1, <2>1 DEF FinishInv, Numbered, Opening, BeforeAdd, ResetStates
  <2>4. Reported'
    BY <1>1, <2>1, <2>2 DEF FinishInv, Reported, Ready
  <2> QED
    BY <2>3, <2>4 DEF FinishInv
<1>3. CASE AddFile
  <2>1. /\ httpPc = "add" /\ UNCHANGED httpPc /\ fresh \in Seq(Paths) /\ Head(todo) \in Paths
        /\ fileInfoMap \in [Paths -> {0} \cup Projects] /\ told \subseteq Projects
    BY <1>3 DEF AddFile, TypeInv, TypeOK
  <2>2. CASE UNCHANGED <<fresh, fileInfoMap>>
    <3>1. \A p \in Paths, i \in Projects : Accounted(p, i) => Accounted(p, i)'
      BY <1>1, <2>1, <2>2 DEF Accounted, Ready
    <3>2. Numbered' /\ Opening'
      BY <1>1, <2>1, <2>2 DEF FinishInv, Numbered, Opening
    <3>3. Reported'
      BY <1>1, <2>2, <3>1 DEF FinishInv, Reported, Ready
    <3> QED
      BY <3>2, <3>3 DEF FinishInv
  <2>3. CASE /\ fresh' = Append(fresh, Head(todo))
             /\ fileInfoMap' = [fileInfoMap EXCEPT ![Head(todo)] = project]
    <3>0. PICK f : f = Head(todo)
      OBVIOUS
    <3>1. f \in Paths /\ fresh' = Append(fresh, f) /\ fileInfoMap'[f] = project
          /\ \A p \in Paths : p # f => fileInfoMap'[p] = fileInfoMap[p]
      BY <2>1, <2>3, <3>0
    <3>2. Numbered'
      <4>1. \A p \in Paths : fileInfoMap'[p] <= project
        <5>1. project <= project
          BY <1>1 DEF Projects
        <5> QED
          BY <3>1, <5>1 DEF FinishInv, Numbered
      <4> QED
        BY <1>1, <2>1, <4>1 DEF FinishInv, Numbered, BeforeAdd, ResetStates
    <3>3. Opening'
      BY <1>1, <2>1 DEF FinishInv, Opening
    <3>4. /\ Len(fresh) + 1 \in DOMAIN fresh' /\ fresh'[Len(fresh) + 1] = f
          /\ \A n \in DOMAIN fresh : n \in DOMAIN fresh' /\ fresh'[n] = fresh[n]
      BY <2>1, <3>1, AppendFacts
    <3>5. \A p \in Paths, i \in Projects : Accounted(p, i) => Accounted(p, i)'
      BY <1>1, <2>1, <3>4 DEF Accounted, Ready
    <3>6. \A i \in Projects : i = project => Accounted(f, i)'
      BY <1>1, <2>1, <3>4 DEF Accounted
    <3>7. \A p \in Paths, i \in Projects : fileInfoMap'[p] = i => Accounted(p, i)'
      <4>1. \A p \in Paths, i \in Projects : p # f /\ fileInfoMap'[p] = i => Accounted(p, i)
        BY <3>1 DEF FinishInv, Reported
      <4> QED
        BY <3>1, <3>5, <3>6, <4>1
    <3>8. \A i \in told : i # project
      BY <2>1 DEF FinishInv, Numbered
    <3>9. \A i \in told, p \in Paths : fileInfoMap'[p] = i => Ready(<<p, i>>)
      BY <3>1, <3>8 DEF FinishInv, Reported
    <3>10. Reported'
      BY <1>1, <3>7, <3>9 DEF FinishInv, Reported, Ready
    <3> QED
      BY <3>2, <3>3, <3>10 DEF FinishInv
  <2> QED
    BY <1>3, <2>2, <2>3 DEF AddFile
<1> QED
  BY <1>2, <1>3

LEMMA OpenFinish ==
  ASSUME TypeInv, FinishInv, OpenProject
  PROVE  FinishInv'
<1>1. /\ httpPc = "add" /\ httpPc' = "submit" /\ project \in Projects
      /\ UNCHANGED <<project, fresh, watching, told, fileInfoMap, result>>
      /\ parseStateMap' = [parseStateMap EXCEPT ![project] = OpenState(dataSize)]
      /\ parseStateMap \in [Projects -> ParseStates]
  BY DEF OpenProject, TypeInv, TypeOK, fileVars, poolVars
<1>2. /\ parseStateMap'[project].known /\ ~parseStateMap'[project].finish
      /\ parseStateMap'[project].files = {} /\ parseStateMap[project].files = {}
      /\ \A i \in Projects : i # project => parseStateMap'[i] = parseStateMap[i]
  BY <1>1 DEF OpenState, FinishInv, Opening
<1>3. Numbered'
  BY <1>1 DEF FinishInv, Numbered, BeforeAdd, ResetStates
<1>4. Opening'
  BY <1>1, <1>2 DEF FinishInv, Opening
<1>5. \A p \in Paths, i \in Projects : Accounted(p, i) => Accounted(p, i)'
  BY <1>1, <1>2 DEF Accounted, Ready
<1>6. \A i \in Projects : parseStateMap'[i].finish =>
        \A p \in parseStateMap'[i].files : Ready(<<p, i>>)
  BY <1>2 DEF FinishInv, Reported
<1>7. Reported'
  BY <1>1, <1>5, <1>6 DEF FinishInv, Reported, Ready
<1> QED
  BY <1>3, <1>4, <1>7 DEF FinishInv

(* A file's task is submitted once: what was ready stays ready.            *)
LEMMA SubmitFinish ==
  ASSUME TypeInv, PlaceInv, FinishInv, Submit
  PROVE  FinishInv'
<1> DEFINE f == Head(fresh)
<1>1. /\ httpPc = "submit" /\ fresh \in Seq(Paths) /\ fresh # <<>> /\ project \in Projects
      /\ UNCHANGED <<httpPc, project, watching, told, fileInfoMap>>
      /\ fresh' = Tail(fresh)
      /\ result' = [result EXCEPT ![<<f, project>>] = "pending"]
      /\ parseStateMap' = [parseStateMap EXCEPT ![project].files = @ \cup {f}]
      /\ parseStateMap \in [Projects -> ParseStates] /\ told \subseteq Projects
      /\ result \in [Objects -> {"none", "pending", "empty", "data", "thrown"}]
  BY DEF Submit, TypeInv, TypeOK, fileVars
<1>2. /\ f = fresh[1] /\ 1 \in DOMAIN fresh /\ f \in Paths
      /\ \A n \in DOMAIN fresh : n = 1 \/ (n - 1 \in DOMAIN fresh' /\ fresh'[n - 1] = fresh[n])
  BY <1>1, TailFacts
<1>3. <<f, project>> \in Objects /\ result[<<f, project>>] = "none"
  BY <1>1, <1>2 DEF Objects, PlaceInv, NotYetSubmitted
<1> HIDE DEF f
<1>4. \A o \in Objects : Ready(o) => Ready(o)'
  BY <1>1, <1>3 DEF Ready
<1>5. \A p \in Paths, i \in Projects : Ready(<<p, i>>) => Ready(<<p, i>>)'
  BY <1>4 DEF Objects
<1>6. /\ \A i \in Projects : i # project => parseStateMap'[i] = parseStateMap[i]
      /\ parseStateMap'[project] = [parseStateMap[project] EXCEPT !.files = @ \cup {f}]
  BY <1>1
<1>7. /\ parseStateMap'[project].files = parseStateMap[project].files \cup {f}
      /\ parseStateMap'[project].known = parseStateMap[project].known
      /\ parseStateMap'[project].finish = parseStateMap[project].finish
  <2>1. parseStateMap[project] \in ParseStates
    BY <1>1
  <2> QED
    BY <1>6, <2>1 DEF ParseStates
<1>8. parseStateMap[project].known /\ ~parseStateMap[project].finish
  BY <1>1 DEF FinishInv, Opening
<1>9. Numbered'
  BY <1>1 DEF FinishInv, Numbered
<1>10. Opening'
  <2>1. \A i \in Projects : i > project => i # project
    BY <1>1 DEF Projects
  <2> QED
    BY <1>1, <1>6, <1>7, <1>8, <2>1 DEF FinishInv, Opening, BeforeAdd, ResetStates
<1>11. ASSUME NEW p \in Paths, NEW i \in Projects, Accounted(p, i) PROVE Accounted(p, i)'
  <2>1. CASE i = project /\ \E n \in DOMAIN fresh : fresh[n] = p
    <3>1. p = f \/ \E n \in DOMAIN fresh' : fresh'[n] = p
      BY <1>2, <2>1
    <3> QED
      BY <1>1, <1>7, <1>8, <2>1, <3>1 DEF Accounted
  <2>2. CASE parseStateMap[i].known /\ p \in parseStateMap[i].files
    BY <1>6, <1>7, <2>2 DEF Accounted
  <2>3. CASE Ready(<<p, i>>)
    BY <1>5, <2>3 DEF Accounted
  <2> QED
    BY <1>11, <2>1, <2>2, <2>3 DEF Accounted
<1>12. ASSUME NEW i \in Projects, parseStateMap'[i].finish, NEW p \in parseStateMap'[i].files
       PROVE  Ready(<<p, i>>)'
  <2>1. i # project
    BY <1>7, <1>8, <1>12
  <2>2. parseStateMap'[i] = parseStateMap[i] /\ parseStateMap[i].files \subseteq Paths
    BY <1>1, <1>6, <2>1 DEF ParseStates
  <2> QED
    BY <1>5, <1>12, <2>2 DEF FinishInv, Reported
<1>13. Reported'
  BY <1>1, <1>5, <1>11, <1>12 DEF FinishInv, Reported
<1> QED
  BY <1>9, <1>10, <1>13 DEF FinishInv

LEMMA DoneFinish ==
  ASSUME TypeInv, FinishInv, ImportDone
  PROVE  FinishInv'
<1>1. /\ httpPc = "submit" /\ httpPc' = "idle" /\ fresh = <<>>
      /\ UNCHANGED <<project, watching, told, fileInfoMap, result, parseStateMap>>
  BY DEF ImportDone, fileVars, poolVars, watchVars
<1>2. Numbered' /\ Opening'
  BY <1>1 DEF FinishInv, Numbered, Opening, BeforeAdd, ResetStates
<1>3. \A p \in Paths, i \in Projects : Accounted(p, i) => Accounted(p, i)'
  BY <1>1 DEF Accounted, Ready
<1>4. Reported'
  BY <1>1, <1>3 DEF FinishInv, Reported, Ready
<1> QED
  BY <1>2, <1>4 DEF FinishInv

(* The report: no handler adds files, so a project that is forgotten or    *)
(* finished has only files whose task is over.                             *)
LEMMA ReportFinish ==
  ASSUME TypeInv, FinishInv, NEW i \in Projects, GetParseState(i)
  PROVE  FinishInv'
<1>1. /\ httpPc = "idle" /\ i <= project /\ watching = {}
      /\ UNCHANGED <<httpPc, project, fresh, watching, fileInfoMap, result>>
      /\ parseStateMap' = [parseStateMap EXCEPT ![i] = NoState] /\ told' = told \cup {i}
      /\ ~parseStateMap[i].known \/ parseStateMap[i].finish
      /\ parseStateMap \in [Projects -> ParseStates]
  BY DEF GetParseState, ReportsFinished, ParseMutexFree, TypeInv, TypeOK, fileVars, poolVars,
     httpVars
<1>2. /\ parseStateMap'[i].files = {} /\ ~parseStateMap'[i].finish
      /\ \A j \in Projects : j # i => parseStateMap'[j] = parseStateMap[j]
  BY <1>1 DEF NoState
<1>3. ASSUME NEW p \in Paths, fileInfoMap[p] = i PROVE Ready(<<p, i>>)
  BY <1>1, <1>3 DEF FinishInv, Reported, Accounted
<1>4. Numbered'
  BY <1>1 DEF FinishInv, Numbered
<1>5. Opening'
  BY <1>1, <1>2 DEF FinishInv, Opening
<1>6. ASSUME NEW p \in Paths, NEW j \in Projects, fileInfoMap[p] = j PROVE Accounted(p, j)'
  <2>1. CASE j = i
    BY <1>1, <1>3, <1>6, <2>1 DEF Accounted, Ready
  <2>2. CASE j # i
    BY <1>1, <1>2, <1>6, <2>2 DEF FinishInv, Reported, Accounted, Ready
  <2> QED
    BY <2>1, <2>2
<1>7. \A j \in Projects : parseStateMap'[j].finish =>
        \A p \in parseStateMap'[j].files : Ready(<<p, j>>)
  BY <1>2 DEF FinishInv, Reported
<1>8. \A j \in told', p \in Paths : fileInfoMap[p] = j => Ready(<<p, j>>)
  BY <1>1, <1>3 DEF FinishInv, Reported
<1>9. Reported'
  BY <1>1, <1>6, <1>7, <1>8 DEF Reported, Ready
<1> QED
  BY <1>4, <1>5, <1>9 DEF FinishInv

(* A round of the watcher marks a project whose tasks are all over.        *)
LEMMA WatchFinish ==
  ASSUME TypeInv, FinishInv, NEW i \in Projects, WatchProject(i)
  PROVE  FinishInv'
<1>1. /\ i \in watching /\ watching' = watching \ {i}
      /\ UNCHANGED <<told, fileInfoMap, result, httpPc, project, fresh>>
      /\ parseStateMap \in [Projects -> ParseStates]
  BY DEF WatchProject, TypeInv, TypeOK, fileVars, poolVars, httpVars
<1>2. httpPc \notin {"add", "submit"}
  BY <1>1 DEF FinishInv, Opening
<1>3. /\ \A j \in Projects : /\ parseStateMap'[j].files = parseStateMap[j].files
                             /\ parseStateMap'[j].known = parseStateMap[j].known
      /\ \A j \in Projects : parseStateMap'[j].finish =>
           \/ parseStateMap[j].finish
           \/ \A p \in parseStateMap[j].files : Ready(<<p, j>>)
  <2> DEFINE S == parseStateMap
  <2>1. S[i] \in ParseStates
    BY <1>1
  <2>2. CASE UNCHANGED parseStateMap
    BY <2>2
  <2>3. CASE /\ \A o \in TaskObjects(i) : Ready(o)
             /\ parseStateMap' = [S EXCEPT ![i].finish = TRUE, ![i].percent = 100]
    <3>1. /\ \A j \in Projects : j # i => parseStateMap'[j] = S[j]
          /\ parseStateMap'[i] = [[S[i] EXCEPT !.finish = TRUE] EXCEPT !.percent = 100]
      BY <1>1, <2>3
    <3>2. parseStateMap'[i].files = S[i].files /\ parseStateMap'[i].known = S[i].known
      BY <2>1, <3>1 DEF ParseStates
    <3>3. \A p \in S[i].files : Ready(<<p, i>>)
      BY <2>3 DEF TaskObjects
    <3> QED
      BY <3>1, <3>2, <3>3
  <2>4. CASE \E percent \in Percents(i) : parseStateMap' = [S EXCEPT ![i].percent = percent]
    <3>1. PICK percent : parseStateMap' = [S EXCEPT ![i].percent = percent]
      BY <2>4
    <3>2. /\ \A j \in Projects : j # i => parseStateMap'[j] = S[j]
          /\ parseStateMap'[i] = [S[i] EXCEPT !.percent = percent]
      BY <1>1, <3>1
    <3>3. /\ parseStateMap'[i].files = S[i].files /\ parseStateMap'[i].known = S[i].known
          /\ parseStateMap'[i].finish = S[i].finish
      BY <2>1, <3>2 DEF ParseStates
    <3> QED
      BY <3>2, <3>3
  <2> QED
    BY <2>2, <2>3, <2>4 DEF WatchProject
<1>4. Numbered'
  BY <1>1 DEF FinishInv, Numbered
<1>5. Opening'
  <2>1. httpPc # "idle" => project \in Projects
    BY DEF TypeInv
  <2> QED
    BY <1>1, <1>2, <1>3, <2>1 DEF FinishInv, Opening, BeforeAdd, ResetStates
<1>6. \A p \in Paths, j \in Projects : Accounted(p, j) => Accounted(p, j)'
  BY <1>1, <1>3 DEF Accounted, Ready
<1>7. \A j \in Projects : parseStateMap'[j].finish =>
        \A p \in parseStateMap'[j].files : Ready(<<p, j>>)
  BY <1>3 DEF FinishInv, Reported
<1>8. Reported'
  BY <1>1, <1>6, <1>7 DEF FinishInv, Reported, Ready
<1> QED
  BY <1>4, <1>5, <1>8 DEF FinishInv

LEMMA FinishNext ==
  TypeInv /\ PlaceInv /\ FinishInv /\ [Next]_vars => FinishInv'
<1> SUFFICES ASSUME TypeInv, PlaceInv, FinishInv, [Next]_vars
             PROVE  FinishInv'
  OBVIOUS
<1>1. ASSUME StartRound PROVE FinishInv'
  <2>1. /\ UNCHANGED <<parseStateMap, told, fileInfoMap, httpPc, project, fresh, result>>
        /\ httpPc \notin {"add", "submit"}
    BY <1>1 DEF StartRound, ParseMutexFree, fileVars, poolVars, httpVars
  <2>2. Numbered' /\ Opening'
    BY <2>1 DEF FinishInv, Numbered, Opening
  <2>3. \A p \in Paths, i \in Projects : Accounted(p, i) => Accounted(p, i)'
    BY <2>1 DEF Accounted, Ready
  <2>4. Reported'
    BY <2>1, <2>3 DEF FinishInv, Reported, Ready
  <2> QED
    BY <2>2, <2>4 DEF FinishInv
<1>2. ASSUME GetIncremental \/ UNCHANGED vars PROVE FinishInv'
  <2>1. UNCHANGED <<fileInfoMap, parseStateMap, watching, told, httpPc, project, fresh, result>>
    BY <1>2 DEF GetIncremental, vars, fileVars, poolVars, httpVars, watchVars
  <2> QED
    BY <2>1, FinishFrame DEF Ready
<1> QED
  BY <1>1, <1>2, ImportFinish, ResetFinish, AddFinish, OpenFinish, SubmitFinish, DoneFinish,
     ReportFinish, WatchFinish, WorkerFinish DEF Next, ImportStep

(* A project that GetParseState has reported finished has had all its      *)
(* files parsed that no later import has replaced, and every File whose    *)
(* task found data holds all the points that can be read.                  *)
THEOREM FinishedIsLoaded == Spec => []FinishedMeansLoaded
<1>1. TypeInv /\ FlushInv /\ FinishInv => FinishedMeansLoaded
  <2> SUFFICES ASSUME TypeInv, FlushInv, FinishInv, NEW i \in told, NEW p \in Paths,
                      fileInfoMap[p] = i
               PROVE  Ready(<<p, i>>) /\ (result[<<p, i>>] = "data" => Loaded(<<p, i>>))
    BY DEF FinishedMeansLoaded
  <2>1. <<p, i>> \in Objects /\ Current(<<p, i>>)
    BY DEF Objects, Current, TypeInv, TypeOK
  <2> QED
    BY <2>1 DEF FinishInv, Reported, FlushInv
<1> QED
  BY <1>1, TypeInit, TypeNext, PlaceInit, PlaceNext, FlushInit, FlushNext, FinishInit, FinishNext,
     PTL DEF Spec

-----------------------------------------------------------------------------
(* The sum over a project's files that the percentage is taken from.       *)

(* Induction, from the well-foundedness of < on Nat.                       *)
LEMMA CountingUp ==
  ASSUME NEW S, 0 \in S, \A n \in Nat : n \in S => n + 1 \in S
  PROVE  Nat \subseteq S
<1> DEFINE T == Nat \ S
<1> SUFFICES ASSUME T # {} PROVE FALSE
  OBVIOUS
<1>1. PICK n \in T : \A m \in T : ~ (<<m, n>> \in OpToRel(<, Nat))
  <2>1. T \subseteq Nat /\ T # {}
    OBVIOUS
  <2> HIDE DEF T
  <2> QED
    BY <2>1, NatLessThanWellFounded, WFMin
<1>2. n \in Nat /\ n # 0 /\ n - 1 \in Nat /\ n - 1 < n /\ n - 1 + 1 = n
  OBVIOUS
<1>3. n - 1 \notin T
  BY <1>1, <1>2 DEF OpToRel
<1> QED
  BY <1>2, <1>3

(* The function MapThenSumSet builds the sum with: of a set, the value of  *)
(* an element it chooses and the sum over the rest.                        *)
Chosen(s) == CHOOSE x \in s : TRUE

IsSum(f, F, value) ==
  f = [s \in SUBSET F |-> IF s = {} THEN 0 ELSE value[Chosen(s)] + f[s \ {Chosen(s)}]]

LEMMA Subsets ==
  ASSUME NEW F, IsFiniteSet(F)
  PROVE  /\ \A s \in SUBSET F : /\ Cardinality(s) \in Nat
                                /\ Cardinality(s) = 0 => s = {}
         /\ \A s \in SUBSET F : s # {} =>
              /\ Chosen(s) \in F /\ s \ {Chosen(s)} \in SUBSET F /\ Cardinality(s) # 0
              /\ Cardinality(s \ {Chosen(s)}) = Cardinality(s) - 1
<1>1. ASSUME NEW s \in SUBSET F PROVE IsFiniteSet(s) /\ Cardinality(s) \in Nat
  BY FS_Subset, FS_CardinalityType
<1>2. ASSUME NEW s \in SUBSET F, s # {}
      PROVE  /\ Chosen(s) \in s /\ Cardinality(s) # 0
             /\ Cardinality(s \ {Chosen(s)}) = Cardinality(s) - 1
  <2>1. Chosen(s) \in s
    BY <1>2 DEF Chosen
  <2> QED
    BY <1>1, <1>2, <2>1, FS_RemoveElement, FS_EmptySet
<1> QED
  BY <1>1, <1>2

LEMMA SumsExist ==
  ASSUME NEW F, IsFiniteSet(F), NEW value \in [F -> Nat]
  PROVE  \E f : IsSum(f, F, value)
<1> DEFINE Small(n) == {s \in SUBSET F : Cardinality(s) <= n}
           SumOver(f, s) == IF s = {} THEN 0 ELSE value[Chosen(s)] + f[s \ {Chosen(s)}]
           Partial(n) == {f \in [Small(n) -> Nat] : \A s \in Small(n) : f[s] = SumOver(f, s)}
           S == {n \in Nat : Partial(n) # {}}
<1>1. 0 \in S
  <2> DEFINE f == [s \in Small(0) |-> 0]
  <2>1. ASSUME NEW s \in Small(0) PROVE s = {}
    <3>1. s \in SUBSET F /\ Cardinality(s) <= 0
      OBVIOUS
    <3>2. Cardinality(s) = 0
      BY <3>1, Subsets
    <3> QED
      BY <3>1, <3>2, Subsets
  <2>2. f \in Partial(0)
    BY <2>1
  <2> HIDE DEF Partial
  <2> QED
    BY <2>2
<1>2. ASSUME NEW n \in Nat, n \in S PROVE n + 1 \in S
  <2>1. PICK f \in [Small(n) -> Nat] : \A s \in Small(n) : f[s] = SumOver(f, s)
    BY <1>2
  <2> DEFINE g == [s \in Small(n + 1) |-> SumOver(f, s)]
  <2>2. \A s \in Small(n + 1) : s # {} => s \ {Chosen(s)} \in Small(n) /\ Chosen(s) \in F
    BY Subsets
  <2>3. \A s \in Small(n) : s \in Small(n + 1)
    BY Subsets
  <2> HIDE DEF Small
  <2>4. g \in [Small(n + 1) -> Nat]
    BY <2>1, <2>2
  <2>5. \A s \in Small(n) : g[s] = f[s]
    BY <2>1, <2>3
  <2>6. \A s \in Small(n + 1) : g[s] = SumOver(g, s)
    BY <2>2, <2>5
  <2>7. g \in Partial(n + 1)
    BY <2>4, <2>6
  <2> HIDE DEF Partial
  <2> QED
    BY <2>7
<1>3. Cardinality(F) \in Nat
  BY FS_CardinalityType
<1>4. Partial(Cardinality(F)) # {}
  <2>1. Nat \subseteq S
    <3> HIDE DEF S
    <3> QED
      BY <1>1, <1>2, CountingUp
  <2> HIDE DEF Partial
  <2> QED
    BY <1>3, <2>1
<1>5. Small(Cardinality(F)) = SUBSET F
  BY FS_Subset
<1>6. PICK f : f \in [SUBSET F -> Nat] /\ \A s \in SUBSET F : f[s] = SumOver(f, s)
  <2> HIDE DEF Small
  <2> QED
    BY <1>4, <1>5
<1>7. f = [s \in SUBSET F |-> SumOver(f, s)]
  <2> HIDE DEF SumOver
  <2> QED
    BY <1>6
<1> QED
  BY <1>7 DEF IsSum

(* Sums of natural numbers are natural numbers, and larger values have a   *)
(* larger sum.                                                             *)
LEMMA SumsGrow ==
  ASSUME NEW F, IsFiniteSet(F), NEW v \in [F -> Nat], NEW w \in [F -> Nat],
         \A x \in F : v[x] <= w[x],
         NEW f, IsSum(f, F, v), NEW g, IsSum(g, F, w)
  PROVE  f[F] \in Nat /\ g[F] \in Nat /\ f[F] <= g[F]
<1> DEFINE Below(s) == f[s] \in Nat /\ g[s] \in Nat /\ f[s] <= g[s]
           S == {n \in Nat : \A s \in SUBSET F : Cardinality(s) = n => Below(s)}
<1>1. /\ f[{}] = 0 /\ g[{}] = 0
      /\ \A s \in SUBSET F : s # {} => /\ f[s] = v[Chosen(s)] + f[s \ {Chosen(s)}]
                                       /\ g[s] = w[Chosen(s)] + g[s \ {Chosen(s)}]
  BY DEF IsSum
<1>2. 0 \in S
  <2>1. \A s \in SUBSET F : Cardinality(s) = 0 => s = {}
    BY Subsets
  <2>2. Below({})
    BY <1>1
  <2> HIDE DEF Below
  <2> QED
    BY <2>1, <2>2
<1>3. ASSUME NEW n \in Nat, n \in S PROVE n + 1 \in S
  <2>1. ASSUME NEW s \in SUBSET F, Cardinality(s) = n + 1 PROVE Below(s)
    <3>1. Cardinality({}) = 0
      BY FS_EmptySet
    <3>2. s # {}
      <4>1. n + 1 # 0
        OBVIOUS
      <4> QED
        BY <2>1, <3>1, <4>1
    <3>3. PICK x, r : x = Chosen(s) /\ r = s \ {Chosen(s)}
      OBVIOUS
    <3>4. x \in F /\ r \in SUBSET F /\ Cardinality(r) = n
      BY <2>1, <3>2, <3>3, Subsets
    <3>5. f[r] <= g[r] /\ f[r] \in Nat /\ g[r] \in Nat
      BY <1>3, <3>4
    <3>6. f[s] = v[x] + f[r] /\ g[s] = w[x] + g[r]
      BY <1>1, <3>2, <3>3
    <3>7. v[x] <= w[x] /\ v[x] \in Nat /\ w[x] \in Nat
      BY <3>4
    <3> QED
      BY <3>5, <3>6, <3>7
  <2> HIDE DEF Below
  <2> QED
    BY <2>1
<1>4. Cardinality(F) \in S
  <2>1. Nat \subseteq S
    <3> HIDE DEF S
    <3> QED
      BY <1>2, <1>3, CountingUp
  <2> QED
    BY <2>1, FS_CardinalityType
<1> QED
  BY <1>4

MapThenSum(F, i, size) ==
  CHOOSE f : f = [s \in SUBSET F |-> IF s = {} THEN 0
                                     ELSE LET x == CHOOSE x \in s : TRUE
                                          IN size[<<x, i>>] + f[s \ {x}]]

LEMMA MapThenSumIsSum ==
  ASSUME NEW F, IsFiniteSet(F), NEW i, NEW size, \A p \in F : size[<<p, i>>] \in Nat
  PROVE  IsSum(MapThenSum(F, i, size), F, [p \in F |-> size[<<p, i>>]])
<1> DEFINE value == [p \in F |-> size[<<p, i>>]]
           Step(f) == [s \in SUBSET F |-> IF s = {} THEN 0
                                          ELSE LET x == CHOOSE x \in s : TRUE
                                               IN size[<<x, i>>] + f[s \ {x}]]
<1>1. PICK g : IsSum(g, F, value)
  <2>1. value \in [F -> Nat]
    OBVIOUS
  <2> HIDE DEF value
  <2> QED
    BY <2>1, SumsExist
<1>2. ASSUME NEW f
      PROVE  IsSum(f, F, value) <=> f = Step(f)
  <2>1. \A s \in SUBSET F : s # {} => Chosen(s) \in F
    BY DEF Chosen
  <2> QED
    BY <2>1 DEF IsSum, Chosen
<1>3. g = Step(g)
  BY <1>1, <1>2
<1>4. MapThenSum(F, i, size) = CHOOSE f : f = Step(f)
  BY DEF MapThenSum
<1>5. MapThenSum(F, i, size) = Step(MapThenSum(F, i, size))
  <2> HIDE DEF Step
  <2> QED
    BY <1>3, <1>4
<1> QED
  <2> HIDE DEF Step, value
  <2>1. IsSum(MapThenSum(F, i, size), F, value)
    BY <1>2, <1>5
  <2> QED
    BY <2>1 DEF value

LEMMA TimesGrows ==
  ASSUME NEW k \in Nat, NEW a \in Nat, NEW b \in Nat, a <= b
  PROVE  k * a \in Nat /\ k * b \in Nat /\ k * a <= k * b
<1>1. PICK d \in Nat : b = a + d
  <2>1. b - a \in Nat /\ b = a + (b - a)
    OBVIOUS
  <2> QED
    BY <2>1
<1>2. k * b = k * a + k * d /\ k * a \in Nat /\ k * d \in Nat
  BY <1>1
<1> QED
  BY <1>2

(* The sum over the same files grows with what their tasks have consumed.  *)
LEMMA ParsedRecordsGrow ==
  ASSUME NEW i \in Projects, IsFiniteSet(FilesCounted(i)), FilesCounted(i) \subseteq Paths,
         FilesCounted(i)' = FilesCounted(i),
         offSet \in [Objects -> Nat], offSet' \in [Objects -> Nat],
         \A o \in Objects : offSet[o] <= offSet'[o]
  PROVE  ParsedRecords(i) \in Nat /\ ParsedRecords(i)' \in Nat /\ ParsedRecords(i) <= ParsedRecords(i)'
<1>1. PICK F, v, w : /\ F = FilesCounted(i)
                     /\ v = [p \in F |-> offSet[<<p, i>>]] /\ w = [p \in F |-> offSet'[<<p, i>>]]
  OBVIOUS
<1>2. /\ ParsedRecords(i) = MapThenSum(F, i, offSet)[F]
      /\ ParsedRecords(i)' = MapThenSum(F, i, offSet')[F]
  BY <1>1 DEF ParsedRecords, MapThenSumSet, MapThenFoldSet, MapThenSum
<1>3. /\ v \in [F -> Nat] /\ w \in [F -> Nat] /\ IsFiniteSet(F)
      /\ \A p \in F : v[p] <= w[p]
      /\ \A p \in F : offSet[<<p, i>>] \in Nat /\ offSet'[<<p, i>>] \in Nat
  BY <1>1 DEF Objects
<1>4. IsSum(MapThenSum(F, i, offSet), F, v)
  BY <1>1, <1>3, MapThenSumIsSum
<1>5. IsSum(MapThenSum(F, i, offSet'), F, w)
  BY <1>1, <1>3, MapThenSumIsSum
<1>6. PICK f, g : f = MapThenSum(F, i, offSet) /\ g = MapThenSum(F, i, offSet')
  OBVIOUS
<1>7. f[F] \in Nat /\ g[F] \in Nat /\ f[F] <= g[F]
  BY ONLY <1>3, <1>4, <1>5, <1>6, SumsGrow
<1> QED
  BY <1>2, <1>6, <1>7

LEMMA ParsedSizeGrows ==
  ASSUME NEW i \in Projects, IsFiniteSet(FilesCounted(i)), FilesCounted(i) \subseteq Paths,
         FilesCounted(i)' = FilesCounted(i),
         offSet \in [Objects -> Nat], offSet' \in [Objects -> Nat],
         \A o \in Objects : offSet[o] <= offSet'[o]
  PROVE  ParsedSize(i) \in Nat /\ ParsedSize(i)' \in Nat /\ ParsedSize(i) <= ParsedSize(i)'
<1>1. /\ ParsedRecords(i) \in Nat /\ ParsedRecords(i)' \in Nat
      /\ ParsedRecords(i) <= ParsedRecords(i)'
  BY ParsedRecordsGrow
<1>2. PICK a, b : a = ParsedRecords(i) /\ b = ParsedRecords(i)'
  OBVIOUS
<1>3. RecordSize * a \in Nat /\ RecordSize * b \in Nat /\ RecordSize * a <= RecordSize * b
  BY <1>1, <1>2, ConstantsOK, TimesGrows
<1> QED
  BY <1>2, <1>3 DEF ParsedSize

(* What the tasks of a project have consumed is a number after a step.     *)
LEMMA ParsedSizeNext ==
  ASSUME NEW i \in Projects, IsFiniteSet(FilesCounted(i)'), FilesCounted(i)' \subseteq Paths,
         offSet' \in [Objects -> Nat]
  PROVE  ParsedSize(i)' \in Nat
<1>1. PICK F, v, o : F = FilesCounted(i)' /\ o = offSet' /\ v = [p \in F |-> o[<<p, i>>]]
  OBVIOUS
<1>2. ParsedRecords(i)' = MapThenSum(F, i, o)[F]
  BY <1>1 DEF ParsedRecords, MapThenSumSet, MapThenFoldSet, MapThenSum
<1>3. v \in [F -> Nat] /\ IsFiniteSet(F) /\ \A p \in F : v[p] <= v[p] /\ o[<<p, i>>] \in Nat
  <2>1. F \subseteq Paths /\ o \in [Objects -> Nat] /\ IsFiniteSet(F)
    BY <1>1
  <2>2. \A p \in F : o[<<p, i>>] \in Nat
    BY <2>1 DEF Objects
  <2>3. v \in [F -> Nat]
    BY <1>1, <2>2
  <2> QED
    BY <2>1, <2>2, <2>3
<1>4. IsSum(MapThenSum(F, i, o), F, v)
  BY <1>1, <1>3, MapThenSumIsSum
<1>5. PICK f : f = MapThenSum(F, i, o)
  OBVIOUS
<1>6. f[F] \in Nat
  BY ONLY <1>3, <1>4, <1>5, SumsGrow
<1>7. RecordSize * f[F] \in Nat
  BY <1>6, ConstantsOK
<1> QED
  BY <1>2, <1>5, <1>7 DEF ParsedSize

-----------------------------------------------------------------------------
(* PercentNeverFalls.  A task ends no earlier in its file than it began,   *)
(* so what the tasks of a project have consumed only grows; the percentage *)
(* is never ahead of it; and a project gets no files once it is watched.   *)
AheadOfOffSet == \A w \in Workers : pc[w] # "idle" => offSet[job[w]] <= pos[w]

(* The percentage of a project does not exceed what has been parsed of it, *)
(* as long as a uint32_t holds it before it is capped.                     *)
Backed(i) ==
  \/ ~PercentFits(i)
  \/ parseStateMap[i].finish /\ parseStateMap[i].percent = 100
  \/ parseStateMap[i].percent * parseStateMap[i].dataSize <= ParsedSize(i) * 100

ProgressInv ==
  /\ AheadOfOffSet
  /\ \A i \in Projects : IsFiniteSet(parseStateMap[i].files)
  /\ \A i \in Projects : i > project => ~parseStateMap[i].known
  /\ httpPc \in BeforeAdd \cup {"add"} => ~parseStateMap[project].known
  /\ httpPc = "submit" => parseStateMap[project].percent = 0
  /\ \A i \in Projects : parseStateMap[i].known /\ parseStateMap[i].dataSize > 0 => Backed(i)

LEMMA ProgressInit == Init => ProgressInv
<1> SUFFICES ASSUME Init PROVE ProgressInv
  OBVIOUS
<1>1. \A i \in Projects : parseStateMap[i].files = {} /\ parseStateMap[i].known = FALSE
  BY DEF Init, NoState
<1>2. httpPc \notin BeforeAdd \cup {"add", "submit"} /\ AheadOfOffSet
  BY DEF Init, BeforeAdd, ResetStates, AheadOfOffSet
<1> QED
  BY <1>1, <1>2, FS_EmptySet DEF ProgressInv

LEMMA OffSetGrows ==
  ASSUME TypeInv, AheadOfOffSet, [Next]_vars
  PROVE  \A o \in Objects : offSet[o] <= offSet'[o]
<1>1. offSet \in [Objects -> Nat]
  BY DEF TypeInv, TypeOK
<1>2. UNCHANGED offSet \/ \E w \in Workers : SetOffSet(w)
  BY DEF Next, ImportStep, WorkerStep, ImportFile, ResetFiles, ResetGraphs, ResetIncremental,
     ResetParse, AddParseTask, AddFile, OpenProject, Submit, ImportDone, GetParseState,
     GetIncremental, TakeTask, ReadRecord, CheckImported, CheckIncremental, AddIncremental,
     UpdateGraph, UpdateData, TaskDone, StartRound, WatchProject, fileVars, vars
<1>3. ASSUME NEW w \in Workers, SetOffSet(w), NEW o \in Objects PROVE offSet[o] <= offSet'[o]
  <2>1. offSet' = [offSet EXCEPT ![job[w]] = pos[w]] /\ offSet[job[w]] <= pos[w]
    BY <1>3 DEF SetOffSet, AheadOfOffSet
  <2>2. CASE o = job[w]
    BY <1>1, <2>1, <2>2
  <2>3. CASE o # job[w]
    BY <1>1, <2>1, <2>3
  <2> QED
    BY <2>2, <2>3
<1> QED
  BY <1>1, <1>2, <1>3

LEMMA AheadNext ==
  ASSUME TypeInv, PlaceInv, AheadOfOffSet, [Next]_vars
  PROVE  AheadOfOffSet'
<1> SUFFICES ASSUME NEW v \in Workers, pc'[v] # "idle"
             PROVE  offSet'[job'[v]] <= pos'[v]
  BY DEF AheadOfOffSet
<1>1. /\ pos \in [Workers -> Nat] /\ job \in [Workers -> Objects \cup {NoJob}]
      /\ pc \in [Workers -> WorkerStates] /\ offSet \in [Objects -> Nat]
      /\ sent \in [Workers -> Nat] /\ tasks \in Seq(Objects)
  BY DEF TypeInv, TypeOK
<1>2. CASE UNCHANGED <<offSet, pc, job, pos>>
  BY <1>2 DEF AheadOfOffSet
<1>3. ASSUME NEW w \in Workers, WorkerStep(w) PROVE offSet'[job'[v]] <= pos'[v]
  <2>1. CASE v # w
    <3>1. pc'[v] = pc[v] /\ job'[v] = job[v] /\ pos'[v] = pos[v]
      BY <1>1, <1>3, <2>1 DEF WorkerStep, TakeTask, ReadRecord, CheckImported, CheckIncremental,
         AddIncremental, UpdateGraph, UpdateData, SetOffSet, TaskDone, Release
    <3>2. offSet[job[v]] <= pos[v]
      BY <3>1 DEF AheadOfOffSet
    <3>3. CASE SetOffSet(w)
      <4>1. /\ offSet' = [offSet EXCEPT ![job[w]] = pos[w]] /\ job[v] # job[w]
            /\ job[v] \in Objects
        BY <2>1, <3>1, <3>3 DEF SetOffSet, PlaceInv, JobsOnce, TypeInv, WithinFile
      <4> QED
        BY <1>1, <3>1, <3>2, <4>1
    <3>4. CASE ~SetOffSet(w)
      <4>1. UNCHANGED offSet
        BY <1>3, <3>4 DEF WorkerStep, TakeTask, ReadRecord, CheckImported, CheckIncremental,
           AddIncremental, UpdateGraph, UpdateData, TaskDone, fileVars
      <4> QED
        BY <3>1, <3>2, <4>1
    <3> QED
      BY <3>3, <3>4
  <2>2. CASE v = w
    <3>1. CASE TakeTask(w)
      <4>1. Head(tasks) \in Objects
        BY <1>1, <3>1 DEF TakeTask
      <4> QED
        BY <1>1, <2>2, <3>1, <4>1 DEF TakeTask, fileVars
    <3>2. CASE ReadRecord(w)
      <4>1. UNCHANGED offSet /\ offSet[job[w]] <= pos[w] /\ job[w] \in Objects
        BY <3>2 DEF ReadRecord, fileVars, AheadOfOffSet, TypeInv, WithinFile
      <4>2. pc'[w] # "idle" => job'[w] = job[w] /\ (pos'[w] = pos[w] \/ pos'[w] = pos[w] + 1)
        BY <1>1, <3>2 DEF ReadRecord, Release
      <4> QED
        BY <1>1, <2>2, <4>1, <4>2
    <3>3. CASE CheckImported(w) \/ CheckIncremental(w) \/ AddIncremental(w) \/ UpdateGraph(w)
               \/ UpdateData(w)
      <4>1. UNCHANGED <<offSet, job, pos>> /\ pc[w] # "idle"
        BY <3>3 DEF CheckImported, CheckIncremental, AddIncremental, UpdateGraph, UpdateData,
           fileVars
      <4> QED
        BY <2>2, <4>1 DEF AheadOfOffSet
    <3>4. CASE SetOffSet(w)
      <4>1. /\ offSet' = [offSet EXCEPT ![job[w]] = pos[w]] /\ UNCHANGED <<job, pos>>
            /\ job[w] \in Objects
        BY <3>4 DEF SetOffSet, TypeInv, WithinFile
      <4> QED
        BY <1>1, <2>2, <4>1
    <3>5. CASE TaskDone(w)
      BY <1>1, <2>2, <3>5 DEF TaskDone, Release
    <3> QED
      BY <1>3, <3>1, <3>2, <3>3, <3>4, <3>5 DEF WorkerStep
  <2> QED
    BY <2>1, <2>2
<1> QED
  BY <1>2, <1>3 DEF Next, ImportStep, ImportFile, ResetFiles, ResetGraphs, ResetIncremental,
     ResetParse, AddParseTask, AddFile, OpenProject, Submit, ImportDone, GetParseState,
     GetIncremental, StartRound, WatchProject, fileVars, workerVars, vars

(* A project that a step leaves alone is as far as before, or farther.     *)
LEMMA StillBacked ==
  ASSUME TypeInv, TypeInv', NEW i \in Projects, IsFiniteSet(parseStateMap[i].files), Backed(i),
         \A o \in Objects : offSet[o] <= offSet'[o], parseStateMap'[i] = parseStateMap[i]
  PROVE  Backed(i)'
<1> DEFINE S == parseStateMap[i]
<1>1. /\ S \in ParseStates /\ FilesCounted(i) = S.files /\ FilesCounted(i)' = S.files
      /\ S.files \subseteq Paths
      /\ offSet \in [Objects -> Nat] /\ offSet' \in [Objects -> Nat]
  BY DEF TypeInv, TypeOK, FilesCounted, ParseStates
<1>2. /\ ParsedSize(i) \in Nat /\ ParsedSize(i)' \in Nat
      /\ ParsedSize(i) <= ParsedSize(i)'
  BY <1>1, ParsedSizeGrows
<1>3. CASE S.finish /\ S.percent = 100
  BY <1>3 DEF Backed
<1>5. CASE ~PercentFits(i)
  <2>1. PercentFits(i)' => PercentFits(i)
    <3>1. PICK y, z, c, d : /\ y = ParsedSize(i) /\ z = ParsedSize(i)' /\ d = S.dataSize
                            /\ c = 2 * IntHalf * S.dataSize
      OBVIOUS
    <3>2. c \in Nat
      BY <1>1, <3>1, ConstantsOK DEF ParseStates
    <3>3. z * 100 < c => y * 100 < c
      BY <1>2, <3>1, <3>2
    <3> QED
      BY <3>1, <3>3 DEF PercentFits
  <2> QED
    BY <1>5, <2>1 DEF Backed
<1>4. CASE S.percent * S.dataSize <= ParsedSize(i) * 100
  <2>1. PICK x, y, z : x = S.percent * S.dataSize /\ y = ParsedSize(i) /\ z = ParsedSize(i)'
    OBVIOUS
  <2>2. x \in Nat
    BY <1>1, <2>1 DEF ParseStates
  <2>3. x <= z * 100
    BY <1>2, <1>4, <2>1, <2>2
  <2>4. parseStateMap'[i].percent * parseStateMap'[i].dataSize <= ParsedSize(i)' * 100
    BY <2>1, <2>3
  <2> QED
    BY <2>4 DEF Backed
<1> QED
  BY <1>3, <1>4, <1>5 DEF Backed

(* A quotient that a uint32_t holds is capped, and that is the largest     *)
(* percentage that the parsed size allows.                                 *)
LEMMA Quotient ==
  ASSUME NEW a \in Nat, NEW b \in Nat \ {0}
  PROVE  a \div b \in Nat /\ b * (a \div b) <= a /\ a < b * (a \div b) + b
OBVIOUS

LEMMA CappedIsLargest ==
  ASSUME NEW parsed \in Nat, NEW size \in Nat \ {0}, NEW p \in 0 .. 100,
         p * size <= parsed * 100
  PROVE  LET q == Capped((parsed * 100) \div size)
         IN q \in 0 .. 100 /\ p <= q /\ q * size <= parsed * 100
<1>1. PICK x : x = (parsed * 100) \div size
  OBVIOUS
<1>2. /\ x \in Nat /\ parsed * 100 \in Nat
      /\ size * x <= parsed * 100 /\ parsed * 100 < size * x + size
  BY <1>1, Quotient
<1>3. p <= x
  <2>1. ASSUME x < p PROVE FALSE
    <3>1. PICK d \in Nat : p = x + 1 + d
      <4>1. p - (x + 1) \in Nat /\ p = x + 1 + (p - (x + 1))
        BY <1>2, <2>1
      <4> QED
        BY <4>1
    <3>2. p * size = size * x + size + size * d
      BY <1>2, <3>1
    <3>3. size * d \in Nat /\ size * x \in Nat
      BY <1>2
    <3> QED
      BY <1>2, <3>2, <3>3
  <2> QED
    BY <1>2, <2>1
<1>4. CASE x < 100
  <2>1. Capped(x) = x /\ x * size = size * x
    BY <1>2, <1>4 DEF Capped
  <2> QED
    BY <1>1, <1>2, <1>3, <1>4, <2>1
<1>5. CASE ~(x < 100)
  <2>1. Capped(x) = 100
    BY <1>5 DEF Capped
  <2>2. 100 * size <= size * x
    <3>1. size * 100 <= size * x
      BY <1>2, <1>5, TimesGrows
    <3> QED
      BY <3>1
  <2>3. size * x \in Nat
    BY <1>2
  <2> QED
    BY <1>1, <1>2, <2>1, <2>2, <2>3
<1> QED
  BY <1>4, <1>5

(* A quotient that a uint32_t holds is below 2^32.                         *)
LEMMA QuotientBelow ==
  ASSUME NEW a \in Nat, NEW b \in Nat \ {0}, NEW c \in Nat, a < c * b
  PROVE  a \div b < c
<1>1. PICK x : x = a \div b
  OBVIOUS
<1>2. x \in Nat /\ b * x <= a
  BY <1>1, Quotient
<1>3. ASSUME c <= x PROVE FALSE
  <2>1. b * c <= b * x /\ b * c \in Nat /\ b * x \in Nat
    BY <1>2, <1>3, TimesGrows
  <2>2. b * c = c * b
    OBVIOUS
  <2> QED
    BY <1>2, <2>1, <2>2
<1> QED
  BY <1>1, <1>2, <1>3

LEMMA WatchBacked ==
  ASSUME TypeInv, TypeInv', NEW i \in Projects, WatchProject(i), parseStateMap[i].dataSize > 0,
         IsFiniteSet(parseStateMap[i].files), Backed(i)
  PROVE  /\ PercentFits(i)' => parseStateMap[i].percent <= parseStateMap'[i].percent
         /\ Backed(i)'
<1> DEFINE S == parseStateMap[i]
           T == parseStateMap'[i]
<1>1. /\ S \in ParseStates /\ S.percent \in 0 .. 100 /\ S.dataSize \in Nat \ {0}
      /\ S.files \subseteq Paths /\ parseStateMap \in [Projects -> ParseStates]
      /\ offSet \in [Objects -> Nat] /\ UNCHANGED offSet
  BY SMTT(30) DEF WatchProject, fileVars, TypeInv, TypeOK, ParseStates
<1>2. CASE UNCHANGED parseStateMap
  <2>1. \A o \in Objects : offSet[o] <= offSet'[o]
    BY <1>1
  <2>2. Backed(i)'
    BY <1>2, <2>1, StillBacked
  <2> QED
    BY <1>1, <1>2, <2>2
<1>3. CASE parseStateMap' = [parseStateMap EXCEPT ![i].finish = TRUE, ![i].percent = 100]
  <2>1. T = [[S EXCEPT !.finish = TRUE] EXCEPT !.percent = 100]
    BY <1>1, <1>3
  <2>2. T.finish = TRUE /\ T.percent = 100
    BY <1>1, <2>1 DEF ParseStates
  <2> QED
    BY <1>1, <2>2 DEF Backed
<1>4. ASSUME ~S.finish, NEW percent \in Percents(i),
             parseStateMap' = [parseStateMap EXCEPT ![i].percent = percent]
      PROVE  (PercentFits(i)' => S.percent <= T.percent) /\ Backed(i)'
  <2> SUFFICES ASSUME PercentFits(i)' PROVE S.percent <= T.percent /\ Backed(i)'
    BY DEF Backed
  <2>1. T = [S EXCEPT !.percent = percent]
    BY <1>1, <1>4
  <2>2. T.percent = percent /\ T.dataSize = S.dataSize /\ T.files = S.files
    BY <1>1, <2>1 DEF ParseStates
  <2>3. PICK y, d, c : y = ParsedSize(i) /\ d = S.dataSize /\ c = 2 * IntHalf
    OBVIOUS
  <2>4. ParsedSize(i)' = y /\ y \in Nat /\ d \in Nat \ {0} /\ c \in Nat
    <3>1. FilesCounted(i) = S.files /\ FilesCounted(i)' = S.files
      BY <2>2 DEF FilesCounted
    <3>2. \A o \in Objects : offSet[o] <= offSet'[o]
      BY <1>1
    <3>3. ParsedSize(i) \in Nat
      BY <1>1, <3>1, <3>2, ParsedSizeGrows
    <3>4. ParsedRecords(i)' = ParsedRecords(i)
      <4>1. PICK F, o : F = FilesCounted(i) /\ o = offSet
        OBVIOUS
      <4>2. ParsedRecords(i) = MapThenSum(F, i, o)[F] /\ ParsedRecords(i)' = MapThenSum(F, i, o)[F]
        BY <1>1, <3>1, <4>1 DEF ParsedRecords, MapThenSumSet, MapThenFoldSet, MapThenSum
      <4> QED
        BY <4>2
    <3> QED
      BY <1>1, <2>3, <3>3, <3>4, ConstantsOK DEF ParsedSize
  <2>5. PercentFits(i) /\ y * 100 < c * d
    BY <2>2, <2>3, <2>4 DEF PercentFits
  <2>6. S.percent * d <= y * 100
    BY <1>4, <2>3, <2>5 DEF Backed
  <2>7. percent = Capped((y * 100) \div d)
    <3>1. PICK u \in ToUint32((y * 100) \div d) : percent = Capped(u)
      BY <1>1, <1>4, <2>3 DEF Percents
    <3>2. y * 100 \in Nat
      BY <2>4
    <3>3. (y * 100) \div d \in Nat /\ (y * 100) \div d < c
      BY <2>4, <2>5, <3>2, Quotient, QuotientBelow
    <3>4. (y * 100) \div d \in UInt32
      BY <2>3, <2>4, <3>3 DEF UInt32
    <3>5. u = (y * 100) \div d
      BY <3>1, <3>4 DEF ToUint32
    <3> QED
      BY <3>1, <3>5
  <2>8. S.percent <= percent /\ percent * d <= y * 100
    BY <1>1, <2>4, <2>6, <2>7, CappedIsLargest
  <2>9. T.percent * T.dataSize <= ParsedSize(i)' * 100
    BY <2>2, <2>3, <2>4, <2>8
  <2> QED
    BY <2>2, <2>8, <2>9 DEF Backed
<1> QED
  BY <1>2, <1>3, <1>4 DEF WatchProject

(* What the steps that touch no parse state leave.                         *)
LEMMA ProgressFrame ==
  ASSUME TypeInv, TypeInv', PlaceInv, ProgressInv, [Next]_vars, UNCHANGED parseStateMap,
         \A i \in Projects : i > project' => i > project,
         httpPc' \in BeforeAdd \cup {"add"} => ~parseStateMap[project'].known,
         httpPc' = "submit" => parseStateMap[project'].percent = 0
  PROVE  ProgressInv'
<1>1. AheadOfOffSet'
  BY AheadNext DEF ProgressInv
<1>2. \A o \in Objects : offSet[o] <= offSet'[o]
  BY OffSetGrows DEF ProgressInv
<1>3. \A i \in Projects : parseStateMap'[i].known /\ parseStateMap'[i].dataSize > 0 => Backed(i)'
  BY <1>2, StillBacked DEF ProgressInv
<1> QED
  BY <1>1, <1>3 DEF ProgressInv

(* A step that may change the state of one project.                        *)
LEMMA ProgressOne ==
  ASSUME TypeInv, TypeInv', PlaceInv, ProgressInv, [Next]_vars, NEW i \in Projects,
         \A j \in Projects : j # i => parseStateMap'[j] = parseStateMap[j],
         IsFiniteSet(parseStateMap'[i].files),
         parseStateMap'[i].known /\ parseStateMap'[i].dataSize > 0 => Backed(i)',
         parseStateMap'[i].known => parseStateMap[i].known \/ i = project,
         UNCHANGED project,
         httpPc' \in BeforeAdd \cup {"add"} => ~parseStateMap'[project].known,
         httpPc' = "submit" => parseStateMap'[project].percent = 0
  PROVE  ProgressInv'
<1>1. AheadOfOffSet'
  BY AheadNext DEF ProgressInv
<1>2. \A o \in Objects : offSet[o] <= offSet'[o]
  BY OffSetGrows DEF ProgressInv
<1>3. ASSUME NEW j \in Projects, parseStateMap'[j].known, parseStateMap'[j].dataSize > 0
      PROVE  Backed(j)'
  <2>1. CASE j = i
    BY <1>3, <2>1
  <2>2. CASE j # i
    BY <1>2, <1>3, <2>2, StillBacked DEF ProgressInv
  <2> QED
    BY <2>1, <2>2
<1>4. \A j \in Projects : j > project => ~parseStateMap'[j].known
  <2>1. ~ (project > project)
    BY ConstantsOK DEF TypeInv, TypeOK
  <2> QED
    BY <2>1 DEF ProgressInv
<1>5. \A j \in Projects : IsFiniteSet(parseStateMap'[j].files)
  BY DEF ProgressInv
<1> QED
  BY <1>1, <1>3, <1>4, <1>5 DEF ProgressInv

LEMMA WatchProgress ==
  ASSUME TypeInv, TypeInv', PlaceInv, FinishInv, ProgressInv,
         NEW i \in Projects, WatchProject(i)
  PROVE  /\ ProgressInv'
         /\ parseStateMap[i].known /\ parseStateMap[i].dataSize > 0 /\ PercentFits(i)' =>
              parseStateMap[i].percent <= parseStateMap'[i].percent
         /\ parseStateMap'[i].dataSize = parseStateMap[i].dataSize
<1> DEFINE S == parseStateMap[i]
           T == parseStateMap'[i]
<1>1. /\ S \in ParseStates /\ parseStateMap \in [Projects -> ParseStates]
      /\ UNCHANGED <<httpPc, project>> /\ httpPc \notin {"add", "submit"}
      /\ \A j \in Projects : j # i => parseStateMap'[j] = parseStateMap[j]
      /\ httpPc # "idle" => project \in Projects
  BY DEF WatchProject, httpVars, TypeInv, TypeOK, FinishInv, Opening
<1>2. T.files = S.files /\ T.known = S.known /\ T.dataSize = S.dataSize
  <2>1. CASE UNCHANGED parseStateMap
    BY <2>1
  <2>2. CASE parseStateMap' = [parseStateMap EXCEPT ![i].finish = TRUE, ![i].percent = 100]
    <3>1. T = [[S EXCEPT !.finish = TRUE] EXCEPT !.percent = 100]
      BY <1>1, <2>2
    <3> QED
      BY <1>1, <3>1 DEF ParseStates
  <2>3. CASE \E percent \in Percents(i) :
               parseStateMap' = [parseStateMap EXCEPT ![i].percent = percent]
    <3>1. PICK percent : parseStateMap' = [parseStateMap EXCEPT ![i].percent = percent]
      BY <2>3
    <3>2. T = [S EXCEPT !.percent = percent]
      BY <1>1, <3>1
    <3> QED
      BY <1>1, <3>2 DEF ParseStates
  <2> QED
    BY <2>1, <2>2, <2>3 DEF WatchProject
<1>3. ASSUME S.known, S.dataSize > 0
      PROVE  (PercentFits(i)' => S.percent <= T.percent) /\ Backed(i)'
  BY <1>3, WatchBacked DEF ProgressInv
<1>4. [Next]_vars
  BY DEF Next
<1>5. IsFiniteSet(T.files)
  BY <1>2 DEF ProgressInv
<1>6. httpPc' \in BeforeAdd \cup {"add"} => ~parseStateMap'[project].known
  <2>1. "idle" \notin BeforeAdd \cup {"add"}
    BY DEF BeforeAdd, ResetStates
  <2> QED
    BY <1>1, <1>2, <2>1 DEF ProgressInv
<1>7. ProgressInv'
  BY <1>1, <1>2, <1>3, <1>4, <1>5, <1>6, ProgressOne
<1> QED
  BY <1>2, <1>3, <1>7

LEMMA SubmitProgress ==
  ASSUME TypeInv, TypeInv', PlaceInv, FinishInv, ProgressInv, Submit
  PROVE  ProgressInv' /\ parseStateMap'[project].percent = parseStateMap[project].percent
<1> DEFINE S == parseStateMap[project]
           T == parseStateMap'[project]
<1>1. /\ project \in Projects /\ S \in ParseStates /\ parseStateMap \in [Projects -> ParseStates]
      /\ httpPc = "submit" /\ UNCHANGED <<httpPc, project>>
      /\ parseStateMap' = [parseStateMap EXCEPT ![project].files = @ \cup {Head(fresh)}]
  BY DEF Submit, TypeInv, TypeOK
<1>2. PICK f : f = Head(fresh)
  OBVIOUS
<1>3. /\ T = [S EXCEPT !.files = S.files \cup {f}]
      /\ \A j \in Projects : j # project => parseStateMap'[j] = parseStateMap[j]
  BY <1>1, <1>2
<1>4. /\ T.files = S.files \cup {f} /\ T.known = S.known /\ T.percent = S.percent
      /\ T.dataSize = S.dataSize /\ S.percent = 0 /\ T.dataSize \in Nat
  BY <1>1, <1>3 DEF ParseStates, ProgressInv
<1>5. IsFiniteSet(T.files)
  BY <1>1, <1>4, FS_AddElement DEF ProgressInv
<1>6. Backed(project)'
  <2>1. FilesCounted(project)' = T.files /\ T.files \subseteq Paths
    BY <1>1 DEF FilesCounted, TypeInv, TypeOK, ParseStates
  <2>2. ParsedSize(project)' \in Nat
    BY <1>1, <1>5, <2>1, ParsedSizeNext DEF TypeInv, TypeOK
  <2>3. T.percent * T.dataSize = 0
    BY <1>4
  <2>4. T.percent * T.dataSize <= ParsedSize(project)' * 100
    BY <2>2, <2>3
  <2> QED
    BY <1>1, <2>4 DEF Backed
<1>7. [Next]_vars
  BY DEF Next, ImportStep
<1>8. "submit" \notin BeforeAdd \cup {"add"}
  BY DEF BeforeAdd, ResetStates
<1> QED
  BY <1>1, <1>3, <1>4, <1>5, <1>6, <1>7, <1>8, ProgressOne

LEMMA OpenProgress ==
  ASSUME TypeInv, TypeInv', PlaceInv, ProgressInv, OpenProject
  PROVE  ProgressInv' /\ ~parseStateMap[project].known
<1>1. /\ project \in Projects /\ parseStateMap \in [Projects -> ParseStates] /\ dataSize \in Nat
      /\ httpPc = "add" /\ httpPc' = "submit" /\ UNCHANGED project
      /\ parseStateMap' = [parseStateMap EXCEPT ![project] = OpenState(dataSize)]
  BY DEF OpenProject, TypeInv, TypeOK
<1>2. /\ parseStateMap'[project] = OpenState(dataSize)
      /\ \A j \in Projects : j # project => parseStateMap'[j] = parseStateMap[j]
  BY <1>1
<1>3. /\ parseStateMap'[project].files = {} /\ parseStateMap'[project].percent = 0
      /\ parseStateMap'[project].dataSize = dataSize
  BY <1>2 DEF OpenState
<1>4. IsFiniteSet(parseStateMap'[project].files)
  BY <1>3, FS_EmptySet
<1>5. Backed(project)'
  <2>1. FilesCounted(project)' = {}
    BY <1>1, <1>3 DEF FilesCounted
  <2>2. ParsedSize(project)' \in Nat
    BY <1>1, <1>4, <2>1, ParsedSizeNext, FS_EmptySet DEF TypeInv, TypeOK
  <2>3. parseStateMap'[project].percent * parseStateMap'[project].dataSize = 0
    BY <1>1, <1>3
  <2>4. parseStateMap'[project].percent * parseStateMap'[project].dataSize
          <= ParsedSize(project)' * 100
    BY <2>2, <2>3
  <2> QED
    BY <1>1, <2>4 DEF Backed
<1>6. [Next]_vars
  BY DEF Next, ImportStep
<1>7. "submit" \notin BeforeAdd \cup {"add"} /\ ~parseStateMap[project].known
  BY <1>1 DEF BeforeAdd, ResetStates, ProgressInv
<1> QED
  BY <1>1, <1>2, <1>3, <1>4, <1>5, <1>6, <1>7, ProgressOne

LEMMA ProgressNext ==
  TypeInv /\ TypeInv' /\ PlaceInv /\ FinishInv /\ ProgressInv /\ [Next]_vars => ProgressInv'
<1> SUFFICES ASSUME TypeInv, TypeInv', PlaceInv, FinishInv, ProgressInv, [Next]_vars
             PROVE  ProgressInv'
  OBVIOUS
<1> USE DEF BeforeAdd, ResetStates
<1>1. ASSUME NEW append \in BOOLEAN, NEW list \in ImportLists, ImportFile(append, list)
      PROVE  ProgressInv'
  <2>1. /\ UNCHANGED parseStateMap /\ project' = project + 1 /\ project \in Nat
        /\ project' \in Projects /\ httpPc' \in {"import", "resetFiles"}
    BY <1>1, ConstantsOK DEF ImportFile, watchVars, TypeInv, TypeOK
  <2>2. ~parseStateMap[project'].known /\ \A i \in Projects : i > project' => i > project
    BY <2>1 DEF ProgressInv, Projects
  <2> QED
    BY <2>1, <2>2, ProgressFrame
<1>2. ASSUME ResetFiles \/ ResetGraphs \/ ResetIncremental \/ AddParseTask \/ AddFile \/ ImportDone
             \/ GetIncremental \/ StartRound \/ (\E w \in Workers : WorkerStep(w))
             \/ UNCHANGED vars
      PROVE  ProgressInv'
  <2>1. UNCHANGED <<parseStateMap, project>>
    BY <1>2 DEF ResetFiles, ResetGraphs, ResetIncremental, AddParseTask, AddFile, ImportDone,
       GetIncremental, StartRound, vars, httpVars, watchVars, WorkerStep, TakeTask, ReadRecord,
       CheckImported, CheckIncremental, AddIncremental, UpdateGraph, UpdateData, SetOffSet, TaskDone
  <2>2. /\ httpPc' \in BeforeAdd \cup {"add"} => httpPc \in BeforeAdd \cup {"add"}
        /\ httpPc' = "submit" => httpPc = "submit"
    BY <1>2 DEF ResetFiles, ResetGraphs, ResetIncremental, AddParseTask, AddFile, ImportDone,
       GetIncremental, StartRound, vars, httpVars, WorkerStep, TakeTask, ReadRecord,
       CheckImported, CheckIncremental, AddIncremental, UpdateGraph, UpdateData, SetOffSet, TaskDone
  <2> QED
    BY <2>1, <2>2, ProgressFrame DEF ProgressInv
<1>3. ASSUME ResetParse PROVE ProgressInv'
  <2>1. /\ \A i \in Projects : parseStateMap'[i] = NoState
        /\ httpPc' = "import" /\ UNCHANGED project /\ project \in Projects
    BY <1>3 DEF ResetParse, TypeInv
  <2>2. \A i \in Projects : ~parseStateMap'[i].known /\ parseStateMap'[i].files = {}
    BY <2>1 DEF NoState
  <2>3. AheadOfOffSet'
    BY AheadNext DEF ProgressInv
  <2> QED
    BY <2>1, <2>2, <2>3, FS_EmptySet DEF ProgressInv
<1>4. ASSUME NEW i \in Projects, GetParseState(i) PROVE ProgressInv'
  <2>1. /\ parseStateMap' = [parseStateMap EXCEPT ![i] = NoState]
        /\ parseStateMap \in [Projects -> ParseStates]
        /\ httpPc = "idle" /\ UNCHANGED <<httpPc, project>>
    BY <1>4 DEF GetParseState, httpVars, TypeInv, TypeOK
  <2>2. /\ ~parseStateMap'[i].known /\ parseStateMap'[i].files = {}
        /\ \A j \in Projects : j # i => parseStateMap'[j] = parseStateMap[j]
    BY <2>1 DEF NoState
  <2>3. IsFiniteSet(parseStateMap'[i].files)
    BY <2>2, FS_EmptySet
  <2> QED
    BY <2>1, <2>2, <2>3, ProgressOne
<1> QED
  BY <1>1, <1>2, <1>3, <1>4, OpenProgress, SubmitProgress, WatchProgress DEF Next, ImportStep

(* The percentage that GetParseState reports of a project with something   *)
(* to parse never goes back, whatever the workers and parseWatcher do: as  *)
(* long as the quotient fits the uint32_t it is converted to before it is  *)
(* capped, which a dataSize_ that std::accumulate has cut down may end.    *)
THEOREM PercentGrows == Spec => PercentNeverFalls
<1> DEFINE Falls(i) ==
      parseStateMap[i].known /\ parseStateMap'[i].known /\ PercentFits(i)'
        => parseStateMap'[i].percent >= parseStateMap[i].percent
<1>1. ASSUME TypeInv, TypeInv', PlaceInv, FinishInv, ProgressInv, [Next]_vars,
             NEW i \in Projects, parseStateMap[i].known, parseStateMap'[i].known,
             PercentFits(i)'
      PROVE  parseStateMap'[i].percent >= parseStateMap[i].percent
  <2>1. parseStateMap \in [Projects -> ParseStates] /\ parseStateMap[i].percent \in 0 .. 100
        /\ parseStateMap'[i].percent \in 0 .. 100
    BY <1>1 DEF TypeInv, TypeOK, ParseStates
  <2>2. CASE parseStateMap'[i] = parseStateMap[i]
    BY <2>1, <2>2
  <2>3. CASE Submit
    <3>1. project \in Projects
      BY <1>1, <2>3 DEF Submit, TypeInv
    <3>2. i # project => parseStateMap'[i] = parseStateMap[i]
      BY <2>1, <2>3, <3>1 DEF Submit
    <3> QED
      BY <1>1, <2>1, <2>2, <2>3, <3>2, SubmitProgress
  <2>4. CASE OpenProject
    <3>1. i # project => parseStateMap'[i] = parseStateMap[i]
      BY <2>1, <2>4 DEF OpenProject
    <3> QED
      BY <1>1, <2>2, <2>4, <3>1, OpenProgress
  <2>5. CASE ResetParse \/ \E j \in Projects : GetParseState(j)
    <3>1. parseStateMap'[i] = parseStateMap[i] \/ parseStateMap'[i] = NoState
      BY <2>1, <2>5 DEF ResetParse, GetParseState
    <3> QED
      BY <1>1, <2>2, <3>1 DEF NoState
  <2>6. ASSUME NEW j \in Projects, WatchProject(j)
        PROVE  parseStateMap'[i].percent >= parseStateMap[i].percent
    <3>1. CASE i = j
      BY <1>1, <2>1, <2>6, <3>1, WatchProgress DEF PercentFits
    <3>2. CASE i # j
      <4>1. parseStateMap'[i] = parseStateMap[i]
        BY <2>1, <2>6, <3>2 DEF WatchProject
      <4> QED
        BY <2>2, <4>1
    <3> QED
      BY <3>1, <3>2
  <2> QED
    BY <1>1, <2>2, <2>3, <2>4, <2>5, <2>6 DEF Next, ImportStep, ImportFile, ResetFiles, ResetGraphs,
       ResetIncremental, AddParseTask, AddFile, ImportDone, GetIncremental, StartRound, vars,
       watchVars, WorkerStep, TakeTask, ReadRecord, CheckImported, CheckIncremental,
       AddIncremental, UpdateGraph, UpdateData, SetOffSet, TaskDone
<1>2. TypeInv /\ TypeInv' /\ PlaceInv /\ FinishInv /\ ProgressInv /\ [Next]_vars
        => [\A i \in Projects : Falls(i)]_vars
  BY <1>1
<1> QED
  BY <1>2, TypeInit, TypeNext, PlaceInit, PlaceNext, FinishInit, FinishNext, ProgressInit,
     ProgressNext, PTL DEF Spec, PercentNeverFalls

=============================================================================
