---------------------------- MODULE ParsePipeline ----------------------------
(***************************************************************************)
(* The import pipeline of the Scalar plugin's server: the HTTP thread that *)
(* handles ImportFile, GetParseState and GetIncrementalTag, the workers of *)
(* the thread pool that parse files into the graphs, and parseWatcher, the *)
(* never-ending task that reports progress and keeps one worker of the     *)
(* pool for itself.                                                        *)
(*                                                                         *)
(* The HTTP server runs one handler at a time, so the handlers share one   *)
(* program counter (httpPc).  Everything a handler does between two lock   *)
(* acquisitions is one action; a File object, and the task that parses it, *)
(* is named <<path, project>>: an import creates at most one of each for a *)
(* path.                                                                   *)
(***************************************************************************)
EXTENDS Integers, Sequences, FiniteSets, SequencesExt

CONSTANTS
  Paths,            \* the files on disk
  Tags,             \* the names of the graphs
  Workers,          \* the pool's threads other than the one parseWatcher holds
  Content,          \* [Paths -> sequence of records]: what each file holds
  RecordSize,       \* the bytes of a record
  SizeAtImport,     \* [Paths -> Nat]: what file_size says, of files that may still be growing
  ImportLists,      \* the path lists a client may import, as GetImportFiles expands them
  CanReplace,       \* whether a client may import with append = false
  CanVanish,        \* whether a file may be gone when the worker opens it
  MaxTagCount,      \* FileParser::ReachLimit, maxTagCount
  MaxDataCount,     \* FileParser::ReachLimit, maxDataCount
  MaxIncremental,   \* ScalarVisuallyServer::GetIncremental, limits
  IntHalf,          \* 2^31: the C++ int ranges over -IntHalf .. IntHalf - 1
  MaxImports        \* bound: imports in one behaviour

Kinds == {"scalar", "skip", "corrupt", "throw"}

Record == [kind : Kinds, tag : Tags]

ASSUME ConstantsOK ==
  /\ Content \in [Paths -> Seq(Record)]
  /\ RecordSize \in Nat \ {0}
  /\ SizeAtImport \in [Paths -> Nat]
  /\ ImportLists \subseteq Seq(Paths)
  /\ CanReplace \in BOOLEAN
  /\ CanVanish \in BOOLEAN
  /\ MaxTagCount \in Nat
  /\ MaxDataCount \in Nat
  /\ MaxIncremental \in Nat
  /\ IntHalf \in Nat \ {0}
  /\ MaxImports \in Nat

Projects == 1..MaxImports
Objects  == Paths \X Projects

VARIABLES
  fileInfoMap,      \* FileInfoManager: path -> project of its File object, 0 if there is none
  data,             \* File::data_: object -> tag -> indexes of the records appended
  offSet,           \* File::offSet_: object -> records consumed when its task ended
  graphs,           \* GraphManager::graphs_: tag -> Graph::dataFiles_ ({} if no such graph)
  incrementalTag,   \* pairs <<tag, path>> not yet fetched by GetIncrementalTag
  parseStateMap,    \* project -> its ParseState
  tasks,            \* ThreadExecutor::tasks_: the objects whose task is queued
  result,           \* the task's future: "none", "pending", or what it became ready with
  pc,               \* where each worker is
  job,              \* the object each worker's task parses
  pos,              \* FileParser: records of the file consumed by the worker's task
  sent,             \* index of the last record the task has taken out of dataCache_
  force,            \* whether the flush under way is the one after the last record
  httpPc, project, todo, fresh,  \* the ImportFile handler: where it is and its lists
  dataSize,         \* AddParseTask: the sizes of the files in fresh, added up
  watching,         \* the projects parseWatcher still visits in this round (it holds parseMutex_)
  delivered,        \* history: pairs GetIncrementalTag has returned since the last Reset
  told              \* history: projects GetParseState has found finished

fileVars   == <<fileInfoMap, data, offSet>>
graphVars  == <<graphs, incrementalTag, delivered>>
workerVars == <<pc, job, pos, sent, force>>
poolVars   == <<tasks, result>>
httpVars   == <<httpPc, project, todo, fresh, dataSize>>
watchVars  == <<parseStateMap, watching, told>>

vars == <<fileVars, graphVars, workerVars, poolVars, httpVars, watchVars>>

-----------------------------------------------------------------------------

(* A ParseState that is not in parseStateMap_, and one as AddParseTask     *)
(* leaves it before any task is submitted.                                 *)
NoState == [known |-> FALSE, dataSize |-> 0, percent |-> 0, finish |-> FALSE, files |-> {}]

OpenState(size) ==
  [known |-> TRUE, dataSize |-> size, percent |-> 0, finish |-> FALSE, files |-> {}]

NoJob == <<>>

Init ==
  /\ fileInfoMap = [p \in Paths |-> 0]
  /\ data = [o \in Objects |-> [t \in Tags |-> <<>>]]
  /\ offSet = [o \in Objects |-> 0]
  /\ graphs = [t \in Tags |-> {}]
  /\ incrementalTag = {}
  /\ parseStateMap = [i \in Projects |-> NoState]
  /\ tasks = <<>>
  /\ result = [o \in Objects |-> "none"]
  /\ pc = [w \in Workers |-> "idle"]
  /\ job = [w \in Workers |-> NoJob]
  /\ pos = [w \in Workers |-> 0]
  /\ sent = [w \in Workers |-> 0]
  /\ force = [w \in Workers |-> FALSE]
  /\ httpPc = "idle" /\ project = 0 /\ todo = <<>> /\ fresh = <<>> /\ dataSize = 0
  /\ watching = {}
  /\ delivered = {}
  /\ told = {}

-----------------------------------------------------------------------------

(* FileInfoManager::GetFileInfo finds a File by its path; every File is    *)
(* created with imported_ = true.                                          *)
IsFileImported(p) == fileInfoMap[p] # 0

Live(p) == <<p, fileInfoMap[p]>>

(* parseMutex_ is held by AddParseTask from its first line to its last and *)
(* by parseWatcher for a whole round.                                      *)
ParseMutexFree == httpPc \notin {"add", "submit"} /\ watching = {}

(* graphMutext_ is held by UpdateGraph while Graph::UpdateData looks the   *)
(* File up and appends to it.                                              *)
GraphMutexFree == \A w \in Workers : pc[w] # "append"

-----------------------------------------------------------------------------
(* The ImportFile handler.                                                 *)

(* run: the project gets the next number; append = false resets first.     *)
ImportFile(append, list) ==
  /\ httpPc = "idle"
  /\ project < MaxImports
  /\ append \/ CanReplace
  /\ httpPc' = IF append THEN "import" ELSE "resetFiles"
  /\ project' = project + 1
  /\ todo' = list
  /\ UNCHANGED <<fresh, dataSize, fileVars, graphVars, workerVars, poolVars, watchVars>>

(* Reset, one step per member it clears.  The pool's queue and the running *)
(* tasks are left alone, and graphs_ is cleared without graphMutext_.      *)
ResetFiles ==
  /\ httpPc = "resetFiles"
  /\ fileInfoMap' = [p \in Paths |-> 0]
  /\ httpPc' = "resetGraphs"
  /\ UNCHANGED <<project, todo, fresh, dataSize, data, offSet, graphVars, workerVars, poolVars,
                 watchVars>>

ResetGraphs ==
  /\ httpPc = "resetGraphs"
  /\ graphs' = [t \in Tags |-> {}]
  /\ httpPc' = "resetIncremental"
  /\ UNCHANGED <<project, todo, fresh, dataSize, incrementalTag, delivered, fileVars,
                 workerVars, poolVars, watchVars>>

ResetIncremental ==
  /\ httpPc = "resetIncremental"
  /\ incrementalTag' = {}
  /\ delivered' = {}
  /\ httpPc' = "resetParse"
  /\ UNCHANGED <<project, todo, fresh, dataSize, graphs, fileVars, workerVars, poolVars,
                 watchVars>>

ResetParse ==
  /\ httpPc = "resetParse"
  /\ ParseMutexFree
  /\ parseStateMap' = [i \in Projects |-> NoState]
  /\ httpPc' = "import"
  /\ UNCHANGED <<project, todo, fresh, dataSize, watching, told, fileVars, graphVars,
                 workerVars, poolVars>>

(* AddParseTask: the files that are not imported yet get a File object...  *)
AddParseTask ==
  /\ httpPc = "import"
  /\ ParseMutexFree
  /\ httpPc' = "add"
  /\ fresh' = <<>>
  /\ dataSize' = 0
  /\ UNCHANGED <<project, todo, fileVars, graphVars, workerVars, poolVars, watchVars>>

AlwaysAdded(p) == TRUE   \* mutant: imported files are not skipped

ToBeAdded(p) == ~IsFileImported(p)

(* ... and their sizes are added up by std::accumulate, which the 0 it     *)
(* starts from makes an int while file_size is a uint64_t.  (The code adds *)
(* the sizes after the last file, still under parseMutex_.)                *)
ToInt(x) == ((x + IntHalf) % (2 * IntHalf)) - IntHalf

ToUint64(x) == x % (4 * IntHalf * IntHalf)

AddFile ==
  /\ httpPc = "add"
  /\ todo # <<>>
  /\ todo' = Tail(todo)
  /\ LET p == Head(todo)
     IN IF ToBeAdded(p)
        THEN /\ fresh' = Append(fresh, p)
             /\ dataSize' = ToUint64(ToInt(dataSize) + SizeAtImport[p])
             /\ fileInfoMap' = [fileInfoMap EXCEPT ![p] = project]
        ELSE UNCHANGED <<fresh, dataSize, fileInfoMap>>
  /\ UNCHANGED <<httpPc, project, data, offSet, graphVars, workerVars, poolVars, watchVars>>

OpenProject ==
  /\ httpPc = "add"
  /\ todo = <<>>
  /\ parseStateMap' = [parseStateMap EXCEPT ![project] = OpenState(dataSize)]
  /\ httpPc' = "submit"
  /\ dataSize' = 0
  /\ UNCHANGED <<project, todo, fresh, watching, told, fileVars, graphVars, workerVars,
                 poolVars>>

(* ... and one task per new file is submitted; a worker may take the first *)
(* before the second is queued.                                            *)
Submit ==
  /\ httpPc = "submit"
  /\ fresh # <<>>
  /\ LET o == <<Head(fresh), project>>
     IN /\ tasks' = Append(tasks, o)
        /\ result' = [result EXCEPT ![o] = "pending"]
        /\ parseStateMap' = [parseStateMap EXCEPT ![project].files = @ \cup {Head(fresh)}]
  /\ fresh' = Tail(fresh)
  /\ UNCHANGED <<httpPc, project, todo, dataSize, watching, told, fileVars, graphVars,
                 workerVars>>

ImportDone ==
  /\ httpPc = "submit"
  /\ fresh = <<>>
  /\ httpPc' = "idle"
  /\ UNCHANGED <<project, todo, fresh, dataSize, fileVars, graphVars, workerVars, poolVars,
                 watchVars>>

-----------------------------------------------------------------------------
(* The other two handlers the client polls.                                *)

(* GetProjectParseStatus.  A project that is not in the map is reported as *)
(* finished; a finished one leaves the map with the report.  (A poll of an *)
(* unfinished project changes nothing.)                                    *)
ReportsFinished(i) == ~parseStateMap[i].known \/ parseStateMap[i].finish

GetParseState(i) ==
  /\ httpPc = "idle"
  /\ ParseMutexFree
  /\ i <= project
  /\ ReportsFinished(i)
  /\ parseStateMap' = [parseStateMap EXCEPT ![i] = NoState]
  /\ told' = told \cup {i}
  /\ UNCHANGED <<watching, fileVars, graphVars, workerVars, poolVars, httpVars>>

(* GetIncremental hands over whole tags, in the order of a hash map, until *)
(* more than MaxIncremental files are collected.                           *)
GetIncremental ==
  /\ httpPc = "idle"
  /\ \E T \in SUBSET {pair[1] : pair \in incrementalTag} :
       LET taken(S) == {pair \in incrementalTag : pair[1] \in S}
       IN /\ T # {}
          /\ \/ taken(T) = incrementalTag
             \/ Cardinality(taken(T)) > MaxIncremental
          /\ \E t \in T : Cardinality(taken(T \ {t})) <= MaxIncremental
          /\ incrementalTag' = incrementalTag \ taken(T)
          /\ delivered' = delivered \cup taken(T)
  /\ UNCHANGED <<graphs, fileVars, workerVars, poolVars, httpVars, watchVars>>

-----------------------------------------------------------------------------
(* The workers.  A task is FileParser::ParserData on one file.             *)

RecordsOf(o) == Content[o[1]]

Kind(o, k) == RecordsOf(o)[k].kind
Tag(o, k)  == RecordsOf(o)[k].tag

(* dataCache_: the records read and not yet taken out.                     *)
Cached(o, from, to) == {k \in from + 1 .. to : Kind(o, k) = "scalar"}

ReachLimit(o, from, to) ==
  \/ Cardinality({Tag(o, k) : k \in Cached(o, from, to)}) > MaxTagCount
  \/ Cardinality(Cached(o, from, to)) > MaxDataCount

(* True for a task that has put no scalar into the cache: the value        *)
(* ParserData returns.                                                     *)
SawNothing(o, n) == \A k \in 1..n : Kind(o, k) # "scalar"

(* What a task does once it has flushed as far as from.                    *)
\* mutant: what is cached when the file ends is dropped
ResumeNoForce(o, from, to, last) ==
  IF last THEN "setOffSet" ELSE IF Cached(o, from, to) # {} THEN "check" ELSE "read"

Resume(o, from, to, last) ==
  IF Cached(o, from, to) # {} THEN "check" ELSE IF last THEN "setOffSet" ELSE "read"

(* The locals of a worker that has no task.                                *)
Release(w) ==
  /\ job' = [job EXCEPT ![w] = NoJob]
  /\ pos' = [pos EXCEPT ![w] = 0]
  /\ sent' = [sent EXCEPT ![w] = 0]
  /\ force' = [force EXCEPT ![w] = FALSE]
  /\ pc' = [pc EXCEPT ![w] = "idle"]

NotPopped(queue) == queue   \* mutant: front() without pop()

PopFront(queue) == Tail(queue)

(* A worker takes the oldest task; the file may be gone when it opens it,  *)
(* and then the task is over.                                              *)
TakeTask(w) ==
  /\ pc[w] = "idle"
  /\ tasks # <<>>
  /\ tasks' = PopFront(tasks)
  /\ job' = [job EXCEPT ![w] = Head(tasks)]
  /\ pos' = [pos EXCEPT ![w] = offSet[Head(tasks)]]
  /\ sent' = [sent EXCEPT ![w] = offSet[Head(tasks)]]
  /\ force' = [force EXCEPT ![w] = FALSE]
  /\ \/ pc' = [pc EXCEPT ![w] = "read"]
     \/ CanVanish /\ pc' = [pc EXCEPT ![w] = "setOffSet"]
  /\ UNCHANGED <<result, fileVars, graphVars, httpVars, watchVars>>

(* One turn of ParserData's loop.  A record the parser rejects ends the    *)
(* loop, as the end of the file does; what has been cached is then flushed *)
(* by the last UpdateData.  An exception leaves ParserData at once.        *)
NextKind(o, n) == IF n < Len(RecordsOf(o)) THEN Kind(o, n + 1) ELSE "end"

SwallowedException == "pending"   \* mutant: the exception reaches no future

ExceptionResult == "thrown"   \* std::packaged_task stores what the task throws

ReadRecord(w) ==
  /\ pc[w] = "read"
  /\ LET o    == job[w]
         next == pos[w] + 1
     IN \/ /\ NextKind(o, pos[w]) \in {"end", "corrupt"}
           /\ force' = [force EXCEPT ![w] = TRUE]
           /\ pc' = [pc EXCEPT ![w] = Resume(o, sent[w], pos[w], TRUE)]
           /\ UNCHANGED <<job, pos, sent, result>>
        \/ /\ NextKind(o, pos[w]) = "scalar"
           /\ pos' = [pos EXCEPT ![w] = next]
           /\ pc' = [pc EXCEPT ![w] = IF ReachLimit(o, sent[w], next) THEN "check" ELSE "read"]
           /\ UNCHANGED <<job, sent, force, result>>
        \/ /\ NextKind(o, pos[w]) = "skip"
           /\ pos' = [pos EXCEPT ![w] = next]
           /\ UNCHANGED <<pc, job, sent, force, result>>
        \/ /\ NextKind(o, pos[w]) = "throw"
           /\ result' = [result EXCEPT ![o] = ExceptionResult]
           /\ Release(w)
  /\ UNCHANGED <<tasks, fileVars, graphVars, httpVars, watchVars>>

(* UpdateDataToGraph, one element of the cache at a time: first whether    *)
(* the file is still imported, ...                                         *)
CacheFront(w) == {k \in Cached(job[w], sent[w], pos[w]) :
                    \A l \in Cached(job[w], sent[w], pos[w]) : k <= l}

CheckImported(w) ==
  /\ pc[w] = "check"
  /\ pc' = [pc EXCEPT ![w] = IF IsFileImported(job[w][1]) THEN "incremental" ELSE "setOffSet"]
  /\ UNCHANGED <<job, pos, sent, force, poolVars, fileVars, graphVars, httpVars, watchVars>>

(* ... then whether its graph or its place in the graph is new, ...        *)
IsNewTag(p, t) == graphs[t] = {}   \* mutant: a new file of a known graph is not new

IsIncremental(p, t) == p \notin graphs[t]

CheckIncremental(w) ==
  /\ pc[w] = "incremental"
  /\ GraphMutexFree
  /\ \E k \in CacheFront(w) :
       pc' = [pc EXCEPT ![w] = IF IsIncremental(job[w][1], Tag(job[w], k))
                               THEN "announce" ELSE "graph"]
  /\ UNCHANGED <<job, pos, sent, force, poolVars, fileVars, graphVars, httpVars, watchVars>>

AddIncremental(w) ==
  /\ pc[w] = "announce"
  /\ \E k \in CacheFront(w) :
       incrementalTag' = incrementalTag \cup {<<Tag(job[w], k), job[w][1]>>}
  /\ pc' = [pc EXCEPT ![w] = "graph"]
  /\ UNCHANGED <<job, pos, sent, force, graphs, delivered, poolVars, fileVars, httpVars,
                 watchVars>>

(* ... then UpdateGraph: the graph is created if need be and lists the     *)
(* file, ...                                                               *)
CreatorOnly(files, p) == IF files = {} THEN {p} ELSE files   \* mutant: later files are not listed

WithFile(files, p) == files \cup {p}

UpdateGraph(w) ==
  /\ pc[w] = "graph"
  /\ GraphMutexFree
  /\ \E k \in CacheFront(w) :
       graphs' = [graphs EXCEPT ![Tag(job[w], k)] = WithFile(@, job[w][1])]
  /\ pc' = [pc EXCEPT ![w] = "append"]
  /\ UNCHANGED <<job, pos, sent, force, incrementalTag, delivered, poolVars, fileVars,
                 httpVars, watchVars>>

(* ... and the points go to whichever File the path names by then.         *)
NothingPopped(w, k) == sent[w]   \* mutant: dataCache_.pop() is forgotten

PopCache(w, k) == k

UpdateData(w) ==
  /\ pc[w] = "append"
  /\ \E k \in CacheFront(w) :
       /\ LET p == job[w][1]
          IN data' = IF IsFileImported(p)
                     THEN [data EXCEPT ![Live(p)][Tag(job[w], k)] = Append(@, k)]
                     ELSE data
       /\ sent' = [sent EXCEPT ![w] = PopCache(w, k)]
       /\ pc' = [pc EXCEPT ![w] = Resume(job[w], PopCache(w, k), pos[w], force[w])]
  /\ UNCHANGED <<job, pos, force, fileInfoMap, offSet, poolVars, graphVars, httpVars,
                 watchVars>>

(* The end of the task: the offset is stored, then the future is ready.    *)
SetOffSet(w) ==
  /\ pc[w] = "setOffSet"
  /\ offSet' = [offSet EXCEPT ![job[w]] = pos[w]]
  /\ pc' = [pc EXCEPT ![w] = "return"]
  /\ UNCHANGED <<job, pos, sent, force, fileInfoMap, data, poolVars, graphVars, httpVars,
                 watchVars>>

TaskDone(w) ==
  /\ pc[w] = "return"
  /\ result' = [result EXCEPT ![job[w]] = IF SawNothing(job[w], pos[w]) THEN "empty" ELSE "data"]
  /\ Release(w)
  /\ UNCHANGED <<tasks, fileVars, graphVars, httpVars, watchVars>>

-----------------------------------------------------------------------------
(* parseWatcher: a round visits every project in the map under parseMutex_.*)

ReadyIfParsed(o) == result[o] \in {"empty", "data"}   \* mutant: not once it has thrown

Ready(o) == result[o] \in {"empty", "data", "thrown"}

TaskObjects(i) == {<<p, i>> : p \in parseStateMap[i].files}

StartRound ==
  /\ ParseMutexFree
  /\ watching' = {i \in Projects : parseStateMap[i].known}
  /\ UNCHANGED <<parseStateMap, told, fileVars, graphVars, workerVars, poolVars, httpVars>>

(* parsedDataSize / dataSize_ * 100, rounded down and converted to a       *)
(* uint32_t before it is capped at 100.  The conversion is undefined for a *)
(* quotient of 2^32 or more: x86-64 builds keep its low bits, saturating   *)
(* ones give the largest uint32_t.  With dataSize_ = 0 the quotient is a   *)
(* NaN or an infinity, which become 0, or the cap.                         *)
DoneNotCounted(i) == {p \in parseStateMap[i].files : ~Ready(<<p, i>>)}   \* mutant

FilesCounted(i) == parseStateMap[i].files

ParsedRecords(i) == MapThenSumSet(LAMBDA p : offSet[<<p, i>>], FilesCounted(i))

ParsedSize(i) == RecordSize * ParsedRecords(i)

UInt32 == 0 .. 2 * IntHalf - 1

ToUint32(x) ==
  {u \in UInt32 : IF x \in UInt32 THEN u = x
                  ELSE u \in {x % (2 * IntHalf), 2 * IntHalf - 1}}

Uncapped(x) == x   \* mutant: no std::min

Capped(x) == IF x < 100 THEN x ELSE 100

Percents(i) ==
  IF parseStateMap[i].dataSize = 0 THEN {0, 100}
  ELSE {Capped(u) : u \in ToUint32((ParsedSize(i) * 100) \div parseStateMap[i].dataSize)}

WatchProject(i) ==
  /\ i \in watching
  /\ watching' = watching \ {i}
  /\ \/ /\ parseStateMap[i].finish
        /\ UNCHANGED parseStateMap
     \/ /\ ~parseStateMap[i].finish
        /\ \A o \in TaskObjects(i) : Ready(o)
        /\ parseStateMap' = [parseStateMap EXCEPT ![i].finish = TRUE, ![i].percent = 100]
     \/ /\ ~parseStateMap[i].finish
        /\ \E o \in TaskObjects(i) : ~Ready(o)
        /\ \E percent \in Percents(i) :
             parseStateMap' = [parseStateMap EXCEPT ![i].percent = percent]
  /\ UNCHANGED <<told, fileVars, graphVars, workerVars, poolVars, httpVars>>

-----------------------------------------------------------------------------

ImportStep ==
  \/ ResetFiles \/ ResetGraphs \/ ResetIncremental \/ ResetParse
  \/ AddParseTask \/ AddFile \/ OpenProject \/ Submit \/ ImportDone

WorkerStep(w) ==
  \/ TakeTask(w) \/ ReadRecord(w)
  \/ CheckImported(w) \/ CheckIncremental(w) \/ AddIncremental(w)
  \/ UpdateGraph(w) \/ UpdateData(w)
  \/ SetOffSet(w) \/ TaskDone(w)

Next ==
  \/ \E append \in BOOLEAN, list \in ImportLists : ImportFile(append, list)
  \/ ImportStep
  \/ \E i \in Projects : GetParseState(i)
  \/ GetIncremental
  \/ \E w \in Workers : WorkerStep(w)
  \/ StartRound
  \/ \E i \in Projects : WatchProject(i)

Spec == Init /\ [][Next]_vars

(* The scheduler runs every thread: a handler and a parse task run to      *)
(* their end.  parseMutex_ is contended, but parseWatcher sleeps 500 ms    *)
(* between two rounds, so a handler that waits for it does get it.         *)
Fairness ==
  /\ SF_vars(ImportStep)
  /\ \A w \in Workers : WF_vars(WorkerStep(w))
  /\ WF_vars(\E i \in Projects : WatchProject(i))
  /\ SF_vars(StartRound)

FairSpec == Spec /\ Fairness

-----------------------------------------------------------------------------
(* Properties.                                                             *)

HttpStates == {"idle", "resetFiles", "resetGraphs", "resetIncremental", "resetParse",
               "import", "add", "submit"}

WorkerStates == {"idle", "read", "check", "incremental", "announce", "graph", "append",
                 "setOffSet", "return"}

ParseStates == [known : BOOLEAN, dataSize : Nat, percent : 0..100, finish : BOOLEAN,
                files : SUBSET Paths]

(* Types; the percentage that is reported stays within 0..100.             *)
TypeOK ==
  /\ fileInfoMap \in [Paths -> {0} \cup Projects]
  /\ data \in [Objects -> [Tags -> Seq(Nat)]]
  /\ offSet \in [Objects -> Nat]
  /\ graphs \in [Tags -> SUBSET Paths]
  /\ incrementalTag \subseteq Tags \X Paths
  /\ parseStateMap \in [Projects -> ParseStates]
  /\ tasks \in Seq(Objects)
  /\ result \in [Objects -> {"none", "pending", "empty", "data", "thrown"}]
  /\ pc \in [Workers -> WorkerStates]
  /\ job \in [Workers -> Objects \cup {NoJob}]
  /\ pos \in [Workers -> Nat]
  /\ sent \in [Workers -> Nat]
  /\ force \in [Workers -> BOOLEAN]
  /\ httpPc \in HttpStates
  /\ project \in 0..MaxImports
  /\ todo \in Seq(Paths)
  /\ fresh \in Seq(Paths)
  /\ dataSize \in Nat
  /\ watching \subseteq Projects
  /\ delivered \subseteq Tags \X Paths
  /\ told \subseteq Projects

(* A submitted task is in exactly one place until its future is ready:     *)
(* once in the queue or with one worker (ThreadExecutor's pop under        *)
(* queueMutex_), even when the import that submitted it has been replaced. *)
Places(o) == {<<"queue", n>> : n \in {m \in DOMAIN tasks : tasks[m] = o}}
             \cup {<<"worker", w>> : w \in {v \in Workers : job[v] = o}}

TaskIsInOnePlace ==
  \A o \in Objects :
    IF result[o] = "pending" THEN \E here \in Places(o) : Places(o) = {here}
                             ELSE Places(o) = {}

(* What a task that ran to its end should have put into its File: every    *)
(* scalar up to the first record the parser rejects.                       *)
Readable(o) == {k \in DOMAIN RecordsOf(o) :
                  Kind(o, k) = "scalar" /\ \A l \in 1..k : Kind(o, l) # "corrupt"}

Loaded(o) == \A k \in Readable(o) : \E n \in DOMAIN data[o][Tag(o, k)] : data[o][Tag(o, k)][n] = k

(* When GetParseState has told the client that a project is finished, every *)
(* file the project added (and no later import has replaced) has been       *)
(* parsed, and its File holds all its readable points unless the parser     *)
(* threw or the file had gone.  The watcher, the workers' batches, the last *)
(* flush and the report that forgets the project all have to agree.         *)
FinishedMeansLoaded ==
  \A i \in told, p \in Paths :
    fileInfoMap[p] = i =>
      /\ Ready(<<p, i>>)
      /\ result[<<p, i>>] = "data" => Loaded(<<p, i>>)

(* File::GetBoundary searches data_ by bisection: "data is in ascending     *)
(* order", for every File a client can reach.                               *)
DataAscending ==
  \A p \in Paths :
    IsFileImported(p) =>
      \A t \in Tags : \A m, n \in DOMAIN data[Live(p)][t] :
        m < n => data[Live(p)][t][m] <= data[Live(p)][t][n]

(* No point of a file is stored twice in the File a client can reach.       *)
DataOnce ==
  \A p \in Paths :
    IsFileImported(p) =>
      \A t \in Tags : \A m, n \in DOMAIN data[Live(p)][t] :
        data[Live(p)][t][m] = data[Live(p)][t][n] => m = n

(* A client that builds its list of graphs from GetIncrementalTag misses    *)
(* none: whatever a graph lists has been handed over or waits to be.        *)
GraphsAnnounced ==
  \A t \in Tags : \A p \in graphs[t] : <<t, p>> \in incrementalTag \cup delivered

(* Points that are in a reachable File are in its graph too, so that        *)
(* GetScalarData, which asks the graph for its files, can reach them.       *)
DataReachable ==
  \A p \in Paths, t \in Tags :
    IsFileImported(p) /\ data[Live(p)][t] # <<>> => p \in graphs[t]

(* The percentage a client sees of a project never goes back, whatever the  *)
(* workers and the watcher do in between and also when the sum of the sizes *)
(* has wrapped: as long as the quotient has a uint32_t.  (Where it has none *)
(* the percentage may fall, and so it may without anything to parse.)       *)
PercentFits(i) ==
  /\ parseStateMap[i].dataSize > 0
  /\ ParsedSize(i) * 100 < 2 * IntHalf * parseStateMap[i].dataSize

PercentNeverFalls ==
  [][\A i \in Projects :
       parseStateMap[i].known /\ parseStateMap'[i].known /\ PercentFits(i)'
         => parseStateMap'[i].percent >= parseStateMap[i].percent]_vars

(* Every project an import opens is finished at last, or forgotten by a     *)
(* Reset: no task waits in the queue forever and parseWatcher sees the end. *)
ProjectsFinish ==
  \A i \in Projects :
    parseStateMap[i].known ~> (parseStateMap[i].finish \/ ~parseStateMap[i].known)

(* Every submitted task becomes ready.                                      *)
TasksEnd == \A o \in Objects : result[o] = "pending" ~> Ready(o)
=============================================================================
