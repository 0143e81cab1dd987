# A verification project for MindStudio Board

MindStudio Board is a plugin host with an HTTP interface. Two plugins hold its own logic: *Scalar*,
which imports training logs and serves their curves (C++ server, React front end), and *ModelVis*,
which lays out model graphs (Rust). This directory holds TLA+ models of that logic, their TLC
configurations and machine-checked proofs.

## The system

| component | state | operations | hard behaviour |
|---|---|---|---|
| import pipeline (`plugin/ScalarVisuallyServer`, `parser/FileParser`, `GraphManager`, `FileInfoManager`) | files by path, graphs by tag, announced tags, parse states by project | ImportFile, Reset, parse tasks, parseWatcher, GetParseState, GetIncrementalTag | handlers, workers and the watcher interleave under four mutexes; Reset leaves tasks running; files vanish, parsers reject or throw |
| thread pool (`Util/ThreadPoolUtil.h`) | queue, stop flag, futures | Submit, worker loop, Clear, destructor | lost wakeups, shutdown with queued or endless tasks |
| file data and smoothing (`FileManager/File`, `GraphLine/Smoother`) | points, smoothed points, one smoother per tag | UpdateData, UpdateSmoothingParam, GetData | three mutexes taken in different orders, views read after unlocking |
| graph lines (`GraphLine`, `LineOp`, `DataView`, `VirtualFile`) | none between requests | GetData, sampling, token steps, concatenation | off-by-one at boundaries, overlapping files |
| virtual files, token settings (`FileMergeHandler`, `TokenSet`) | merged files, batch size and sequence length | merge, unmerge, set | tables written without the mutexes the tasks hold, stale copies of tags |
| file watcher (`FileWatcherLinuxImpl`) | watched directories | add, remove, inotify events | a thread of its own; unused in the shipped build |
| front end (`Scalar/front`) | points of each chart, what is on show, poll timers | import, poll, smooth, check, remove | answers that arrive after their poll was cancelled, failed or aborted requests |
| ModelVis (`rust/layout`, `rust/subgraph`, `rust/parser`, `rust/ffi`) | graph being laid out | parse, mine, rank, order, position | no concurrency, but hash tables whose order differs from run to run |
| host (`plugin_core`, `tools/httpServer`) | plugin registry | dispatch | one event loop: one handler at a time |

The HTTP event loop runs one handler after another; the pool's workers run the parse tasks that
ImportFile submits, and one of them runs `parseWatcher` forever. They share `FileInfoManager`,
`GraphManager`, the `File` objects, `incrementalTag_` and `parseStateMap_`. The vendored HTTP
library, the generated protobuf code, prebuilt libraries and build files are left aside.

`PROJECT.json` lists the components with what is and is not modelled, the hazards at their source
lines with the properties that cover them, and which definition translates which lines.

## The modules

### ParsePipeline

The import pipeline. One program counter, `httpPc`, stands for the event loop; each worker has its
own. What a handler or a task does between two lock acquisitions is one action; `graphMutext_` and
`parseMutex_` are state predicates (`GraphMutexFree`, `ParseMutexFree`) over the program counters
that hold them. A `File` object, and the task that parses it, is `<<path, project>>`: an import
creates at most one of each per path.

| code | model |
|---|---|
| `ImportFile::run`, `Reset` | `ImportFile`, then `ResetFiles`, `ResetGraphs`, `ResetIncremental`, `ResetParse` |
| `AddParseTask` | `AddParseTask`, `AddFile`, `OpenProject`, `Submit`, `ImportDone` |
| worker loop | `TakeTask` |
| `FileParser::ParserData`, `UpdateData`, `ReachLimit` | `ReadRecord` |
| `UpdateDataToGraph` | `CheckImported`, `CheckIncremental`, `AddIncremental`, `UpdateGraph`, `UpdateData` |
| end of the task's lambda | `SetOffSet`, `TaskDone` |
| `parseWatcher` | `StartRound`, `WatchProject` |
| `GetProjectParseStatus`, `GetIncremental` | `GetParseState`, `GetIncremental` |

A file is a sequence of records, each a scalar of a tag, one that is skipped, one the parser rejects
or one that makes it throw; an appended point is the index of its record. The sizes are added in a
C++ `int` with `2 * IntHalf` values, and the percentage is converted to a `uint32_t` (`ToUint32`, as
many values) before it is capped (`Capped`), as the code does. A quotient that does not fit, and one
by 0, is converted with undefined behaviour; the results real builds give are allowed. `delivered` and `told` are history variables: what the client
has been given. `fileWatcher_->Reset` and `importedPaths_` (a display path) do not matter here.

### FileData

One `File` under one tag. The worker appends and smooths point by point while the HTTP thread
serves a normal and a smoothing line and may change the smoother. All three mutexes are variables,
since the order they are taken in is the point; each lock, append, sample and read is an action. A
smoothed point is the index of its original: which points are smoothed, how often and in which
order is modelled, the filtered values are not. A vector's `capacity` doubles when it is full, as
the usual standard libraries do; a view remembers the capacity it was taken at. Of an empty vector
there is no view, as in the code.

### GraphLine

The computation of one line from up to `MaxFiles` files: `GetIntersectionRange`, `GetBoundary`, the
sorting of a virtual file's views, sampling, the conversion to tokens and `AddLineData`.
`std::lower_bound` and `std::upper_bound` are relations (the positions that divide the data as the
standard says); `GatherElement` is the closed form of its loop, and `SampleIsGathered` compares it
with the loop, `Gathered`. Coefficients are fractions of `CofUnit`; the rounding of `long double` is not modelled.

### ThreadExecutor and TaskQueue

The pool with its condition variable, and the abstract queue it implements: a task is started at
most once and in order, and is over when it has run or has been dropped. `Queue == INSTANCE
TaskQueue WITH ...` is the refinement mapping: the tasks workers hold are running, those whose
future is ready or broken are over.

### VirtualFiles

FileMerge and TokenSet against the parse tasks. Handlers run one at a time; a task runs beside them.
Neither handler takes `graphMutext_`, and `FileInfoManager::AddFile(shared_ptr)` takes no mutex, so
both may write a table while a task writes it, or look a graph up while a task inserts one. That is a
data race; the model lets it lose one of the two insertions in a graph's table, hide a File from the
task that looks it up, or a graph from the handler (`Overlook`). Corruption beyond that (a crash in
the table, or in `GetContainsTag`, which reads a set of tags while a task inserts into it) is outside
the model. `torn`, `overlooked`, `again`, `missed` and `asked` are history.

| code | model |
|---|---|
| `AddParseTask`, `BeforeParse` | `Import`, `BeforeParse` |
| `UpdateGraph`, `GraphManager::UpdateGraphData`, `Graph::UpdateData`, `File::UpdateData` | `UpdateGraph`, `CreateGraph`, `ListFile`, `UpdateData` |
| `FileMergeHandler::run`, `FileMerge`, `AddSubFiles` | `Merge`, `AddSubFile` |
| `AddVirtualFile`, `FileInfoManager::AddFile`, `GetGraph` | `StartRegister`, `Register`, `ListVirtualFile`, `Overlook` |
| `FileUnMerge`, `DelVirtualFile` | `UnMerge`, `UnlistVirtualFile` |
| `TokenSet::run`, `SetFileToken` | `TokenSet`, `SetFileToken`, `Answer` |

### LayoutRank and LayoutDraw

The passes of `layout` in `rust/layout/src/lib.rs`, in their order. `LayoutDraw` extends `LayoutRank`
and takes its steps as `RankStep`. Where the code iterates an `ahash` table the model takes any
element; the loops with a stack (`dfs_fas`, `longest_path`, `init_order`, `feasible_tree`) are one
action per turn, the other passes one action each.

| code | model |
|---|---|
| `layout_model` | `Init`, `DrawInit`, the name lookup in `Output` |
| `make_space_for_edge_labels`, `remove_self_edges` | `Prepare` |
| `dfs_fas`, `make_acyclic` | `StartWalk`, `Walk`, `EndFas`, `Flip` |
| `nesting_run`, `as_non_compound` | `Nest` |
| `longest_path` | `TakeStart`, `TakeChild`, `RankTop` |
| `feasible_tree`, `tight_tree` | `StartTree`, `GrowTree`, `ShiftTree` |
| `nesting_cleanup`, `normalize_ranks` | `CleanUp` |
| `normalize` | `Normalize` |
| `order` (`init_order`, `assign_order`) | `StartOrder`, `PlaceNode`, `AssignOrder` |
| `insert_self_edges`, `position_self_edges` | `InsertSelfEdges`, `PositionSelfEdges` |
| `denormalize` | `Denormalize` |
| `assign_node_intersects`, `reverse_points_for_reversed_edges`, `restore_cycles` | `Output` |

Passes that do nothing on a flat graph (`parent_dummy_chains`, `assign_rank_min_max`,
`remove_edge_proxies`) and on ranks without gaps (`remove_empty_ranks`) have no action. The point of
an edge is the rank of its layer; x coordinates are not modelled. The loop of `order` compares cross
counts of the same matrix, so it keeps the layering of `init_order`.

### Front

The scalar view's polls and store. JavaScript runs one callback up to its next `await`; what
interleaves is answers, timers, clicks and messages of the page around it. `poll` holds the
`PollRequest` objects that still have a request or a timer; `current` the one each
`getChartsDataPoll` variable refers to, which is the only one that sets a timer again; `upload` the
calls of `importFile` under way, which nothing keeps from being several.

Front end and server do not speak the same protocol (see below), so the model has both servers, and
`api` says which one answers: `declared`, the one the types of `api/lossApi.ts` describe, whose
answers may hold anything those types allow, and `shipped`, the handlers in `src/Scalar/server`, which
reject what `getChartsData` asks (`ParamValid`), answer an import without files (`AnswerHasFiles`) and
watch no folder (`Create`). The properties are checked and proved for either.

| code | model |
|---|---|
| `PollRequest.start`, `poll`, `clear` | `Asked`, `Settled`, `Timer`, `Cleared` |
| `getChartsData` and its AbortController | `GetChartsData`, `Aborted` |
| `request` (fails, is rejected, times out) | `RequestFails`, `Aborted` |
| `LossContainer.pollRequest`, `handleData` | `UpdataChartData`, `ChartsArrive` |
| `UpLoadFile.request` | `ImportFile`, `Uploaded`, `UploadThrows`, `UploadFails` |
| `PollGetNewFile` (effect, handleData, ok, cancel) | `ShowNewFiles`, `NewFilesArrive`, `HandleOk`, `OkDone`, `UploadFails`, `Cancel` |
| `LossShowInfo` | `AddFile`, `AddData`, `GraphList`, `ModifyCheck`, `ModifyIsTagPolymerize`, `ModifySmoothingConfig`, `ModifyShowTagList` |
| `FileListTagAggregation` | `AggregateChecks` |
| `remote/remove`, `remote/reset` in `App` | `Remove` |
| `CheckParamValid`, `SetResponse`, `QueryCreatedFile` (server) | `ParamValid`, `AnswerHasFiles`, `AnswerNewFiles` |

Points and files an answer brings are chosen when it arrives, which is when they first matter. The
charts can be clicked while an import is under way, which the loading state of the page prevents: the
model has these behaviours in addition.

## What the runs check

| run | instance | shows |
|---|---|---|
| `pipeline_append` | three files, two workers, two overlapping imports with a common file, batch limits of two tags and one point, one file empty when imported, files that vanish | the invariants below, and `PercentNeverFalls` |
| `pipeline_live` | two imports of the same two files, one empty when imported, one with a record on which the parser throws, with and without `append` | `TasksEnd`, `ProjectsFinish` under fairness, and `FinishedMeansLoaded` also across a Reset |
| `pipeline_reimport` | imports of two files with `append = false`, one of them empty when imported, the other with a record that is rejected | finding: `DataAscending` fails |
| `filedata` | five points, one of them a NaN, one smoothing window, three requests | no race on the vectors, smoothing is complete and ordered, nobody waits forever |
| `filedata_documented` | as `filedata`, two smoothing windows | findings: in one behaviour smoothed points repeat and a view outlives its vector |
| `threadpool` | three workers, one endless and three ordinary tasks | refinement of `TaskQueue`, no lost wakeup, shutdown |
| `lines` | up to three files, 11 shapes each, all boundaries in 0..3, coefficients 1/2 and 3/2 | every step of a line agrees with its reference definition |
| `virtual` | a log with two tags and a batch size, a file with one tag, virtual files without a name and with the path of that file, a token list that cannot be parsed and one that names the log and the other path | `FilesListed`, `StrayNames`, `TokenSettled` |
| `layout` | every DAG of four nodes up to names, every graph of three nodes with at most two self-edges | the properties of the layout below, and `LayoutEnds` under fairness |
| `layout_acyclic` | the DAGs | finding: `MakesAcyclic` fails |
| `layout_restored` | the graphs of three nodes | findings: in one layout a turned edge and a self-edge do not come back |
| `front` | either server, one chart, one smoothing setting, one new file, two slots each for requests for points, for requests for new files, and for imports | `AnswersFit`, `OneTimer`, `FolderIsWatched` |

The properties of the pipeline: `TaskIsInOnePlace` (a submitted task is queued once or with one
worker), `FinishedMeansLoaded` (a project reported finished has all its readable points stored),
`DataAscending` and `DataOnce` (a file's points are in order and stored once), `GraphsAnnounced` and
`DataReachable` (the client hears of every graph and file, and what is stored can be asked for).
The last four are stated for imports that append: they are what Reset breaks.

`DataReachable` and `GraphsAnnounced` say nothing of what a Reset clears meanwhile.
`PercentNeverFalls` is stated while the quotient fits the `uint32_t` it is converted to
(`PercentFits`), also for sums that have wrapped; where it does not fit the percentage may fall.

`ViewsMatchRange` says that a view holds the points between the boundaries, and on the token axis
none further outside than a step; `SampleIsDense` that less than a step of points is lost between two
that are drawn. Neither is what the comments promise (see below).

The properties of virtual files: `FilesListed` (a graph lists every file that has its tag, but for
tables two threads wrote at once and graphs the handler did not find), `StrayNames` (what a graph
lists without reason, and the only four ways to it: a name merged twice, a File a task missed, a
graph the handler missed, a torn table), `TokenSettled` (the client's last setting stands, unless the
log's own batch size comes after it; nothing is said of the sequence length of a text log).

The properties of the layout: `RanksFeasible` and `TreeIsTight` are what longest path and the tight
tree promise; `PanicMeansCycle` says exactly when ranking panics; `LayersExact` that the cut graph is
layered; `EdgesDrawn` that cutting long edges and joining them again parts no pair of nodes and loses
no point on the way; `NodesComeBack` that every node of the model comes out, and that the name lookup
fails only on the dummy of a self-edge. `EdgesDrawn` compares pairs, not directions: an edge that
`make_acyclic` turns round comes out turned, since `normalize_edge` (`normalize.rs:62`) gives every
edge a fresh label without the `reversed` mark, and of two opposite edges, which become one, only one
comes out. That, and that self-edges do not come out, is what `layout_restored` reports.

The properties of the front end: `AnswersFit` (a request for points under way asks from where the
store's points end, with the present setting: what `addData` adds fits), `OneTimer` (one timer of each
kind, that of the last poll), `FolderIsWatched` (a project's folder is polled, or the user is being
asked). The first and the last are stated while a project is there: `remote/remove` aborts no request,
and a file accepted in a dialogue that is still open may then be given an old answer.

`filedata_documented` and `layout_restored` check the disjunction of two promises: it is weaker than
either, so the state that violates it refutes both.

**Bounds.** Two imports are enough for an import to overlap, skip the files of, or replace another.
Two parsing workers suffice for two tasks to race for the graph map, and the limits of two tags and
one point make a batch end in the middle of a file as well as at its end. With `IntHalf = 64` and
records of 30 bytes the sizes of two files add up to 210, which the `int` of 128 values cannot hold,
and quotients exceed what the `uint32_t` of 128 values holds. In `filedata` the worker passes through an empty, an exactly full and a
growing vector; three requests set a smoother before, during and after the appends. In `lines`,
sampling steps reach 6 (twelve points in three files, `MaxDataCount = 2`), so a view is smaller
than, equal to, and a multiple of a step; three files overlap in all orders. In `virtual` two tasks
race for a graph with one another and with the handler, and one name is both a virtual file and a
path. In `layout` four nodes are the fewest in which `make_acyclic` breaks a graph without cycles,
long edges pass one another and a tree is shifted more than once; self-edges stand first, in the
middle and last in a layer. In `front` two slots of each kind (`ChartSlots`, `FileSlots`, `UploadSlots`)
let a request or an import in flight meet its successor, and one point of a chart (`MaxPoints`) tells
an answer that fits from one that does not. Charts share nothing but the request and the limit on
what is checked, so one chart stands for each of them. The list of tokens that `virtual` sends names the log and a path that is also
the name of a virtual file: before, while and after they are parsed, and passed over while the second
is virtual or not there.

**Fairness.** Threads are scheduled: weak fairness for each worker and for `WatchProject`. A handler
waiting for `parseMutex_` gets it because parseWatcher sleeps 500 ms between rounds, hence strong
fairness for `ImportStep` and `StartRound`. No fairness on anything a client does, on the
destructor, or on spurious wakeups. `TasksEnd` and `TasksTaken` presume a worker that parseWatcher
does not hold: on a machine with one core the pool has none, and no task ever starts. `LayoutEnds`
assumes that a sequential program takes its next step.

## What is proved

`tlapm` checks these for every value of the constants that meets the modules' assumptions.

* `ParsePipeline_proofs`
  * `TypeCorrect`: `Spec => []TypeOK`.
  * `TaskInOnePlace`: `Spec => []TaskIsInOnePlace`. The inductive invariant `PlaceInv` adds that an
    object is queued at most once (`QueueOnce`), held by at most one worker (`JobsOnce`), that what
    is pending is in one of the two, and that what is still in `fresh` has not been submitted.
  * `AppendAnnouncesGraphs`, `AppendKeepsDataReachable`: under `~CanReplace`, via `GraphInv`, which
    adds what each worker between two critical sections has already announced or listed.
  * `AppendKeepsDataAscending`, `AppendStoresDataOnce`: under `~CanReplace`, via `OwnFile` (a path
    names the object whose task is looking it up) and `DataInv` (what is stored has an index of at
    most `sent`, in strictly ascending order). The assumption is needed: `pipeline_reimport` is the
    counterexample without it.
* `ParseFinish_proofs`
  * `FinishedIsLoaded`: `Spec => []FinishedMeansLoaded`, across Resets. `FlushInv` follows the points:
    a task whose File is the one its path names (`Current`) has stored every scalar up to `sent`, forces
    a flush only at the end of what it can read, and reaches `setOffSet` with an empty cache or without
    having read anything, so that a task that ends with "data" has loaded its file (`FlushedIsLoaded`).
    After a Reset the File of a running task is no longer current, and never is again (`NoneRevived`).
    `FinishInv` follows the report: a file that belongs to a project is still being opened (`fresh`), or
    is one the project waits for, or its task is over (`Reported`); no path names a File of the project
    being imported before AddFile, and none names any while a Reset goes on (`Numbered`); the watcher
    has no project to visit while the handler holds `parseMutex_` (`Opening`).
  * `PercentGrows`: `Spec => PercentNeverFalls`, an action property. `ProgressInv` says that the
    percentage, multiplied out, is not more than what has been parsed (`Backed`): a file's offset never
    runs ahead of its task, offsets only grow, and so does their sum over the project's files, which is
    handled by well-founded induction on finite sets. It holds although `dataSize_` may have wrapped,
    as long as the quotient has a `uint32_t` (`PercentFits`).
* `ThreadExecutor_proofs`
  * `PoolTypeCorrect`, `PoolIsTaskQueue`: `Spec => QueueSpec`, the refinement of `TaskQueue`. `PoolInv`
    adds to `TypeOK` that what the queue and the workers hold is held once (`HeldOnce`) and pending
    (`HeldPending`): without it a worker that finishes could take another worker's task out of
    `running`.
  * `NoWakeupLost`: `Spec => []NoLostWakeup`. The property is inductive given the types.
* `GraphLine_proofs`
  * `LineTypeCorrect`, `LineIsAscending`, `SamplesAreDense`. `LineInv` adds to types and order that
    the left boundary is not right of the right one, that nothing is sampled or added before its time,
    and that positions are sampled in order; `SampledAre` says what is sampled. `Quotient` and
    `QuotientMonotone` are what the conversions to and from tokens rest on. `Total` is a recursive
    function: that the sum over the views exists and is a natural number is proved by `CountingUp`,
    an induction rule derived from the well-foundedness of strict inclusion on finite sets, since the
    library's own rules take an operator as a parameter and no installed prover can instantiate them.
  * `SamplesAreGathered`: the recursive function that stands for the loop of `GatherElement` is its
    closed form (`LoopGathers`): the closed form of what is left satisfies the equation of one turn
    (`FromTurns`), and by `CountingUp` from the end nothing else does.
  * `ViewsMatch`: `ViewsAreAll` (the views taken are those of all files that meet the range) follows
    from the size of the bijection GetData sorts; then `FileViewsHold` says which points a file's view
    has, and `QuotientBound` turns the rounded boundaries back into products.
  * `NewestIsDrawn`: `LineIsNewest` is inductive; `OnePieceMore` cuts every piece of the line where
    the new view begins.

* `Layout_proofs`
  * `RankTypeCorrect`, for `RankSpec`, and for the whole layout, `Spec`, and any set of input graphs
    `RanksAreFeasible`, `TreeStaysTight`, `CyclesPanic`.
    `PathInv` says of `longest_path` that the successors of a ranked node are ranked and leave it the
    room it needs, that the stack is a path of the visited nodes without a rank, that a node on it has
    met every successor that is not left in its list, and that every node hangs on the root.
    `NoRankedCycle` adds that among ranked nodes there is no cycle, since a node is ranked after its
    successors. A successor without a rank is then on the stack, and the stack from it to the top is
    the cycle that `CyclesPanic` needs. A shift of the tree keeps every edge feasible because the edge
    it closes has the least slack.
  * `LayersAreExact`, `EdgesComeBack` (of `EdgesDrawn`), `NodesComeThrough`, from one invariant, `DrawInv`, that says at each
    pass what has become of the input. `RankDone` is what the ranker hands over: feasible ranks that
    start at 0, and the input's edges, some turned round. `Given` are the edges normalize was given, read
    off the cut graph (those it left, and the `edge` of every first dummy), and stay the same to the
    end. `CutOK` says that the cut graph consists of their chains; `RowsOK` and `OrderOK` that the rows
    of the layering are the visited nodes, once each; `LoopsOK` that a self-edge's dummy is there just
    if the first node of the first layer has a self-edge. `AfterDummy` shows that a dummy has one
    successor, so that the recursive function denormalize follows is, by induction over the layers, the
    rest of its edge (`ChainOf`). `LayoutDrawConstantsOK` assumes that no key of the model is one the
    layout makes up (the code's dummies get fresh keys) and that graphs are finite.
* `VirtualFiles_proofs`
  * `VirtualTypes`, `FilesStayListed`, `OnlyKnownStrays`, `TokensSettle`. The inductive invariant adds
    which File a path or name stands for while a task or the handler works on it (`KindsOK`,
    `HandlerOK`), that a task about to look its File up is listed (`FoundListed`), and what the
    settings are before `BeforeParse` (`TokenOK`).

* `FileData_proofs`
  * `FileTypes`, `VectorsDoNotRace`: `LockInv` says which mutexes a thread holds where it is.
  * `OneWindowSmoothsAll`, `OneWindowKeepsOrder`: under `OneWindow` (all clients smooth with one
    median window), via `WindowInv`: the smoothed points are the first `numAccum` ones, and all of
    them once nobody is between an append or a new smoother and its `Sample`. The assumption is
    needed: `filedata_documented` is the counterexample without it.
* `Front_proofs`
  * `TimersAreCurrent`, `ProjectsAreWatched`, `AnswersAreAskedFor`. `TimerInv` is inductive as it
    stands, because every new `PollRequest` stops the timer of the one it replaces. `FrontInv` adds
    to `AnswersFit` that at most one request for points awaits its answer (`OneInFlight`), what the
    store's rows and settings are (`ListOK`), and that with the shipped server the store never has a
    chart (`ShippedBare`), since an import that throws clears it. Every step either leaves the points
    and the settings alone or asks anew and aborts what was asked before (`Untouched`, `AsksAnew`).

Only model-checked: the liveness properties (`TasksEnd`, `ProjectsFinish`, `NobodyWaits`,
`TasksTaken`, `DestructorReturns`, `LayoutEnds`), since fairness and ENABLED are beyond the prover.
Every invariant and every safety action property that a passing run checks is also proved.

## Where code and comments disagree

The four `violation` runs show disagreements a run can show; PROJECT.json quotes the lines. These the
models have as the code has them, and no property denies them:

* `File.h:36` has a boundary without a point rounded into the range. On the token axis `File.cpp:79-80`
  rounds outwards: with a coefficient of 3/2 and the boundaries 1 and 1 the point at step 0 is drawn.
* `SampleLineOp.h:37` asks for the left and the right boundary. When the size of a view is a multiple of
  a step greater than 1 the loop of `GatherElement` (`ConceptDefs.h:186`) ends exactly at `upper_`, and
  the last point is not drawn.
* `File.h:68`, `File.h:189` and `File.cpp:28` say that the sequence length of MindForms text logs is not
  to be set. `SetFileToken` (`ScalarVisuallyTokenSet.cpp:96`) sets it as of any file; `UpdateTokenParam`,
  which makes the exception, has no caller.
* `ScalarVisuallyServer.cpp:133` calls the sum of the sizes a total. The lambda at :136 takes its
  accumulator as an `int`, so that past 2^31 bytes it is none. The quotient by it is converted to a
  `uint32_t` at :188 before `std::min` caps it.
* The front end and the server differ in their protocol. `getChartsData` sends `offset` and
  `sampleOffset` (`lossApi.ts:33-42`); `CheckParamValid` (`ScalarVisuallyGetScalarDataHandler.cpp:46-54`)
  rejects a chart without `start`, `end` and `graphConfig`, and the answer is lines keyed by step.
  `ImportFile` answers `projectName` (`ScalarVisuallyImportFileHandler.cpp:85`), where the front end
  takes `data` (`lossApi.ts:19`): `addFile(body.data)` (`Upload.tsx:56`, `:104`) throws, so that
  `updataChartData` is not emitted and the page stays in its loading state. `AddFileWatch` has no
  caller, so that the list of new files stays empty.

## Not modelled

* The values of smoothed points and the parsers' formats (conversions), JSON, logging, rendering.
* The file watcher, because nothing in the build adds a watched file.
* Coordinates of the layout; the passes no caller reaches (compound graphs, `network_simplex`,
  `greedy_fas`, the sweeps and barycentres of `order`).
* Subgraph mining, the model parser and the ffi: sequential, without state between calls.
* The plugin host and HTTP server: they dispatch one request at a time, which the models assume.
* Three quarters of the repository's lines are generated protobuf code (`src/proto`) or vendored.
* `fs::file_size` may throw in AddParseTask when a file has gone: no handler catches it and the process
  ends, so there is no later state to check.
* Of the front end: the loading state, which a failed import leaves on (`Upload.tsx:50`); a smoothing
  change delayed past another import, which names tags that are gone (`lossShow.ts:177`); the characters
  of names, at whose ':' the key of a check is split (`lossShow.ts:117`).
* What a client may conclude from a project reported finished at once because another project parses
  all of its files (`ScalarVisuallyServer.cpp:127`): no document says.

`PROJECT.json` lists each component with its status.

## Plan

1. (done) `ParsePipeline`, `FileData`, `ThreadExecutor`/`TaskQueue`, `GraphLine`, first proofs.
2. (done) `VirtualFiles`, with its proofs.
3. (done) `LayoutRank` and `LayoutDraw`, with their proofs.
4. (done) `Front`, with its proofs; the proofs of `FileData`.
5. `FileWatcher`, if a caller of AddFileWatch appears.
6. (done) Proofs: the views, the sampling loop and the overwriting of `GraphLine`, the drawing passes of
   the layout, `FinishedMeansLoaded` across a Reset, `PercentNeverFalls`.
7. Proofs: what the findings leave true without their assumptions, such as what a Reset keeps of
   `DataOnce`, and abstract specifications of the import and of the chart's store.
