-------------------------------- MODULE Front --------------------------------
(***************************************************************************)
(* The front end of the scalar view: the requests it polls the server      *)
(* with, the store that counts the points, and the dialogue for new files. *)
(*                                                                         *)
(* JavaScript runs one callback at a time, up to its next await; what      *)
(* interleaves is the answers, the timers, the clicks of the user and the  *)
(* messages of the page around it.  A chart is a tag and a file.           *)
(*                                                                         *)
(* Two servers answer: the one the types of api/lossApi.ts declare, whose  *)
(* answers may hold anything those types allow, and the one src/Scalar/    *)
(* server ships, which answers otherwise.                                  *)
(***************************************************************************)
EXTENDS Integers, Sequences, FiniteSets

CONSTANTS
  Servers,     \* which of the two servers may answer
  Charts,      \* the pairs of a tag and a file
  TagOf,       \* [Charts -> the tag of each]
  Configs,     \* the smoothing settings a user may choose
  NewFiles,    \* the names of files that may appear in the folder
  MaxPoints,   \* bound: the points of a chart
  ChartSlots, FileSlots,  \* bound: the PollRequests, of either kind, that wait
                          \* for an answer or for their timer at one time
  UploadSlots  \* bound: the calls of importFile under way at one time

Plain == "plain"      \* the initial setting: no smoothing
None == "none"
Kinds == {"charts", "newFiles"}
Slots == ChartSlots \cup FileSlots
Tags == {TagOf[c] : c \in Charts}

ASSUME FrontConstantsOK ==
  /\ Servers \subseteq {"declared", "shipped"}
  /\ MaxPoints \in Nat /\ Plain \notin Configs
  /\ ChartSlots \cap FileSlots = {} /\ None \notin Slots
  /\ DOMAIN TagOf = Charts

VARIABLES
  api,          \* the server that answers
  fileList,     \* lossShowInfo.fileList: [data, smoothingData, isChecked] of each
                \* chart, the first two as the number of their points
  showTagList, config,
  isTagPolymerize,   \* the charts of all tags are shown as one
  showListCopy,      \* what is checked in the view that is not shown
  aggregate,    \* the effect of FileListTagAggregation is due
  newFileList, showModal,
  effect,       \* newFileList has changed since the dialogue was rendered
  listenFile,   \* PollGetNewFile, which has the dialogue, is mounted
  poll,         \* the PollRequests: where each is, what it asked, the answer
                \* (of new files, which the server forgets when it answers)
  current,      \* getChartsDataPoll of LossShow and of Upload, None once cleared
  upload,       \* the calls of importFile: "idle", "import", or "append" for
                \* those of the dialogue
  created,      \* server: the new files it has not told yet
  project       \* history: a project has been imported, and not removed since

store  == <<fileList, showTagList, config>>
view   == <<isTagPolymerize, showListCopy, aggregate>>
dialog == <<newFileList, showModal, effect, listenFile>>
polls  == <<poll, current>>
vars == <<api, store, view, dialog, polls, upload, created, project>>

Free == [pc |-> "free", asked |-> <<>>, answer |-> <<>>]
NoPoll == [k \in Kinds |-> None]

Init ==
  /\ api \in Servers
  /\ fileList = <<>> /\ showTagList = {} /\ config = [t \in Tags |-> Plain]
  /\ isTagPolymerize = FALSE /\ showListCopy = {} /\ aggregate = FALSE
  /\ newFileList = {} /\ showModal = FALSE /\ effect = FALSE /\ listenFile = FALSE
  /\ poll = [s \in Slots |-> Free] /\ current = NoPoll
  /\ upload = [u \in UploadSlots |-> "idle"]
  /\ created = {}
  /\ project = FALSE

-----------------------------------------------------------------------------
(* LossShowInfo.  getGraphList: what the charts on show ask for.           *)
GraphList(list, shown, cfg) ==
  [c \in {d \in DOMAIN list : list[d].isChecked /\ TagOf[d] \in shown} |->
     [offset |-> list[c].data, sampleOffset |-> list[c].smoothingData,
      config |-> cfg[TagOf[c]]]]

(* addFile: a chart that is new is empty; the first of a new tag is        *)
(* checked, in either view, and its tag is on show unless three are.       *)
TagsIn(list) == {TagOf[c] : c \in DOMAIN list}
Entry(checked) == [data |-> 0, smoothingData |-> 0, isChecked |-> checked]

AddFile(list, shown, copy, added) ==
  LET new  == added \ DOMAIN list
      tags == {TagOf[c] : c \in new} \ TagsIn(list)
  IN /\ \E first \in SUBSET {c \in new : TagOf[c] \in tags} :
          /\ \A t \in tags : Cardinality({c \in first : TagOf[c] = t}) = 1
          /\ fileList' = [c \in DOMAIN list \cup new |->
                            IF c \in new THEN Entry(c \in first) ELSE list[c]]
          /\ showListCopy' = copy \cup first
     /\ \E more \in SUBSET tags :
          /\ more = tags \/ Cardinality(shown \cup more) >= 3
          /\ more = {} \/ Cardinality(shown \cup more) <= 3
          /\ showTagList' = shown \cup more

(* addData throws at a chart that is not there; f swallows it.             *)
WithAnswer(list, answer) ==
  [c \in DOMAIN list |->
     IF c \in DOMAIN answer
     THEN [list[c] EXCEPT !.data = @ + answer[c].points,
                          !.smoothingData = @ + answer[c].sampledPoints]
     ELSE list[c]]

AddData(answer) ==
  /\ fileList' \in IF DOMAIN answer \subseteq DOMAIN fileList THEN {WithAnswer(fileList, answer)}
                   ELSE {WithAnswer(fileList, [c \in some |-> answer[c]]) :
                           some \in SUBSET (DOMAIN answer \cap DOMAIN fileList)}
  /\ UNCHANGED <<showTagList, config>>

(* clearFileList, but for the list that addFile fills next.                *)
ClearFileList ==
  /\ config' = [t \in Tags |-> Plain]
  /\ isTagPolymerize' = FALSE /\ aggregate' = FALSE
  /\ newFileList' = {} /\ effect' = TRUE

NoFiles == fileList' = <<>> /\ showTagList' = {} /\ showListCopy' = {}

-----------------------------------------------------------------------------
(* PollRequest.  clear stops the timer; an answer that is awaited still    *)
(* comes, but sets no timer then, since poll has been replaced.            *)
PollsAnyhow(cur, s) == TRUE   \* mutant: clear leaves the method poll in place
PollsOn(cur, s) == cur = s

Settled(cur, s) == [Free EXCEPT !.pc = IF PollsOn(cur, s) THEN "timer" ELSE "free"]

Cleared(ps, cur) == [s \in Slots |-> IF s = cur /\ ps[s].pc = "timer" THEN Free ELSE ps[s]]

Asked(list) == [pc |-> "sent", asked |-> list, answer |-> <<>>]
Answered(answer) == [pc |-> "answered", asked |-> <<>>, answer |-> answer]
Vacant(ps, s) == ps[s].pc = "free"

(* getChartsData aborts the request before it, whoever made it.            *)
NoneAborted(ps, cur) == ps   \* mutant: requests are not aborted
Aborted(ps, cur) ==
  [s \in Slots |-> IF s \in ChartSlots /\ ps[s].pc = "sent" THEN Settled(cur, s) ELSE ps[s]]

GetChartsData(ps, s, list) == [Aborted(ps, s) EXCEPT ![s] = Asked(list)]

(* pollRequest of LossShow, on the event updataChartData, and of Upload:   *)
(* clear, and a new PollRequest, which asks at once.                       *)
BothCleared == Cleared(Cleared(poll, current["charts"]), current["newFiles"])

UpdataChartData ==
  \E s \in ChartSlots :
    /\ Vacant(Cleared(poll, current["charts"]), s)
    /\ poll' = GetChartsData(Cleared(poll, current["charts"]), s,
                             GraphList(fileList', showTagList', config'))
    /\ current' = [current EXCEPT !["charts"] = s]
    /\ listenFile' = TRUE

PollNewFiles ==
  \E s \in FileSlots :
    /\ Vacant(Cleared(poll, current["newFiles"]), s)
    /\ poll' = [Cleared(poll, current["newFiles"]) EXCEPT ![s] = Asked(<<>>)]
    /\ current' = [current EXCEPT !["newFiles"] = s]

-----------------------------------------------------------------------------
(* The server.  Declared: the points of an answer are any number, the      *)
(* files of an import any set, and new files appear in the folder.         *)
(* Shipped: GetScalarData rejects a chart that is asked for without start, *)
(* end and graphConfig, ImportFile answers the name of the project and no  *)
(* files, and no folder is watched.                                        *)
ParamValid(list) == api = "declared" \/ list = <<>>

AnswerCharts(ask) ==
  {answer \in [DOMAIN ask -> [points : 0..MaxPoints, sampledPoints : 0..MaxPoints]] :
     \A c \in DOMAIN ask : /\ ask[c].offset + answer[c].points <= MaxPoints
                           /\ ask[c].sampleOffset + answer[c].sampledPoints <= MaxPoints}

AnswerHasFiles == api = "declared"

Create(n) ==
  /\ api = "declared"
  /\ created' = created \cup {n}
  /\ UNCHANGED <<api, store, view, dialog, polls, upload, project>>

(* GetAddFiles hands the new files out and forgets them.                   *)
AnswerNewFiles(s) ==
  /\ poll[s].pc = "sent"
  /\ poll' = [poll EXCEPT ![s] = Answered(created)]
  /\ created' = {}
  /\ UNCHANGED <<api, store, view, dialog, current, upload, project>>

-----------------------------------------------------------------------------
(* The front end: answers and timers of the polls.                         *)
Kind(s) == IF s \in ChartSlots THEN "charts" ELSE "newFiles"

(* A request fails, is rejected, or is answered after the 10 s allowed.    *)
RequestFails(s) ==
  /\ poll[s].pc \in {"sent", "answered"}
  /\ poll' = [poll EXCEPT ![s] = Settled(current[Kind(s)], s)]
  /\ UNCHANGED <<api, store, view, dialog, current, upload, created, project>>

ChartsArrive(s) ==
  /\ poll[s].pc = "sent" /\ ParamValid(poll[s].asked)
  /\ \E answer \in AnswerCharts(poll[s].asked) : AddData(answer)
  /\ poll' = [poll EXCEPT ![s] = Settled(current["charts"], s)]
  /\ UNCHANGED <<api, view, dialog, current, upload, created, project>>

(* handleData clears the poll of new files, also when another answered.    *)
NewFilesArrive(s) ==
  /\ poll[s].pc = "answered"
  /\ IF poll[s].answer = {}
     THEN /\ poll' = [poll EXCEPT ![s] = Settled(current["newFiles"], s)]
          /\ UNCHANGED <<dialog, current>>
     ELSE /\ newFileList' = poll[s].answer /\ effect' = TRUE
          /\ poll' = [Cleared(poll, current["newFiles"]) EXCEPT ![s] = Settled(None, s)]
          /\ current' = [current EXCEPT !["newFiles"] = None]
          /\ UNCHANGED <<showModal, listenFile>>
  /\ UNCHANGED <<api, store, view, upload, created, project>>

Timer(s) ==
  /\ poll[s].pc = "timer"
  /\ poll' = IF s \in ChartSlots THEN GetChartsData(poll, s, GraphList(fileList, showTagList, config))
             ELSE [poll EXCEPT ![s] = Asked(<<>>)]
  /\ UNCHANGED <<api, store, view, dialog, current, upload, created, project>>

(* The effect of PollGetNewFile, after the list has changed.               *)
ShowNewFiles ==
  /\ effect /\ listenFile
  /\ effect' = FALSE
  /\ IF newFileList = {}
     THEN UNCHANGED <<polls, showModal>>
     ELSE /\ showModal' = TRUE
          /\ poll' = Cleared(poll, current["newFiles"])
          /\ current' = [current EXCEPT !["newFiles"] = None]
  /\ UNCHANGED <<api, store, view, newFileList, listenFile, upload, created, project>>

-----------------------------------------------------------------------------
(* importFile, of UpLoadFile.request and of handleOk: nothing keeps two    *)
(* calls from being under way at one time.                                 *)
Call(what) ==
  \E u \in UploadSlots : upload[u] = "idle" /\ upload' = [upload EXCEPT ![u] = what]

Return(u, what) == upload[u] = what /\ upload' = [upload EXCEPT ![u] = "idle"]

(* The message remote/import.                                              *)
ImportFile ==
  /\ Call("import")
  /\ UNCHANGED <<api, store, view, dialog, polls, created, project>>

(* The answer replaces what the store has, and both polls begin anew.      *)
Uploaded(u) ==
  /\ Return(u, "import") /\ AnswerHasFiles
  /\ ClearFileList
  /\ \E files \in SUBSET Charts : AddFile(<<>>, {}, {}, files)
  /\ \E s \in ChartSlots, n \in FileSlots :
       /\ Vacant(BothCleared, s) /\ Vacant(BothCleared, n)
       /\ poll' = GetChartsData([BothCleared EXCEPT ![n] = Asked(<<>>)], s,
                                GraphList(fileList', showTagList', config'))
       /\ current' = [charts |-> s, newFiles |-> n]
  /\ listenFile' = TRUE
  /\ project' = TRUE
  /\ UNCHANGED <<api, showModal, created>>

(* Without files addFile throws: the folder is polled, the store is empty, *)
(* and updataChartData is not emitted.                                     *)
UploadThrows(u) ==
  /\ Return(u, "import") /\ ~AnswerHasFiles
  /\ PollNewFiles
  /\ ClearFileList /\ NoFiles
  /\ project' = TRUE
  /\ UNCHANGED <<api, showModal, listenFile, created>>

(* A call fails; in handleOk a call that addFile throws after is as one.   *)
UploadFails(u) ==
  /\ Return(u, "import") \/ Return(u, "append")
  /\ UNCHANGED <<api, store, view, dialog, polls, created, project>>

(* The messages remote/remove and remote/reset: no request is aborted.     *)
Remove ==
  /\ ClearFileList /\ NoFiles
  /\ poll' = BothCleared
  /\ current' = NoPoll
  /\ project' = FALSE
  /\ UNCHANGED <<api, showModal, listenFile, upload, created>>

(* The dialogue for new files.  Ok with nothing chosen is a Cancel.        *)
Cancel ==
  /\ showModal
  /\ showModal' = FALSE
  /\ PollNewFiles
  /\ UNCHANGED <<api, store, view, newFileList, effect, listenFile, upload, created, project>>

HandleOk ==
  /\ showModal
  /\ Call("append")
  /\ UNCHANGED <<api, store, view, dialog, polls, created, project>>

OkStopsPolling == UNCHANGED polls   \* mutant: the polling is not taken up again
OkPolls == PollNewFiles

OkDone(u) ==
  /\ Return(u, "append") /\ AnswerHasFiles
  /\ \E files \in SUBSET Charts : AddFile(fileList, showTagList, showListCopy, files)
  /\ showModal' = FALSE
  /\ OkPolls
  /\ UNCHANGED <<api, config, isTagPolymerize, aggregate, newFileList, effect, listenFile,
                 created, project>>

-----------------------------------------------------------------------------
(* The charts: what is checked (two at most), smoothed and on show, and    *)
(* how often the points are asked for.                                     *)
Checked == {c \in DOMAIN fileList : fileList[c].isChecked}

Check(tags, checked) ==
  fileList' = [c \in DOMAIN fileList |->
    IF TagOf[c] \in tags THEN [fileList[c] EXCEPT !.isChecked = c \in checked] ELSE fileList[c]]

(* In one view the boxes of a tag, in the other those of all on show.      *)
ModifyCheck(checked) ==
  /\ Cardinality(checked) <= 2
  /\ IF isTagPolymerize
     THEN {TagOf[c] : c \in checked} \subseteq showTagList /\ Check(Tags, checked)
     ELSE \E t \in showTagList : {TagOf[c] : c \in checked} \subseteq {t} /\ Check({t}, checked)
  /\ checked \subseteq DOMAIN fileList /\ fileList # <<>>
  /\ UNCHANGED <<showTagList, config>>
  /\ UpdataChartData
  /\ UNCHANGED <<api, view, newFileList, showModal, effect, upload, created, project>>

(* The checks of the two views change places; no points are asked for.     *)
ModifyIsTagPolymerize ==
  /\ isTagPolymerize' = ~isTagPolymerize
  /\ Check(Tags, showListCopy)
  /\ showListCopy' = Checked
  /\ aggregate' = isTagPolymerize'
  /\ UNCHANGED <<api, showTagList, config, dialog, polls, upload, created, project>>

(* FileListTagAggregation is mounted, or given other tags: two charts, the *)
(* first of those checked and on show, stay so; no points are asked for.   *)
AggregateChecks ==
  /\ aggregate /\ showTagList # {}
  /\ aggregate' = FALSE
  /\ LET listed == {c \in Checked : TagOf[c] \in showTagList}
     IN \E two \in SUBSET listed :
          /\ Cardinality(two) <= 2 /\ (two = listed \/ Cardinality(two) = 2)
          /\ Check(Tags, two)
  /\ UNCHANGED <<api, showTagList, config, isTagPolymerize, showListCopy, dialog, polls, upload,
                 created, project>>

(* The points smoothed with another setting are thrown away.               *)
ModifySmoothingConfig(tags, cfg) ==
  /\ tags # {} /\ tags \subseteq TagsIn(fileList)
  /\ config' = [t \in Tags |-> IF t \in tags THEN cfg ELSE config[t]]
  /\ fileList' = [c \in DOMAIN fileList |->
       IF TagOf[c] \in tags THEN [fileList[c] EXCEPT !.smoothingData = 0] ELSE fileList[c]]
  /\ UNCHANGED showTagList
  /\ UpdataChartData
  /\ UNCHANGED <<api, view, newFileList, showModal, effect, upload, created, project>>

ModifyStepGetData ==
  /\ fileList # <<>>
  /\ UNCHANGED store
  /\ UpdataChartData
  /\ UNCHANGED <<api, view, newFileList, showModal, effect, upload, created, project>>

ModifyShowTagList(tags) ==
  /\ tags \subseteq TagsIn(fileList)
  /\ showTagList' = tags
  /\ aggregate' = isTagPolymerize
  /\ UNCHANGED <<api, fileList, config, isTagPolymerize, showListCopy, dialog, polls, upload,
                 created, project>>

Next ==
  \/ \E n \in NewFiles : Create(n)
  \/ \E s \in ChartSlots : ChartsArrive(s)
  \/ \E s \in FileSlots : AnswerNewFiles(s) \/ NewFilesArrive(s)
  \/ \E s \in Slots : RequestFails(s) \/ Timer(s)
  \/ ShowNewFiles
  \/ ImportFile \/ Remove \/ Cancel \/ HandleOk
  \/ \E u \in UploadSlots :
       Uploaded(u) \/ UploadThrows(u) \/ UploadFails(u) \/ OkDone(u)
  \/ \E checked \in SUBSET Charts : ModifyCheck(checked)
  \/ ModifyIsTagPolymerize \/ AggregateChecks
  \/ \E tags \in SUBSET Tags, cfg \in Configs : ModifySmoothingConfig(tags, cfg)
  \/ ModifyStepGetData
  \/ \E tags \in SUBSET Tags : ModifyShowTagList(tags)

Spec == Init /\ [][Next]_vars

-----------------------------------------------------------------------------
(* What addData will add was asked for where the chart now ends: a request *)
(* for points that is under way has, for each of its charts, the number of *)
(* points and of smoothed points in the store and the setting of the tag,  *)
(* however imports, answers, timers and the user's changes interleave and  *)
(* whatever the server answers.  Only the removal of a project leaves a    *)
(* request that a new entry of the store may be given.                     *)
Fits(ask) == \A c \in DOMAIN ask :
  /\ c \in DOMAIN fileList
  /\ ask[c].offset = fileList[c].data
  /\ ask[c].sampleOffset = fileList[c].smoothingData
  /\ ask[c].config = config[TagOf[c]]

AnswersFit ==
  project => \A s \in ChartSlots : poll[s].pc = "sent" => Fits(poll[s].asked)

(* There is one timer of each kind, that of the PollRequest made last.     *)
OneTimer ==
  \A s \in Slots : poll[s].pc = "timer" => current[Kind(s)] = s

(* A project that is there is looked after: its folder is polled, or the   *)
(* user is asked about new files, or is about to be.                       *)
FolderIsWatched ==
  project => current["newFiles"] # None \/ showModal \/ (effect /\ newFileList # {})

=============================================================================
