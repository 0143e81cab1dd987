---------------------------- MODULE VirtualFiles ----------------------------
(***************************************************************************)
(* FileMerge and TokenSet against the tasks that parse files: virtual      *)
(* files, which stand for several runs of one training, the graphs that    *)
(* list them, and the settings that turn steps into tokens.                *)
(*                                                                         *)
(* The handlers run one at a time.  They take no graphMutext_ and, for a   *)
(* virtual file, no mutex of the FileInfoManager, so that their writes may *)
(* meet those of a task in the same table, and their lookups an insertion. *)
(* That is a data race; what the model lets it do is lose one of two       *)
(* insertions, or hide an entry from a thread that looks for it meanwhile. *)
(***************************************************************************)
EXTENDS Integers, Sequences

CONSTANTS
  Paths,      \* the files on disk
  Names,      \* the names a client gives to virtual files; a path may be one
  NoName,     \* the empty name
  Tags,       \* the names of the graphs
  TagsOf,     \* [Paths -> SUBSET Tags]: the tags a file has data for
  TextLogs,   \* the files of type TEXT_LOG
  BatchOf,    \* [Paths -> Int]: the global_batch_size a log states, Unset if none
  TokenLists  \* the lists a client may send to TokenSet

Unset == -1
Files == Paths \cup Names

ASSUME VirtualFilesConstantsOK ==
  /\ TagsOf \in [Paths -> SUBSET Tags]
  /\ TextLogs \subseteq Paths
  /\ BatchOf \in [Paths -> Int]
  /\ \A p \in Paths \ TextLogs : BatchOf[p] = Unset
  /\ TokenLists \subseteq Seq([file : Files, batch : Int, length : Int])

VARIABLES
  kind,       \* FileInfoManager and File::type_: "none", "NORMAL" or "VISUAL"
  tags,       \* File::tag_ of the registered File
  batch,      \* File::globalBatchSize_
  length,     \* File::seqLength_
  graphs,     \* GraphManager::graphs_
  dataFiles,  \* Graph::dataFiles_, of the graphs that are there
  pc, at,     \* where the task of each path is, and the tag it updates
  httpPc,     \* where the handler is
  new,        \* the VirtualFile that FileMerge builds or FileUnMerge takes apart
  left,       \* what the handler's loop over files or tags has left
  items,      \* what TokenSet's loop has left
  torn,       \* history: graphs whose table two threads wrote at once
  overlooked, \* history: names and tags whose graph the handler did not find
  again,      \* history: names merged while they were registered
  missed,     \* history: paths that a task did not find
  asked       \* history: the last setting a client asked for each path, and
              \* whether it came after BeforeParse had set the log's own

fileVars  == <<kind, tags>>
tokenVars == <<batch, length, asked>>
taskVars  == <<pc, at>>
httpVars  == <<httpPc, new, left, items>>
history   == <<torn, overlooked, again, missed>>
vars == <<fileVars, tokenVars, graphs, dataFiles, taskVars, httpVars, history>>

Nobody == [name |-> NoName, tags |-> {}]
NotAsked == [batch |-> Unset, length |-> Unset, late |-> FALSE]

Init ==
  /\ kind = [f \in Files |-> "none"]
  /\ tags = [f \in Files |-> {}]
  /\ batch = [p \in Paths |-> Unset] /\ length = [p \in Paths |-> Unset]
  /\ graphs = {} /\ dataFiles = [t \in Tags |-> {}]
  /\ pc = [p \in Paths |-> "none"] /\ at = [p \in Paths |-> "none"]
  /\ httpPc = "idle" /\ new = Nobody /\ left = {} /\ items = <<>>
  /\ torn = {} /\ overlooked = {} /\ again = {} /\ missed = {}
  /\ asked = [p \in Paths |-> NotAsked]

-----------------------------------------------------------------------------
(* AddParseTask registers a file and submits its task; a path that is      *)
(* registered, be it as the name of a virtual file, is skipped.            *)
Import(p) ==
  /\ httpPc = "idle"
  /\ kind[p] = "none"
  /\ kind' = [kind EXCEPT ![p] = "NORMAL"]
  /\ pc' = [pc EXCEPT ![p] = "queued"]
  /\ UNCHANGED <<tags, tokenVars, graphs, dataFiles, at, httpVars, history>>

(* LogTextParser::BeforeParse: a log may state its batch size.             *)
BatchKept(p) == batch[p]   \* mutant: BeforeParse leaves a batch size that is set
BatchFromLog(p) == IF BatchOf[p] # Unset THEN BatchOf[p] ELSE batch[p]

BeforeParse(p) ==
  /\ pc[p] = "queued"
  /\ pc' = [pc EXCEPT ![p] = "parse"]
  /\ batch' = [batch EXCEPT ![p] = BatchFromLog(p)]
  /\ UNCHANGED <<fileVars, length, asked, graphs, dataFiles, at, httpVars, history>>

(* UpdateGraph holds graphMutext_ until the points are in the File.        *)
GraphMutexFree == \A p \in Paths : pc[p] \notin {"create", "list", "find"}

ListsCreator(p, t) == dataFiles[t] = {}   \* mutant: only the file that creates a graph is listed
ListsNew(p, t) == p \notin dataFiles[t]

Listing(p, t) == IF ListsNew(p, t) THEN "list" ELSE "find"

(* GraphManager::UpdateGraphData: a tag that is met for the first time     *)
(* gets a graph.                                                           *)
UpdateGraph(p) ==
  /\ pc[p] = "parse" /\ GraphMutexFree
  /\ \E t \in TagsOf[p] :
       /\ at' = [at EXCEPT ![p] = t]
       /\ pc' = [pc EXCEPT ![p] = IF t \in graphs THEN Listing(p, t) ELSE "create"]
  /\ UNCHANGED <<fileVars, tokenVars, graphs, dataFiles, httpVars, history>>

CreateGraph(p) ==
  /\ pc[p] = "create"
  /\ pc' = [pc EXCEPT ![p] = Listing(p, at[p])]
  /\ graphs' = graphs \cup {at[p]}
  /\ UNCHANGED <<fileVars, tokenVars, dataFiles, at, httpVars, history>>

(* Graph::UpdateData enters the file in the graph's table, then looks the  *)
(* File up, which enters the tag in its own.                               *)
ListFile(p) ==
  /\ pc[p] = "list"
  /\ pc' = [pc EXCEPT ![p] = "find"]
  /\ \/ dataFiles' = [dataFiles EXCEPT ![at[p]] = @ \cup {p}]
     \/ at[p] \in torn /\ UNCHANGED dataFiles
  /\ UNCHANGED <<fileVars, tokenVars, graphs, at, httpVars, history>>

UpdateData(p) ==
  /\ pc[p] = "find"
  /\ pc' = [pc EXCEPT ![p] = "parse"]
  /\ at' = [at EXCEPT ![p] = "none"]
  /\ \/ /\ tags' = IF kind[p] = "NORMAL" THEN [tags EXCEPT ![p] = @ \cup {at[p]}] ELSE tags
        /\ UNCHANGED missed
     \/ /\ httpPc = "register"
        /\ missed' = missed \cup {p}
        /\ UNCHANGED tags
  /\ UNCHANGED <<kind, tokenVars, graphs, dataFiles, httpVars, torn, overlooked, again>>

-----------------------------------------------------------------------------
(* FileMerge.  A request that names a file which is not there, or a        *)
(* virtual one, is refused.  The name is taken as it is, also if empty.    *)
Merge(name, files) ==
  /\ httpPc = "idle"
  /\ \A f \in files : kind[f] = "NORMAL"
  /\ httpPc' = "collect"
  /\ new' = [Nobody EXCEPT !.name = name]
  /\ left' = files
  /\ UNCHANGED <<fileVars, tokenVars, graphs, dataFiles, taskVars, items, history>>

(* AddSubFiles copies the tags that each file has at this moment.          *)
AddSubFile ==
  /\ httpPc = "collect"
  /\ \E f \in left :
       /\ new' = [new EXCEPT !.tags = @ \cup tags[f]]
       /\ left' = left \ {f}
  /\ UNCHANGED <<fileVars, tokenVars, graphs, dataFiles, taskVars, httpPc, items, history>>

(* FileInfoManager::AddFile begins to write its tables...                  *)
StartRegister ==
  /\ httpPc = "collect" /\ left = {}
  /\ httpPc' = "register"
  /\ UNCHANGED <<fileVars, tokenVars, graphs, dataFiles, taskVars, new, left, items, history>>

(* ... and keeps the File that has the name already, if there is one.  In  *)
(* either case AddVirtualFile goes through the tags of the new object.     *)
Register ==
  /\ httpPc = "register"
  /\ httpPc' = "list"
  /\ IF kind[new.name] = "none"
     THEN /\ kind' = [kind EXCEPT ![new.name] = "VISUAL"]
          /\ tags' = [tags EXCEPT ![new.name] = new.tags]
          /\ UNCHANGED again
     ELSE /\ again' = again \cup {new.name}
          /\ UNCHANGED fileVars
  /\ left' = new.tags
  /\ UNCHANGED <<tokenVars, graphs, dataFiles, taskVars, new, items, torn, overlooked, missed>>

(* A write of the handler to the table of graph t, while a task may be     *)
(* writing to it.                                                          *)
WriteTable(t, files) ==
  LET race == \E p \in Paths : pc[p] = "list" /\ at[p] = t
  IN /\ torn' = IF race THEN torn \cup {t} ELSE torn
     /\ \/ dataFiles' = [dataFiles EXCEPT ![t] = files]
        \/ race /\ UNCHANGED dataFiles

(* GetGraph looks a graph up without graphMutext_: while a task inserts    *)
(* another, the handler may not find one that is there.                    *)
Overlook(t) ==
  /\ \E p \in Paths : pc[p] = "create"
  /\ overlooked' = overlooked \cup {<<new.name, t>>}
  /\ UNCHANGED <<dataFiles, torn>>

ListVirtualFile ==
  /\ httpPc = "list"
  /\ \E t \in left :
       /\ left' = left \ {t}
       /\ \/ Overlook(t)
          \/ new.name \in dataFiles[t] /\ UNCHANGED <<dataFiles, torn, overlooked>>
          \/ /\ new.name \notin dataFiles[t]
             /\ WriteTable(t, dataFiles[t] \cup {new.name})
             /\ UNCHANGED overlooked
  /\ UNCHANGED <<fileVars, tokenVars, graphs, taskVars, httpPc, new, items, again, missed>>

(* FileUnMerge: the virtual file goes from the FileInfoManager, then from  *)
(* the graphs of its tags.  With an empty name it returns at once, though  *)
(* the client gets the same answer.                                        *)
NoTags(name) == {}   \* mutant: the graphs keep the file
TagsToClear(name) == tags[name]

UnMerge(name) ==
  /\ httpPc = "idle"
  /\ kind[name] = "VISUAL" /\ name # NoName
  /\ httpPc' = "unlist"
  /\ new' = [Nobody EXCEPT !.name = name]
  /\ kind' = [kind EXCEPT ![name] = "none"]
  /\ tags' = [tags EXCEPT ![name] = {}]
  /\ left' = TagsToClear(name)
  /\ UNCHANGED <<tokenVars, graphs, dataFiles, taskVars, items, history>>

UnlistVirtualFile ==
  /\ httpPc = "unlist"
  /\ \E t \in left :
       /\ left' = left \ {t}
       /\ \/ Overlook(t)
          \/ WriteTable(t, dataFiles[t] \ {new.name}) /\ UNCHANGED overlooked
  /\ UNCHANGED <<fileVars, tokenVars, graphs, taskVars, httpPc, new, items, again, missed>>

-----------------------------------------------------------------------------
(* TokenSet.  A request that cannot be parsed leaves an empty list.        *)
TokenSet(list) ==
  /\ httpPc = "idle"
  /\ httpPc' = "token"
  /\ items' = list
  /\ UNCHANGED <<fileVars, tokenVars, graphs, dataFiles, taskVars, new, left, history>>

(* SetFileToken passes over a file that is not there or is virtual.        *)
SetFileToken ==
  /\ httpPc = "token" /\ items # <<>>
  /\ items' = Tail(items)
  /\ LET item == Head(items)
     IN IF kind[item.file] = "NORMAL"
        THEN /\ batch' = [batch EXCEPT ![item.file] = item.batch]
             /\ length' = [length EXCEPT ![item.file] = item.length]
             /\ asked' = [asked EXCEPT ![item.file] =
                            [batch |-> item.batch, length |-> item.length,
                             late |-> pc[item.file] # "queued" /\ BatchOf[item.file] # Unset]]
        ELSE UNCHANGED tokenVars
  /\ UNCHANGED <<fileVars, graphs, dataFiles, taskVars, httpPc, new, left, history>>

Answer ==
  /\ httpPc \in {"list", "unlist", "token"} /\ left = {} /\ items = <<>>
  /\ httpPc' = "idle"
  /\ new' = Nobody
  /\ UNCHANGED <<fileVars, tokenVars, graphs, dataFiles, taskVars, left, items, history>>

Next ==
  \/ \E p \in Paths : Import(p) \/ BeforeParse(p) \/ UpdateGraph(p) \/ CreateGraph(p)
                      \/ ListFile(p) \/ UpdateData(p)
  \/ \E name \in Names, files \in SUBSET Paths : Merge(name, files)
  \/ \E name \in Names : UnMerge(name)
  \/ \E list \in TokenLists : TokenSet(list)
  \/ AddSubFile \/ StartRegister \/ Register \/ ListVirtualFile \/ UnlistVirtualFile
  \/ SetFileToken \/ Answer

Spec == Init /\ [][Next]_vars

-----------------------------------------------------------------------------
TypeOK ==
  /\ kind \in [Files -> {"none", "NORMAL", "VISUAL"}]
  /\ tags \in [Files -> SUBSET Tags]
  /\ batch \in [Paths -> Int] /\ length \in [Paths -> Int]
  /\ graphs \subseteq Tags /\ dataFiles \in [Tags -> SUBSET Files]
  /\ pc \in [Paths -> {"none", "queued", "parse", "create", "list", "find"}]
  /\ at \in [Paths -> Tags \cup {"none"}]
  /\ httpPc \in {"idle", "collect", "register", "list", "unlist", "token"}
  /\ new \in [name : Names \cup {NoName}, tags : SUBSET Tags]
  /\ left \subseteq IF httpPc \in {"idle", "collect", "register", "token"} THEN Paths ELSE Tags
  /\ items \in Seq([file : Files, batch : Int, length : Int])
  /\ asked \in [Paths -> [batch : Int, length : Int, late : BOOLEAN]]
  /\ torn \subseteq Tags /\ overlooked \subseteq Names \X Tags
  /\ again \subseteq Names /\ missed \subseteq Paths

(* The tags the handler has still to enter new under, or to take it from.  *)
Pending(n) == IF httpPc \in {"list", "unlist"} /\ n = new.name THEN left ELSE {}

(* A file that has a tag is found in the tag's graph, whatever parses,     *)
(* merges and unmerges have come before; only a graph that two threads     *)
(* wrote at once may have lost it, and a virtual file may be missing from  *)
(* a graph that the handler did not find.                                  *)
FilesListed ==
  \A f \in Files : \A t \in tags[f] \ torn :
    f \in dataFiles[t] \/ t \in Pending(f) \/ <<f, t>> \in overlooked

(* Conversely a graph lists a file that is not there, or has no data for   *)
(* it, only under a name that was merged when it was taken, after a task   *)
(* has missed its File or the handler the graph, or after such a race.     *)
StrayNames ==
  \A t \in Tags : \A f \in dataFiles[t] :
    \/ t \in tags[f] \cup torn \cup Pending(f)
    \/ <<f, t>> \in overlooked
    \/ f \in again \cup missed
    \/ f \in Paths /\ pc[f] = "find" /\ at[f] = t

(* A file's settings are those the client asked for last, except that a    *)
(* log's own batch size replaces one asked for while its task was queued.  *)
(* The length that is asked for a text log is stored as any other, though  *)
(* File.h and File.cpp say that it is not the client's to set: no property *)
(* asks for either.                                                        *)
TokenSettled ==
  \A p \in Paths :
    /\ p \notin TextLogs => length[p] = asked[p].length
    /\ pc[p] \notin {"none", "queued"} =>
         batch[p] = IF asked[p].late \/ BatchOf[p] = Unset THEN asked[p].batch ELSE BatchOf[p]

=============================================================================
