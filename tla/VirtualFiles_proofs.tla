------------------------- MODULE VirtualFiles_proofs -------------------------
(***************************************************************************)
(* Proofs about VirtualFiles: its types, that files and graphs know one    *)
(* another, and that token settings are those that were asked for.         *)
(***************************************************************************)
EXTENDS VirtualFiles, TLAPS

(* A path is registered as long as it has a task, which works on a graph   *)
(* that exists; what is not registered has no tags.                        *)
KindsOK ==
  /\ \A f \in Files : kind[f] = "none" => tags[f] = {}
  /\ \A f \in Files : kind[f] = "NORMAL" => f \in Paths
  /\ \A p \in Paths : kind[p] = "NORMAL" <=> pc[p] # "none"
  /\ \A p \in Paths : pc[p] \in {"create", "list", "find"} => at[p] \in Tags

(* Where the handler is in its loop over tags.                             *)
HandlerOK ==
  /\ httpPc \notin {"idle", "token"} => new.name \in Names
  /\ httpPc = "unlist" => kind[new.name] = "none"
  /\ httpPc = "list" => new.name \in again \/ left \subseteq tags[new.name]

(* A task that looks its File up has been listed.                          *)
FoundListed ==
  \A p \in Paths : pc[p] = "find" => at[p] \in torn \/ p \in dataFiles[at[p]]

(* Settings before BeforeParse.                                            *)
TokenOK ==
  \A p \in Paths :
    /\ pc[p] \in {"none", "queued"} => ~asked[p].late /\ batch[p] = asked[p].batch
    /\ pc[p] = "none" => asked[p].length = length[p]

IInv == TypeOK /\ KindsOK /\ HandlerOK /\ FoundListed /\ FilesListed /\ StrayNames
          /\ TokenOK /\ TokenSettled

Item == [file : Files, batch : Int, length : Int]

LEMMA InitInv == Init => IInv
<1> SUFFICES ASSUME Init PROVE IInv
  OBVIOUS
<1> USE DEF Init, Nobody, NotAsked, Files, Unset
<1>1. TypeOK
  BY DEF TypeOK
<1>2. KindsOK /\ HandlerOK /\ FoundListed /\ FilesListed /\ StrayNames /\ TokenOK /\ TokenSettled
  BY DEF KindsOK, HandlerOK, FoundListed, FilesListed, StrayNames, TokenOK, TokenSettled
<1> QED
  BY <1>1, <1>2 DEF IInv

(* An entry of a function of sets that is replaced by a set of the kind.   *)
LEMMA FunctionTypes ==
  ASSUME NEW D, NEW R, NEW f \in [D -> R], NEW d \in D, NEW r \in R
  PROVE  [f EXCEPT ![d] = r] \in [D -> R]
OBVIOUS

LEMMA TypeStep == IInv /\ [Next]_vars => TypeOK'
<1> SUFFICES ASSUME IInv, [Next]_vars PROVE TypeOK'
  OBVIOUS
<1> USE VirtualFilesConstantsOK
<1> USE DEF IInv, TypeOK, fileVars, tokenVars, taskVars, httpVars, history, Nobody, Files
<1>1. ASSUME NEW p \in Paths, Import(p) PROVE TypeOK'
  BY <1>1 DEF Import
<1>2. ASSUME NEW p \in Paths, BeforeParse(p) PROVE TypeOK'
  <2>1. batch' = [batch EXCEPT ![p] = BatchFromLog(p)] /\ BatchFromLog(p) \in Int
    BY <1>2 DEF BeforeParse, BatchFromLog
  <2> QED
    BY <1>2, <2>1 DEF BeforeParse
<1>3. ASSUME NEW p \in Paths, UpdateGraph(p) PROVE TypeOK'
  <2>1. PICK t \in TagsOf[p] :
          /\ at' = [at EXCEPT ![p] = t]
          /\ pc' = [pc EXCEPT ![p] = IF t \in graphs THEN Listing(p, t) ELSE "create"]
    BY <1>3 DEF UpdateGraph
  <2>2. t \in Tags
    OBVIOUS
  <2> QED
    BY <1>3, <2>1, <2>2 DEF UpdateGraph, Listing
<1>16. ASSUME NEW p \in Paths, CreateGraph(p) PROVE TypeOK'
  <2>1. at[p] \in Tags
    BY <1>16 DEF CreateGraph, KindsOK
  <2> QED
    BY <1>16, <2>1 DEF CreateGraph, Listing
<1>4. ASSUME NEW p \in Paths, ListFile(p) PROVE TypeOK'
  <2>1. at[p] \in Tags
    BY <1>4 DEF ListFile, KindsOK
  <2>2. dataFiles' \in [Tags -> SUBSET (Paths \cup Names)]
    <3>1. dataFiles \in [Tags -> SUBSET (Paths \cup Names)]
      OBVIOUS
    <3>2. \/ dataFiles' = [dataFiles EXCEPT ![at[p]] = dataFiles[at[p]] \cup {p}]
          \/ dataFiles' = dataFiles
      BY <1>4 DEF ListFile
    <3>3. dataFiles[at[p]] \cup {p} \in SUBSET (Paths \cup Names)
      BY <2>1, <3>1
    <3> QED
      BY ONLY <2>1, <3>1, <3>2, <3>3, FunctionTypes
  <2> QED
    BY <1>4, <2>2 DEF ListFile
<1>5. ASSUME NEW p \in Paths, UpdateData(p) PROVE TypeOK'
  <2>1. at[p] \in Tags
    BY <1>5 DEF UpdateData, KindsOK
  <2>2. tags' \in [Paths \cup Names -> SUBSET Tags] /\ missed' \subseteq Paths
    <3>1. tags \in [Paths \cup Names -> SUBSET Tags] /\ missed \subseteq Paths
      OBVIOUS
    <3>2. /\ \/ tags' = [tags EXCEPT ![p] = tags[p] \cup {at[p]}]
             \/ tags' = tags
          /\ missed' \in {missed, missed \cup {p}}
      BY <1>5 DEF UpdateData
    <3>3. p \in Paths \cup Names /\ tags[p] \cup {at[p]} \in SUBSET Tags
      BY <2>1, <3>1
    <3>4. missed' \subseteq Paths
      BY ONLY <3>1, <3>2, p \in Paths
    <3> QED
      BY ONLY <3>1, <3>2, <3>3, <3>4, FunctionTypes
  <2> QED
    BY <1>5, <2>2 DEF UpdateData
<1>6. ASSUME NEW name \in Names, NEW files \in SUBSET Paths, Merge(name, files) PROVE TypeOK'
  BY <1>6 DEF Merge
<1>7. ASSUME NEW name \in Names, UnMerge(name) PROVE TypeOK'
  BY <1>7 DEF UnMerge, TagsToClear
<1>8. ASSUME NEW list \in TokenLists, TokenSet(list) PROVE TypeOK'
  BY <1>8 DEF TokenSet
<1>9. CASE AddSubFile
  <2>1. PICK f \in left : /\ new' = [new EXCEPT !.tags = @ \cup tags[f]]
                          /\ left' = left \ {f}
    BY <1>9 DEF AddSubFile
  <2>2. httpPc = "collect" /\ f \in Paths
    BY <1>9 DEF AddSubFile
  <2> QED
    BY <1>9, <2>1, <2>2 DEF AddSubFile
<1>10. CASE StartRegister
  BY <1>10 DEF StartRegister
<1>11. CASE Register
  <2>1. new.name \in Names /\ new.tags \subseteq Tags
    BY <1>11 DEF Register, HandlerOK
  <2>2. /\ kind' \in [Paths \cup Names -> {"none", "NORMAL", "VISUAL"}]
        /\ tags' \in [Paths \cup Names -> SUBSET Tags]
        /\ again' \subseteq Names
    <3>1. /\ kind \in [Paths \cup Names -> {"none", "NORMAL", "VISUAL"}]
          /\ tags \in [Paths \cup Names -> SUBSET Tags]
          /\ again \subseteq Names
      OBVIOUS
    <3>2. \/ /\ kind' = [kind EXCEPT ![new.name] = "VISUAL"]
             /\ tags' = [tags EXCEPT ![new.name] = new.tags]
             /\ again' = again
          \/ kind' = kind /\ tags' = tags /\ again' = again \cup {new.name}
      BY <1>11 DEF Register
    <3> QED
      BY ONLY <2>1, <3>1, <3>2
  <2>3. httpPc' = "list" /\ left' = new.tags
        /\ UNCHANGED <<tokenVars, graphs, dataFiles, taskVars, new, items, torn, overlooked, missed>>
    BY <1>11 DEF Register
  <2> QED
    BY <2>1, <2>2, <2>3
<1>12. CASE ListVirtualFile \/ UnlistVirtualFile
  <2>1. httpPc \in {"list", "unlist"} /\ new.name \in Names
    BY <1>12 DEF ListVirtualFile, UnlistVirtualFile, HandlerOK
  <2>2. PICK t \in left :
          /\ left' = left \ {t}
          /\ \/ UNCHANGED <<dataFiles, torn>>
             \/ WriteTable(t, dataFiles[t] \cup {new.name})
             \/ WriteTable(t, dataFiles[t] \ {new.name})
          /\ overlooked' \in {overlooked, overlooked \cup {<<new.name, t>>}}
    BY <1>12 DEF ListVirtualFile, UnlistVirtualFile, Overlook
  <2>3. t \in Tags
    BY <2>1
  <2>6. overlooked' \subseteq Names \X Tags
    BY ONLY <2>1, <2>2, <2>3, overlooked \subseteq Names \X Tags
  <2>4. dataFiles' \in [Tags -> SUBSET (Paths \cup Names)] /\ torn' \subseteq Tags
    <3>1. dataFiles \in [Tags -> SUBSET (Paths \cup Names)] /\ torn \subseteq Tags
      OBVIOUS
    <3>2. /\ \/ dataFiles' = dataFiles
             \/ dataFiles' = [dataFiles EXCEPT ![t] = dataFiles[t] \cup {new.name}]
             \/ dataFiles' = [dataFiles EXCEPT ![t] = dataFiles[t] \ {new.name}]
          /\ torn' \in {torn, torn \cup {t}}
      BY <2>2 DEF WriteTable
    <3>3. /\ dataFiles[t] \cup {new.name} \in SUBSET (Paths \cup Names)
          /\ dataFiles[t] \ {new.name} \in SUBSET (Paths \cup Names)
      BY ONLY <2>1, <2>3, <3>1
    <3> QED
      BY ONLY <2>3, <3>1, <3>2, <3>3, FunctionTypes
  <2>5. UNCHANGED <<fileVars, tokenVars, graphs, taskVars, httpPc, new, items, again, missed>>
    BY <1>12 DEF ListVirtualFile, UnlistVirtualFile
  <2> QED
    BY <2>1, <2>2, <2>4, <2>5, <2>6
<1>13. CASE SetFileToken
  <2>0. /\ items # <<>> /\ items' = Tail(items) /\ items \in Seq(Item)
        /\ UNCHANGED <<fileVars, graphs, dataFiles, taskVars, httpPc, new, left, history>>
    BY <1>13 DEF SetFileToken, Item
  <2>1. Head(items) \in Item
    BY ONLY <2>0
  <2>2. items' \in Seq(Item)
    BY ONLY <2>0
  <2>3. /\ batch' \in [Paths -> Int] /\ length' \in [Paths -> Int]
        /\ asked' \in [Paths -> [batch : Int, length : Int, late : BOOLEAN]]
    <3>1. CASE kind[Head(items).file] = "NORMAL"
      <4> DEFINE i == Head(items)
      <4>1. i.file \in Paths /\ i.batch \in Int /\ i.length \in Int
        BY <2>1, <3>1 DEF KindsOK, Item
      <4>2. /\ batch' = [batch EXCEPT ![i.file] = i.batch]
            /\ length' = [length EXCEPT ![i.file] = i.length]
            /\ asked' = [asked EXCEPT ![i.file] =
                           [batch |-> i.batch, length |-> i.length,
                            late |-> pc[i.file] # "queued" /\ BatchOf[i.file] # Unset]]
        BY <1>13, <3>1 DEF SetFileToken
      <4> HIDE DEF i
      <4> QED
        BY <4>1, <4>2
    <3>2. CASE kind[Head(items).file] # "NORMAL"
      BY <1>13, <3>2 DEF SetFileToken
    <3> QED
      BY <3>1, <3>2
  <2> QED
    BY <2>0, <2>2, <2>3 DEF Item
<1>14. CASE Answer
  BY <1>14 DEF Answer
<1>15. CASE UNCHANGED vars
  BY <1>15 DEF vars
<1> QED
  BY <1>1, <1>2, <1>3, <1>4, <1>5, <1>6, <1>7, <1>8, <1>9, <1>10, <1>11, <1>12, <1>13, <1>14,
     <1>15, <1>16 DEF Next

LEMMA KindStep == IInv /\ [Next]_vars => KindsOK' /\ HandlerOK'
<1> SUFFICES ASSUME IInv, [Next]_vars PROVE KindsOK' /\ HandlerOK'
  OBVIOUS
<1>0. /\ KindsOK /\ HandlerOK
      /\ kind \in [Files -> {"none", "NORMAL", "VISUAL"}] /\ tags \in [Files -> SUBSET Tags]
      /\ pc \in [Paths -> {"none", "queued", "parse", "create", "list", "find"}]
      /\ at \in [Paths -> Tags \cup {"none"}]
      /\ Paths \subseteq Files /\ Names \subseteq Files
  BY DEF IInv, TypeOK, Files
<1> USE DEF fileVars, tokenVars, taskVars, httpVars, history
<1>1. ASSUME NEW p \in Paths, Import(p) PROVE KindsOK' /\ HandlerOK'
  <2>1. /\ kind[p] = "none" /\ httpPc = "idle" /\ UNCHANGED <<tags, at, httpVars>>
        /\ kind' = [kind EXCEPT ![p] = "NORMAL"] /\ pc' = [pc EXCEPT ![p] = "queued"]
    BY <1>1 DEF Import
  <2> QED
    BY <1>0, <2>1 DEF KindsOK, HandlerOK
<1>2. ASSUME NEW p \in Paths, BeforeParse(p) PROVE KindsOK' /\ HandlerOK'
  <2>1. /\ pc[p] = "queued" /\ UNCHANGED <<fileVars, at, httpVars, history>>
        /\ pc' = [pc EXCEPT ![p] = "parse"]
    BY <1>2 DEF BeforeParse
  <2> QED
    BY <1>0, <2>1 DEF KindsOK, HandlerOK
<1>3. ASSUME NEW p \in Paths, UpdateGraph(p) PROVE KindsOK' /\ HandlerOK'
  <2>1. PICK t \in TagsOf[p] :
          /\ at' = [at EXCEPT ![p] = t]
          /\ pc' = [pc EXCEPT ![p] = IF t \in graphs THEN Listing(p, t) ELSE "create"]
    BY <1>3 DEF UpdateGraph
  <2>2. t \in Tags /\ pc[p] = "parse" /\ UNCHANGED <<fileVars, httpVars, history>>
    BY <1>3, VirtualFilesConstantsOK DEF UpdateGraph
  <2>3. KindsOK'
    BY <1>0, <2>1, <2>2 DEF KindsOK, Listing
  <2> QED
    BY <1>0, <2>2, <2>3 DEF HandlerOK
<1>16. ASSUME NEW p \in Paths, CreateGraph(p) PROVE KindsOK' /\ HandlerOK'
  <2>1. /\ pc[p] = "create" /\ UNCHANGED <<fileVars, at, httpVars, history>>
        /\ pc' = [pc EXCEPT ![p] = Listing(p, at[p])]
    BY <1>16 DEF CreateGraph
  <2> QED
    BY <1>0, <2>1 DEF KindsOK, HandlerOK, Listing
<1>4. ASSUME NEW p \in Paths, ListFile(p) PROVE KindsOK' /\ HandlerOK'
  <2>1. /\ pc[p] = "list" /\ UNCHANGED <<fileVars, at, httpVars, history>>
        /\ pc' = [pc EXCEPT ![p] = "find"]
    BY <1>4 DEF ListFile
  <2> QED
    BY <1>0, <2>1 DEF KindsOK, HandlerOK
<1>5. ASSUME NEW p \in Paths, UpdateData(p) PROVE KindsOK' /\ HandlerOK'
  <2>1. /\ pc[p] = "find" /\ UNCHANGED <<kind, httpVars, again>>
        /\ at' = [at EXCEPT ![p] = "none"]
        /\ pc' = [pc EXCEPT ![p] = "parse"]
        /\ tags' \in {tags, [tags EXCEPT ![p] = @ \cup {at[p]}]}
    BY <1>5 DEF UpdateData
  <2>2. kind[p] = "NORMAL"
    BY <1>0, <2>1 DEF KindsOK
  <2>3. \A f \in Files : f # p => tags'[f] = tags[f]
    BY <1>0, <2>1
  <2>4. \A f \in Files : tags[f] \subseteq tags'[f]
    BY <1>0, <2>1
  <2>5. KindsOK'
    BY <1>0, <2>1, <2>2, <2>3 DEF KindsOK
  <2>6. HandlerOK'
    BY <1>0, <2>1, <2>4 DEF HandlerOK
  <2> QED
    BY <2>5, <2>6
<1>6. ASSUME NEW name \in Names, NEW files \in SUBSET Paths, Merge(name, files)
      PROVE  KindsOK' /\ HandlerOK'
  <2>1. /\ httpPc' = "collect" /\ UNCHANGED <<fileVars, taskVars>>
        /\ new'.name = name
    BY <1>6 DEF Merge, Nobody
  <2> QED
    BY <1>0, <2>1 DEF KindsOK, HandlerOK
<1>7. ASSUME NEW name \in Names, UnMerge(name) PROVE KindsOK' /\ HandlerOK'
  <2>1. /\ kind[name] = "VISUAL" /\ httpPc' = "unlist" /\ new'.name = name
        /\ kind' = [kind EXCEPT ![name] = "none"] /\ tags' = [tags EXCEPT ![name] = {}]
        /\ UNCHANGED taskVars
    BY <1>7 DEF UnMerge, Nobody
  <2> QED
    BY <1>0, <2>1 DEF KindsOK, HandlerOK
<1>8. ASSUME NEW list \in TokenLists, TokenSet(list) PROVE KindsOK' /\ HandlerOK'
  BY <1>0, <1>8 DEF TokenSet, KindsOK, HandlerOK
<1>9. CASE AddSubFile
  <2>1. PICK f \in left : new' = [new EXCEPT !.tags = @ \cup tags[f]]
    BY <1>9 DEF AddSubFile
  <2>2. httpPc = "collect" /\ httpPc' = httpPc /\ UNCHANGED <<fileVars, taskVars>>
    BY <1>9 DEF AddSubFile
  <2>3. new \in [name : Names \cup {NoName}, tags : SUBSET Tags]
    BY DEF IInv, TypeOK
  <2>4. new'.name = new.name
    BY <2>1, <2>3
  <2> QED
    BY <1>0, <2>2, <2>4 DEF KindsOK, HandlerOK
<1>10. CASE StartRegister
  BY <1>0, <1>10 DEF StartRegister, KindsOK, HandlerOK
<1>11. CASE Register
  <2>1. /\ httpPc = "register" /\ httpPc' = "list" /\ left' = new.tags
        /\ UNCHANGED <<taskVars, new>> /\ new.name \in Names
    BY <1>0, <1>11 DEF Register, HandlerOK
  <2>2. CASE kind[new.name] = "none"
    <3>1. /\ kind' = [kind EXCEPT ![new.name] = "VISUAL"]
          /\ tags' = [tags EXCEPT ![new.name] = new.tags]
      BY <1>11, <2>2 DEF Register
    <3> QED
      BY <1>0, <2>1, <2>2, <3>1 DEF KindsOK, HandlerOK
  <2>3. CASE kind[new.name] # "none"
    BY <1>0, <1>11, <2>1, <2>3 DEF Register, KindsOK, HandlerOK
  <2> QED
    BY <2>2, <2>3
<1>12. CASE ListVirtualFile \/ UnlistVirtualFile
  <2>1. /\ left' \subseteq left /\ UNCHANGED <<fileVars, taskVars, httpPc, new, again>>
    BY <1>12 DEF ListVirtualFile, UnlistVirtualFile
  <2> QED
    BY <1>0, <2>1 DEF KindsOK, HandlerOK
<1>13. CASE SetFileToken
  BY <1>0, <1>13 DEF SetFileToken, KindsOK, HandlerOK
<1>14. CASE Answer
  BY <1>0, <1>14 DEF Answer, KindsOK, HandlerOK
<1>15. CASE UNCHANGED vars
  BY <1>0, <1>15 DEF vars, KindsOK, HandlerOK
<1> QED
  BY <1>1, <1>2, <1>3, <1>4, <1>5, <1>6, <1>7, <1>8, <1>9, <1>10, <1>11, <1>12, <1>13, <1>14,
     <1>15, <1>16 DEF Next

-----------------------------------------------------------------------------
(* Steps that leave the tables alone and take nothing from the handler.    *)
LEMMA TablesAlone ==
  ASSUME IInv, UNCHANGED <<tags, dataFiles, torn, overlooked, again, missed>>,
         \A f \in Files : Pending(f)' = Pending(f),
         \A p \in Paths : pc'[p] = "find" <=> pc[p] = "find",
         \A p \in Paths : pc[p] = "find" => at'[p] = at[p]
  PROVE  FoundListed' /\ FilesListed' /\ StrayNames'
<1>1. Paths \subseteq Files /\ \A t \in Tags : dataFiles[t] \subseteq Files
  BY DEF IInv, TypeOK, Files
<1>2. FoundListed'
  BY DEF IInv, FoundListed
<1>3. FilesListed'
  BY DEF IInv, FilesListed
<1>4. StrayNames'
  BY <1>1 DEF IInv, StrayNames
<1> QED
  BY <1>2, <1>3, <1>4

(* A write of the handler: what it adds is a tag's new entry, what it      *)
(* takes away is an entry of a file that has gone.                         *)
LEMMA TablesWritten ==
  IInv /\ (ListVirtualFile \/ UnlistVirtualFile) => FoundListed' /\ FilesListed' /\ StrayNames'
<1> SUFFICES ASSUME IInv, ListVirtualFile \/ UnlistVirtualFile
             PROVE  FoundListed' /\ FilesListed' /\ StrayNames'
  OBVIOUS
<1> DEFINE name == new.name
<1>1. /\ httpPc \in {"list", "unlist"} /\ UNCHANGED <<fileVars, taskVars, httpPc, new>>
      /\ UNCHANGED <<again, missed>> /\ name \in Names
      /\ httpPc = "unlist" => kind[name] = "none"
      /\ httpPc = "list" => name \in again \/ left \subseteq tags[name]
  BY DEF ListVirtualFile, UnlistVirtualFile, IInv, HandlerOK
<1>2. PICK t \in left :
        /\ left' = left \ {t}
        /\ \/ httpPc = "list" /\ name \in dataFiles[t] /\ UNCHANGED <<dataFiles, torn>>
           \/ httpPc = "list" /\ WriteTable(t, dataFiles[t] \cup {name})
           \/ httpPc = "unlist" /\ WriteTable(t, dataFiles[t] \ {name})
           \/ <<name, t>> \in overlooked' /\ UNCHANGED <<dataFiles, torn>>
        /\ overlooked \subseteq overlooked'
  BY DEF ListVirtualFile, UnlistVirtualFile, Overlook
<1>3. /\ t \in Tags /\ dataFiles \in [Tags -> SUBSET Files] /\ torn \subseteq Tags
      /\ Names \subseteq Files /\ tags \in [Files -> SUBSET Tags]
  BY <1>1, <1>2 DEF IInv, TypeOK, Files
<1>4. \/ httpPc = "list" /\ name \in dataFiles[t] /\ dataFiles' = dataFiles /\ torn' = torn
      \/ t \in torn' /\ dataFiles' = dataFiles
      \/ <<name, t>> \in overlooked' /\ dataFiles' = dataFiles
      \/ httpPc = "list" /\ dataFiles' = [dataFiles EXCEPT ![t] = dataFiles[t] \cup {name}]
      \/ httpPc = "unlist" /\ dataFiles' = [dataFiles EXCEPT ![t] = dataFiles[t] \ {name}]
  BY <1>2, <1>3 DEF WriteTable
<1>5. torn \subseteq torn' /\ torn' \subseteq torn \cup {t}
  BY <1>2 DEF WriteTable
<1>6. \A u \in Tags : \A f \in Files : (f # name \/ u # t) => (f \in dataFiles'[u] <=> f \in dataFiles[u])
  <2> HIDE DEF name
  <2> SUFFICES ASSUME NEW u \in Tags, NEW f \in Files, f # name \/ u # t
               PROVE  f \in dataFiles'[u] <=> f \in dataFiles[u]
    OBVIOUS
  <2>1. CASE dataFiles' = dataFiles
    BY <2>1
  <2>2. CASE dataFiles' = [dataFiles EXCEPT ![t] = dataFiles[t] \cup {name}]
    <3>1. dataFiles'[u] = IF u = t THEN dataFiles[t] \cup {name} ELSE dataFiles[u]
      BY <1>3, <2>2
    <3> QED
      BY <3>1
  <2>3. CASE dataFiles' = [dataFiles EXCEPT ![t] = dataFiles[t] \ {name}]
    <3>1. dataFiles'[u] = IF u = t THEN dataFiles[t] \ {name} ELSE dataFiles[u]
      BY <1>3, <2>3
    <3> QED
      BY <3>1
  <2> QED
    BY <1>4, <2>1, <2>2, <2>3
<1>7. httpPc = "list" => t \in torn' \/ name \in dataFiles'[t] \/ <<name, t>> \in overlooked'
  BY <1>3, <1>4
<1>8. httpPc = "unlist" => t \in torn' \/ name \notin dataFiles'[t] \/ <<name, t>> \in overlooked'
  BY <1>3, <1>4
<1>9. httpPc = "unlist" => tags[name] = {} /\ \A p \in Paths : pc[p] = "find" => p # name
  BY <1>1, <1>3 DEF IInv, KindsOK
<1>10. /\ \A f \in Files : Pending(f) = (IF f = name THEN left ELSE {})
       /\ \A g \in Files : Pending(g)' = (IF g = name THEN left \ {t} ELSE {})
  BY <1>1, <1>2 DEF Pending
<1> HIDE DEF name
<1>list. httpPc = "list" => \A u \in Tags : dataFiles[u] \subseteq dataFiles'[u]
  BY <1>3, <1>4
<1>11. FoundListed'
  <2> SUFFICES ASSUME NEW p \in Paths, pc[p] = "find"
               PROVE  at[p] \in torn' \/ p \in dataFiles'[at[p]]
    BY <1>1 DEF FoundListed, taskVars
  <2>1. at[p] \in torn \/ p \in dataFiles[at[p]]
    BY DEF IInv, FoundListed
  <2>2. at[p] \in Tags /\ p \in Files
    BY DEF IInv, KindsOK, Files
  <2> QED
    BY <1>1, <1>5, <1>6, <1>9, <1>list, <2>1, <2>2
<1>12. FilesListed'
  <2> SUFFICES ASSUME NEW f \in Files, NEW u \in tags[f] \ torn'
               PROVE  f \in dataFiles'[u] \/ u \in Pending(f)' \/ <<f, u>> \in overlooked'
    BY <1>1 DEF FilesListed, fileVars
  <2>1. u \in Tags /\ (f \in dataFiles[u] \/ u \in Pending(f) \/ <<f, u>> \in overlooked)
    BY <1>3, <1>5 DEF IInv, FilesListed
  <2> QED
    BY <1>1, <1>2, <1>6, <1>7, <1>9, <1>10, <2>1
<1>13. StrayNames'
  <2> SUFFICES ASSUME NEW u \in Tags, NEW f \in dataFiles'[u]
               PROVE  \/ u \in tags[f] \cup torn' \cup Pending(f)'
                      \/ <<f, u>> \in overlooked'
                      \/ f \in again \cup missed
                      \/ f \in Paths /\ pc[f] = "find" /\ at[f] = u
    BY <1>1 DEF StrayNames, fileVars, taskVars
  <2>1. f \in Files
    <3>1. dataFiles' \in [Tags -> SUBSET Files]
      <4>1. name \in Files /\ dataFiles[t] \subseteq Files
        BY <1>1, <1>3 DEF IInv
      <4>2. dataFiles[t] \cup {name} \in SUBSET Files /\ dataFiles[t] \ {name} \in SUBSET Files
        BY <4>1
      <4> QED
        BY <1>3, <1>4, <4>2
    <3> QED
      BY <3>1
  <2>2. CASE f = name /\ u = t
    BY <1>1, <1>2, <1>8, <2>2
  <2>3. CASE f # name \/ u # t
    <3>1. f \in dataFiles[u]
      BY <1>6, <2>1, <2>3
    <3>2. \/ u \in tags[f] \cup torn \cup Pending(f)
          \/ <<f, u>> \in overlooked
          \/ f \in again \cup missed
          \/ f \in Paths /\ pc[f] = "find" /\ at[f] = u
      BY <3>1 DEF IInv, StrayNames
    <3> QED
      BY <1>2, <1>5, <1>10, <2>1, <2>3, <3>2
  <2> QED
    BY <2>2, <2>3
<1> QED
  BY <1>11, <1>12, <1>13

LEMMA TablesStep == IInv /\ [Next]_vars => FoundListed' /\ FilesListed' /\ StrayNames'
<1> SUFFICES ASSUME IInv, [Next]_vars PROVE FoundListed' /\ FilesListed' /\ StrayNames'
  OBVIOUS
<1>0. /\ KindsOK /\ HandlerOK /\ FoundListed /\ FilesListed /\ StrayNames
      /\ tags \in [Files -> SUBSET Tags] /\ dataFiles \in [Tags -> SUBSET Files]
      /\ pc \in [Paths -> {"none", "queued", "parse", "create", "list", "find"}]
      /\ at \in [Paths -> Tags \cup {"none"}]
      /\ Paths \subseteq Files /\ Names \subseteq Files
  BY DEF IInv, TypeOK, Files
<1> USE DEF fileVars, tokenVars, taskVars, httpVars, history
<1>1. ASSUME NEW p \in Paths, Import(p) PROVE FoundListed' /\ FilesListed' /\ StrayNames'
  <2>1. /\ kind[p] = "none" /\ pc' = [pc EXCEPT ![p] = "queued"]
        /\ UNCHANGED <<tags, dataFiles, at, httpVars, history>>
    BY <1>1 DEF Import
  <2>2. pc[p] # "find"
    BY <1>0, <2>1 DEF KindsOK
  <2> QED
    BY <1>0, <2>1, <2>2, TablesAlone DEF Pending
<1>2. ASSUME NEW p \in Paths, BeforeParse(p) PROVE FoundListed' /\ FilesListed' /\ StrayNames'
  <2>1. /\ pc[p] = "queued" /\ pc' = [pc EXCEPT ![p] = "parse"]
        /\ UNCHANGED <<tags, dataFiles, at, httpVars, history>>
    BY <1>2 DEF BeforeParse
  <2> QED
    BY <1>0, <2>1, TablesAlone DEF Pending
<1>3. ASSUME NEW p \in Paths, UpdateGraph(p) PROVE FoundListed' /\ FilesListed' /\ StrayNames'
  <2>1. PICK t \in TagsOf[p] :
          /\ at' = [at EXCEPT ![p] = t]
          /\ pc' = [pc EXCEPT ![p] = IF t \in graphs THEN Listing(p, t) ELSE "create"]
    BY <1>3 DEF UpdateGraph
  <2>2. /\ t \in Tags /\ pc[p] = "parse"
        /\ UNCHANGED <<tags, dataFiles, httpVars, history>>
    BY <1>3, VirtualFilesConstantsOK DEF UpdateGraph
  <2>3. \A f \in Files : Pending(f)' = Pending(f)
    BY <2>2 DEF Pending
  <2>4. \A q \in Paths : q # p => pc'[q] = pc[q] /\ at'[q] = at[q]
    BY <1>0, <2>1
  <2>5. pc'[p] = "find" => at'[p] = t /\ p \in dataFiles[t]
    BY <1>0, <2>1 DEF Listing, ListsNew
  <2>6. FoundListed'
    BY <1>0, <2>2, <2>4, <2>5 DEF FoundListed
  <2>7. FilesListed'
    BY <1>0, <2>2, <2>3 DEF FilesListed
  <2>8. StrayNames'
    <3> SUFFICES ASSUME NEW u \in Tags, NEW f \in dataFiles[u]
                 PROVE  \/ u \in tags[f] \cup torn \cup Pending(f)'
                        \/ <<f, u>> \in overlooked
                        \/ f \in again \cup missed
                        \/ f \in Paths /\ pc'[f] = "find" /\ at'[f] = u
      BY <2>2 DEF StrayNames
    <3>1. f \in Files
      BY <1>0
    <3>2. \/ u \in tags[f] \cup torn \cup Pending(f)
          \/ <<f, u>> \in overlooked
          \/ f \in again \cup missed
          \/ f \in Paths /\ pc[f] = "find" /\ at[f] = u
      BY <1>0 DEF StrayNames
    <3> QED
      BY <2>2, <2>3, <2>4, <3>1, <3>2
  <2> QED
    BY <2>6, <2>7, <2>8
<1>15. ASSUME NEW p \in Paths, CreateGraph(p) PROVE FoundListed' /\ FilesListed' /\ StrayNames'
  <2>1. /\ pc[p] = "create" /\ pc' = [pc EXCEPT ![p] = Listing(p, at[p])]
        /\ UNCHANGED <<tags, dataFiles, at, httpVars, history>>
    BY <1>15 DEF CreateGraph
  <2>2. \A f \in Files : Pending(f)' = Pending(f)
    BY <2>1 DEF Pending
  <2>3. \A q \in Paths : q # p => pc'[q] = pc[q]
    BY <1>0, <2>1
  <2>4. pc'[p] = "find" => p \in dataFiles[at[p]]
    BY <1>0, <2>1 DEF Listing, ListsNew
  <2>5. FoundListed'
    BY <1>0, <2>1, <2>3, <2>4 DEF FoundListed
  <2>6. FilesListed'
    BY <1>0, <2>1, <2>2 DEF FilesListed
  <2>7. StrayNames'
    BY <1>0, <2>1, <2>2, <2>3 DEF StrayNames
  <2> QED
    BY <2>5, <2>6, <2>7
<1>4. ASSUME NEW p \in Paths, ListFile(p) PROVE FoundListed' /\ FilesListed' /\ StrayNames'
  <2>1. /\ pc[p] = "list" /\ pc' = [pc EXCEPT ![p] = "find"]
        /\ \/ dataFiles' = [dataFiles EXCEPT ![at[p]] = dataFiles[at[p]] \cup {p}]
           \/ at[p] \in torn /\ dataFiles' = dataFiles
        /\ UNCHANGED <<tags, at, httpVars, history>>
    BY <1>4 DEF ListFile
  <2>2. at[p] \in Tags
    BY <1>0, <2>1 DEF KindsOK
  <2>3. \A f \in Files : Pending(f)' = Pending(f)
    BY <2>1 DEF Pending
  <2>4. /\ \A u \in Tags : dataFiles[u] \subseteq dataFiles'[u]
        /\ \A u \in Tags : \A f \in dataFiles'[u] : f \in dataFiles[u] \/ (f = p /\ u = at[p])
        /\ at[p] \in torn \/ p \in dataFiles'[at[p]]
    BY <1>0, <2>1, <2>2
  <2>5. pc'[p] = "find" /\ \A q \in Paths : q # p => pc'[q] = pc[q]
    BY <1>0, <2>1
  <2>6. FoundListed'
    <3> SUFFICES ASSUME NEW q \in Paths, pc'[q] = "find"
                 PROVE  at[q] \in torn \/ q \in dataFiles'[at[q]]
      BY <2>1 DEF FoundListed
    <3>1. CASE q = p
      BY <2>4, <3>1
    <3>2. CASE q # p
      <4>1. pc[q] = "find"
        BY <2>5, <3>2
      <4>2. at[q] \in Tags
        BY <1>0, <4>1 DEF KindsOK
      <4> QED
        BY <1>0, <2>4, <4>1, <4>2 DEF FoundListed
    <3> QED
      BY <3>1, <3>2
  <2>7. FilesListed'
    <3> SUFFICES ASSUME NEW f \in Files, NEW u \in tags[f] \ torn
                 PROVE  f \in dataFiles'[u] \/ u \in Pending(f) \/ <<f, u>> \in overlooked
      BY <2>1, <2>3 DEF FilesListed
    <3> QED
      BY <1>0, <2>4 DEF FilesListed
  <2>8. StrayNames'
    <3> SUFFICES ASSUME NEW u \in Tags, NEW f \in dataFiles'[u]
                 PROVE  \/ u \in tags[f] \cup torn \cup Pending(f)'
                        \/ <<f, u>> \in overlooked
                        \/ f \in again \cup missed
                        \/ f \in Paths /\ pc'[f] = "find" /\ at[f] = u
      BY <2>1 DEF StrayNames
    <3>1. CASE f = p /\ u = at[p]
      BY <2>5, <3>1
    <3>2. CASE ~(f = p /\ u = at[p])
      <4>1. f \in dataFiles[u]
        BY <2>4, <3>2
      <4>2. f \in Files
        BY <1>0, <4>1
      <4>3. \/ u \in tags[f] \cup torn \cup Pending(f)
            \/ <<f, u>> \in overlooked
            \/ f \in again \cup missed
            \/ f \in Paths /\ pc[f] = "find" /\ at[f] = u
        BY <1>0, <4>1 DEF StrayNames
      <4> QED
        BY <2>3, <2>5, <4>2, <4>3
    <3> QED
      BY <3>1, <3>2
  <2> QED
    BY <2>6, <2>7, <2>8
<1>5. ASSUME NEW p \in Paths, UpdateData(p) PROVE FoundListed' /\ FilesListed' /\ StrayNames'
  <2>1. /\ pc[p] = "find" /\ pc' = [pc EXCEPT ![p] = "parse"]
        /\ UNCHANGED <<kind, dataFiles, httpVars, torn, overlooked, again>>
        /\ at' = [at EXCEPT ![p] = "none"]
    BY <1>5 DEF UpdateData
  <2>2. kind[p] = "NORMAL" /\ at[p] \in Tags
    BY <1>0, <2>1 DEF KindsOK
  <2>3. \/ tags' = [tags EXCEPT ![p] = tags[p] \cup {at[p]}] /\ missed' = missed
        \/ tags' = tags /\ missed' = missed \cup {p}
    BY <1>5, <2>2 DEF UpdateData
  <2>4. \A f \in Files : Pending(f)' = Pending(f)
    BY <2>1 DEF Pending
  <2>5. /\ \A f \in Files : tags[f] \subseteq tags'[f]
        /\ \A f \in Files : \A u \in tags'[f] : u \in tags[f] \/ (f = p /\ u = at[p])
        /\ missed \subseteq missed'
        /\ at[p] \in tags'[p] \/ p \in missed'
    BY <1>0, <2>3
  <2>6. /\ \A q \in Paths : pc'[q] = "find" <=> q # p /\ pc[q] = "find"
        /\ \A q \in Paths : q # p => at'[q] = at[q]
    BY <1>0, <2>1
  <2>7. FoundListed'
    BY <1>0, <2>1, <2>6 DEF FoundListed
  <2>8. FilesListed'
    <3> SUFFICES ASSUME NEW f \in Files, NEW u \in tags'[f] \ torn
                 PROVE  f \in dataFiles[u] \/ u \in Pending(f) \/ <<f, u>> \in overlooked
      BY <2>1, <2>4 DEF FilesListed
    <3> QED
      BY <1>0, <2>1, <2>5 DEF FilesListed, FoundListed
  <2>9. StrayNames'
    <3> SUFFICES ASSUME NEW u \in Tags, NEW f \in dataFiles[u]
                 PROVE  \/ u \in tags'[f] \cup torn \cup Pending(f)'
                        \/ <<f, u>> \in overlooked
                        \/ f \in again \cup missed'
                        \/ f \in Paths /\ pc'[f] = "find" /\ at'[f] = u
      BY <2>1 DEF StrayNames
    <3>1. f \in Files
      BY <1>0
    <3>2. \/ u \in tags[f] \cup torn \cup Pending(f)
          \/ <<f, u>> \in overlooked
          \/ f \in again \cup missed
          \/ f \in Paths /\ pc[f] = "find" /\ at[f] = u
      BY <1>0 DEF StrayNames
    <3> QED
      BY <2>4, <2>5, <2>6, <3>1, <3>2
  <2> QED
    BY <2>7, <2>8, <2>9
<1>6. ASSUME NEW name \in Names, NEW files \in SUBSET Paths, Merge(name, files)
      PROVE  FoundListed' /\ FilesListed' /\ StrayNames'
  <2>1. /\ httpPc = "idle" /\ httpPc' = "collect"
        /\ UNCHANGED <<tags, dataFiles, taskVars, history>>
    BY <1>6 DEF Merge
  <2> QED
    BY <2>1, TablesAlone DEF Pending
<1>7. ASSUME NEW name \in Names, UnMerge(name) PROVE FoundListed' /\ FilesListed' /\ StrayNames'
  <2>1. /\ httpPc = "idle" /\ httpPc' = "unlist" /\ new'.name = name /\ left' = tags[name]
        /\ tags' = [tags EXCEPT ![name] = {}]
        /\ UNCHANGED <<dataFiles, taskVars, history>>
    BY <1>7 DEF UnMerge, TagsToClear, Nobody
  <2>2. /\ \A f \in Files : Pending(f) = {}
        /\ \A f \in Files : Pending(f)' = IF f = name THEN tags[name] ELSE {}
    BY <2>1 DEF Pending
  <2>3. \A f \in Files : tags'[f] = IF f = name THEN {} ELSE tags[f]
    BY <1>0, <2>1
  <2>4. FoundListed'
    BY <1>0, <2>1 DEF FoundListed
  <2>5. FilesListed'
    BY <1>0, <2>1, <2>2, <2>3 DEF FilesListed
  <2>6. StrayNames'
    <3> SUFFICES ASSUME NEW u \in Tags, NEW f \in dataFiles[u]
                 PROVE  \/ u \in tags'[f] \cup torn \cup Pending(f)'
                        \/ <<f, u>> \in overlooked
                        \/ f \in again \cup missed
                        \/ f \in Paths /\ pc[f] = "find" /\ at[f] = u
      BY <2>1 DEF StrayNames
    <3>1. f \in Files
      BY <1>0
    <3>2. \/ u \in tags[f] \cup torn
          \/ <<f, u>> \in overlooked
          \/ f \in again \cup missed
          \/ f \in Paths /\ pc[f] = "find" /\ at[f] = u
      BY <1>0, <2>2, <3>1 DEF StrayNames
    <3> QED
      BY <2>2, <2>3, <3>1, <3>2
  <2> QED
    BY <2>4, <2>5, <2>6
<1>8. ASSUME NEW list \in TokenLists, TokenSet(list) PROVE FoundListed' /\ FilesListed' /\ StrayNames'
  BY <1>8, TablesAlone DEF TokenSet, Pending
<1>9. CASE AddSubFile \/ StartRegister
  BY <1>9, TablesAlone DEF AddSubFile, StartRegister, Pending
<1>10. CASE Register
  <2>1. /\ httpPc = "register" /\ httpPc' = "list" /\ left' = new.tags
        /\ UNCHANGED <<dataFiles, taskVars, new, torn, overlooked, missed>> /\ new.name \in Names
        /\ again \subseteq again'
    BY <1>0, <1>10 DEF Register, HandlerOK
  <2>2. /\ \A f \in Files : Pending(f) = {}
        /\ \A f \in Files : Pending(f)' = IF f = new.name THEN new.tags ELSE {}
    BY <2>1 DEF Pending
  <2>3. /\ \A f \in Files : f # new.name => tags'[f] = tags[f]
        /\ tags'[new.name] \in {tags[new.name], new.tags}
        /\ tags[new.name] \subseteq tags'[new.name]
    BY <1>0, <1>10, <2>1 DEF Register, KindsOK
  <2>4. FoundListed'
    BY <1>0, <2>1 DEF FoundListed
  <2>5. FilesListed'
    BY <1>0, <2>1, <2>2, <2>3 DEF FilesListed
  <2>6. StrayNames'
    <3> SUFFICES ASSUME NEW u \in Tags, NEW f \in dataFiles[u]
                 PROVE  \/ u \in tags'[f] \cup torn \cup Pending(f)'
                        \/ <<f, u>> \in overlooked
                        \/ f \in again' \cup missed
                        \/ f \in Paths /\ pc[f] = "find" /\ at[f] = u
      BY <2>1 DEF StrayNames
    <3>1. f \in Files
      BY <1>0
    <3>2. tags[f] \subseteq tags'[f]
      BY <2>3, <3>1
    <3> QED
      BY <1>0, <2>1, <2>2, <3>1, <3>2 DEF StrayNames
  <2> QED
    BY <2>4, <2>5, <2>6
<1>11. CASE ListVirtualFile \/ UnlistVirtualFile
  BY <1>11, TablesWritten
<1>12. CASE SetFileToken
  BY <1>12, TablesAlone DEF SetFileToken, Pending
<1>13. CASE Answer
  BY <1>13, TablesAlone DEF Answer, Pending
<1>14. CASE UNCHANGED vars
  BY <1>14, TablesAlone DEF vars, Pending
<1> QED
  BY <1>1, <1>2, <1>3, <1>4, <1>5, <1>6, <1>7, <1>8, <1>9, <1>10, <1>11, <1>12, <1>13, <1>14,
     <1>15 DEF Next

-----------------------------------------------------------------------------
LEMMA TokenStep == IInv /\ [Next]_vars => TokenOK' /\ TokenSettled'
<1> SUFFICES ASSUME IInv, [Next]_vars PROVE TokenOK' /\ TokenSettled'
  OBVIOUS
<1>0. /\ KindsOK /\ TokenOK /\ TokenSettled
      /\ batch \in [Paths -> Int] /\ length \in [Paths -> Int]
      /\ asked \in [Paths -> [batch : Int, length : Int, late : BOOLEAN]]
      /\ pc \in [Paths -> {"none", "queued", "parse", "create", "list", "find"}]
  BY DEF IInv, TypeOK
<1> USE DEF tokenVars, taskVars
<1>1. ASSUME UNCHANGED tokenVars,
             \A p \in Paths : \/ pc'[p] = pc[p]
                              \/ pc[p] = "none" /\ pc'[p] = "queued"
                              \/ pc[p] \notin {"none", "queued"} /\ pc'[p] \notin {"none", "queued"}
      PROVE  TokenOK' /\ TokenSettled'
  BY <1>0, <1>1 DEF TokenOK, TokenSettled
<1>2. ASSUME NEW p \in Paths, BeforeParse(p) PROVE TokenOK' /\ TokenSettled'
  <2>1. /\ pc[p] = "queued" /\ pc' = [pc EXCEPT ![p] = "parse"]
        /\ batch' = [batch EXCEPT ![p] = BatchFromLog(p)] /\ UNCHANGED <<length, asked>>
    BY <1>2 DEF BeforeParse
  <2>2. /\ pc'[p] = "parse" /\ batch'[p] = IF BatchOf[p] = Unset THEN batch[p] ELSE BatchOf[p]
        /\ \A q \in Paths : q # p => pc'[q] = pc[q] /\ batch'[q] = batch[q]
    BY <1>0, <2>1 DEF BatchFromLog
  <2>3. ~asked[p].late /\ batch[p] = asked[p].batch
    BY <1>0, <2>1 DEF TokenOK
  <2>4. TokenOK'
    BY <1>0, <2>1, <2>2 DEF TokenOK
  <2>5. TokenSettled'
    BY <1>0, <2>1, <2>2, <2>3 DEF TokenSettled
  <2> QED
    BY <2>4, <2>5
<1>3. CASE SetFileToken
  <2> DEFINE item == Head(items)
  <2>1. CASE kind[item.file] = "NORMAL"
    <3>1. /\ batch' = [batch EXCEPT ![item.file] = item.batch]
          /\ length' = [length EXCEPT ![item.file] = item.length]
          /\ asked' = [asked EXCEPT ![item.file] =
                         [batch |-> item.batch, length |-> item.length,
                          late |-> pc[item.file] # "queued"
                                          /\ BatchOf[item.file] # Unset]]
          /\ pc' = pc /\ items # <<>>
      BY <1>3, <2>1 DEF SetFileToken
    <3>2. item.file \in Files
      <4>1. items \in Seq(Item)
        BY DEF IInv, TypeOK, Item
      <4>2. item \in Item
        BY ONLY <3>1, <4>1
      <4> QED
        BY <4>2 DEF Item
    <3>3. item.file \in Paths /\ pc[item.file] # "none"
      BY <1>0, <2>1, <3>2 DEF KindsOK
    <3> HIDE DEF item
    <3>4. /\ batch'[item.file] = item.batch /\ length'[item.file] = item.length
          /\ asked'[item.file] = [batch |-> item.batch, length |-> item.length,
                                  late |-> pc[item.file] # "queued"
                                          /\ BatchOf[item.file] # Unset]
          /\ \A q \in Paths : q # item.file =>
               batch'[q] = batch[q] /\ length'[q] = length[q] /\ asked'[q] = asked[q]
      BY <1>0, <3>1, <3>3
    <3>5. TokenOK'
      BY <1>0, <3>1, <3>3, <3>4 DEF TokenOK
    <3>6. TokenSettled'
      BY <1>0, <3>1, <3>3, <3>4 DEF TokenSettled
    <3> QED
      BY <3>5, <3>6
  <2>2. CASE kind[item.file] # "NORMAL"
    BY <1>1, <1>3, <2>2 DEF SetFileToken
  <2> QED
    BY <2>1, <2>2
<1>4. ASSUME NEW p \in Paths, Import(p) PROVE TokenOK' /\ TokenSettled'
  <2>1. /\ kind[p] = "none" /\ pc' = [pc EXCEPT ![p] = "queued"] /\ UNCHANGED tokenVars
    BY <1>4 DEF Import
  <2>2. p \in Files
    BY DEF Files
  <2>3. pc[p] = "none"
    BY <1>0, <2>1, <2>2 DEF KindsOK
  <2> QED
    BY <1>0, <1>1, <2>1, <2>3
<1>5. ASSUME NEW p \in Paths,
             UpdateGraph(p) \/ CreateGraph(p) \/ ListFile(p) \/ UpdateData(p)
      PROVE  TokenOK' /\ TokenSettled'
  <2>1. /\ pc[p] \notin {"none", "queued"} /\ UNCHANGED tokenVars
        /\ \E to \in {"create", "list", "find", "parse"} : pc' = [pc EXCEPT ![p] = to]
    BY <1>5 DEF UpdateGraph, CreateGraph, Listing, ListFile, UpdateData
  <2> QED
    BY <1>0, <1>1, <2>1
<1>6. ASSUME UNCHANGED <<tokenVars, pc>> PROVE TokenOK' /\ TokenSettled'
  BY <1>1, <1>6
<1>7. ASSUME NEW name \in Names,
             (\E files \in SUBSET Paths : Merge(name, files)) \/ UnMerge(name)
      PROVE  TokenOK' /\ TokenSettled'
  BY <1>6, <1>7 DEF Merge, UnMerge
<1>8. ASSUME NEW list \in TokenLists, TokenSet(list) PROVE TokenOK' /\ TokenSettled'
  BY <1>6, <1>8 DEF TokenSet
<1>9. CASE \/ AddSubFile \/ StartRegister \/ Register \/ ListVirtualFile \/ UnlistVirtualFile
           \/ Answer \/ UNCHANGED vars
  BY <1>6, <1>9 DEF AddSubFile, StartRegister, Register, ListVirtualFile, UnlistVirtualFile,
     Answer, vars
<1> QED
  BY <1>2, <1>3, <1>4, <1>5, <1>7, <1>8, <1>9 DEF Next

-----------------------------------------------------------------------------
LEMMA InvStep == IInv /\ [Next]_vars => IInv'
BY TypeStep, KindStep, TablesStep, TokenStep DEF IInv

(* Types: files, graphs, tasks and the handler's loops hold what they are  *)
(* for, whatever the client merges.                                        *)
THEOREM VirtualTypes == Spec => []TypeOK
<1>1. IInv => TypeOK
  BY DEF IInv
<1> QED
  BY InitInv, InvStep, <1>1, PTL DEF Spec

(* Files are listed: no order of parsing, merging and unmerging loses a    *)
(* file from the graph of one of its tags, except a race on its table or a *)
(* graph that the handler did not find during another's insertion.         *)
THEOREM FilesStayListed == Spec => []FilesListed
<1>1. IInv => FilesListed
  BY DEF IInv
<1> QED
  BY InitInv, InvStep, <1>1, PTL DEF Spec

(* Graphs list no other names than those that were merged twice, missed,   *)
(* caught by a race, or to be removed from a graph that was not found.     *)
THEOREM OnlyKnownStrays == Spec => []StrayNames
<1>1. IInv => StrayNames
  BY DEF IInv
<1> QED
  BY InitInv, InvStep, <1>1, PTL DEF Spec

(* Token settings: the client's last batch size stands, except against a   *)
(* log that is parsed after it, and the last length of a file that is no   *)
(* text log.                                                               *)
THEOREM TokensSettle == Spec => []TokenSettled
<1>1. IInv => TokenSettled
  BY DEF IInv
<1> QED
  BY InitInv, InvStep, <1>1, PTL DEF Spec

=============================================================================
