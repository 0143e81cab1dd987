----------------------------- MODULE Front_proofs -----------------------------
(***************************************************************************)
(* Proofs about Front: each kind of request has one timer, a project's     *)
(* folder is watched, and the points that are added to a chart were asked  *)
(* for where it ends.  The last rests on there being one request for       *)
(* points at a time, made for what the store still has, since who changes  *)
(* the points or the settings asks anew.                                   *)
(***************************************************************************)
EXTENDS Front, TLAPS

USE DEF Kinds, Slots

Maps ==
  /\ poll = [s \in Slots |-> poll[s]]
  /\ current = [k \in Kinds |-> current[k]]

TimerInv == Maps /\ OneTimer

LEMMA SettledPc ==
  \A cur, s : Settled(cur, s).pc = IF cur = s THEN "timer" ELSE "free"
BY DEF Settled, PollsOn, Free

LEMMA FreePc == Free.pc = "free"
BY DEF Free

(* clear leaves a PollRequest as it was, or stops its timer.               *)
LEMMA ClearedStops ==
  ASSUME NEW ps, NEW cur
  PROVE  /\ Cleared(ps, cur) = [s \in Slots |-> Cleared(ps, cur)[s]]
         /\ \A s \in Slots : \/ Cleared(ps, cur)[s] = ps[s] /\ (ps[s].pc = "timer" => s # cur)
                             \/ Cleared(ps, cur)[s] = Free
BY DEF Cleared

IsMap(ps) == ps = [t \in Slots |-> ps[t]]

OnlyOneSent(q, ps, s, list) ==
  /\ q = [t \in Slots |-> q[t]]
  /\ q[s] = Asked(list)
  /\ \A t \in ChartSlots \ {s} : /\ q[t].pc # "sent"
                                 /\ q[t].pc = "timer" => ps[t].pc = "timer"
  /\ \A t \in FileSlots : q[t] = ps[t]

(* A request for points is the only one of its kind that awaits an answer, *)
(* and it sets no timer of another's.                                      *)
LEMMA OneAsked ==
  ASSUME NEW ps, IsMap(ps), NEW s \in ChartSlots, NEW list
  PROVE  OnlyOneSent(GetChartsData(ps, s, list), ps, s, list)
<1> DEFINE q == GetChartsData(ps, s, list)
<1> DEFINE ab == Aborted(ps, s)
<1>1. ab = [t \in Slots |-> ab[t]]
  BY DEF Aborted
<1>2. q = [ab EXCEPT ![s] = Asked(list)]
  BY DEF GetChartsData
<1> HIDE DEF q
<1>3. \A t \in Slots : ab[t] = IF t \in ChartSlots /\ ps[t].pc = "sent"
                               THEN Settled(s, t) ELSE ps[t]
  BY DEF Aborted
<1> HIDE DEF ab
<1>4. q = [t \in Slots |-> q[t]] /\ q[s] = Asked(list) /\ \A t \in Slots \ {s} : q[t] = ab[t]
  BY <1>1, <1>2
<1>5. \A t \in ChartSlots \ {s} : /\ q[t].pc # "sent"
                                  /\ q[t].pc = "timer" => ps[t].pc = "timer"
  <2> SUFFICES ASSUME NEW t \in ChartSlots, t # s
               PROVE  /\ q[t].pc # "sent"
                      /\ q[t].pc = "timer" => ps[t].pc = "timer"
    OBVIOUS
  <2>1. q[t] = IF ps[t].pc = "sent" THEN Settled(s, t) ELSE ps[t]
    BY <1>3, <1>4
  <2>2. Settled(s, t).pc = "free"
    BY SettledPc
  <2> QED
    BY <2>1, <2>2
<1>6. \A t \in FileSlots : q[t] = ps[t]
  BY <1>3, <1>4, FrontConstantsOK
<1> QED
  BY <1>4, <1>5, <1>6 DEF OnlyOneSent, q

-----------------------------------------------------------------------------
(* One timer.                                                              *)

LEMMA AskPcs == \A list : Asked(list).pc = "sent" /\ Asked(list).asked = list
BY DEF Asked

(* updataChartData: the old timer is stopped before the new request.       *)
LEMMA UpdataStep ==
  ASSUME TimerInv, UpdataChartData
  PROVE  /\ TimerInv'
         /\ \E s \in ChartSlots :
              /\ poll'[s] = Asked(GraphList(fileList', showTagList', config'))
              /\ \A t \in ChartSlots \ {s} : poll'[t].pc # "sent"
<1> DEFINE ps == Cleared(poll, current["charts"])
           ask == GraphList(fileList', showTagList', config')
<1>1. PICK s \in ChartSlots : /\ poll' = GetChartsData(ps, s, ask)
                              /\ current' = [current EXCEPT !["charts"] = s]
  BY DEF UpdataChartData
<1>2. /\ ps = [t \in Slots |-> ps[t]]
      /\ \A t \in Slots : \/ ps[t] = poll[t] /\ (poll[t].pc = "timer" => t # current["charts"])
                          \/ ps[t] = Free
  BY ClearedStops
<1> HIDE DEF ps, ask
<1>3. /\ poll' = [t \in Slots |-> poll'[t]]
      /\ poll'[s] = Asked(ask)
      /\ \A t \in ChartSlots \ {s} : /\ poll'[t].pc # "sent"
                                     /\ poll'[t].pc = "timer" => ps[t].pc = "timer"
      /\ \A t \in FileSlots : poll'[t] = ps[t]
  <2>1. IsMap(ps)
    BY <1>2 DEF IsMap
  <2>2. OnlyOneSent(poll', ps, s, ask)
    BY <1>1, <2>1, OneAsked
  <2> QED
    BY <2>2 DEF OnlyOneSent
<1>4. current' = [k \in Kinds |-> current'[k]] /\ current'["newFiles"] = current["newFiles"]
  BY <1>1 DEF TimerInv, Maps
<1>5. \A t \in Slots : ps[t].pc = "timer" => poll[t].pc = "timer" /\ t # current["charts"]
  BY <1>2, FreePc
<1>6. \A t \in ChartSlots : poll'[t].pc # "timer"
  BY <1>3, <1>5, AskPcs DEF TimerInv, OneTimer, Kind
<1>7. \A t \in FileSlots : poll'[t].pc = "timer" => current'["newFiles"] = t
  BY <1>3, <1>4, <1>5, FrontConstantsOK DEF TimerInv, OneTimer, Kind
<1>8. OneTimer'
  BY <1>6, <1>7, FrontConstantsOK DEF OneTimer, Kind
<1> QED
  BY <1>3, <1>4, <1>8 DEF TimerInv, Maps, ask

(* The poll of new files begins anew.                                      *)
LEMMA PollNewFilesStep ==
  ASSUME TimerInv, PollNewFiles
  PROVE  /\ TimerInv'
         /\ \A t \in ChartSlots : poll'[t] = poll[t] \/ poll'[t] = Free
<1> DEFINE ps == Cleared(poll, current["newFiles"])
<1>1. PICK s \in FileSlots : /\ poll' = [ps EXCEPT ![s] = Asked(<<>>)]
                             /\ current' = [current EXCEPT !["newFiles"] = s]
  BY DEF PollNewFiles
<1>2. /\ ps = [t \in Slots |-> ps[t]]
      /\ \A t \in Slots : \/ ps[t] = poll[t] /\ (poll[t].pc = "timer" => t # current["newFiles"])
                          \/ ps[t] = Free
  BY ClearedStops
<1> HIDE DEF ps
<1>3. /\ poll' = [t \in Slots |-> poll'[t]] /\ poll'[s] = Asked(<<>>)
      /\ \A t \in Slots \ {s} : poll'[t] = ps[t]
  BY <1>1, <1>2
<1>4. current' = [k \in Kinds |-> current'[k]] /\ current'["charts"] = current["charts"]
  BY <1>1 DEF TimerInv, Maps
<1>5. \A t \in Slots : ps[t].pc = "timer" => poll[t].pc = "timer" /\ t # current["newFiles"]
  BY <1>2, FreePc
<1>6. \A t \in FileSlots : poll'[t].pc # "timer"
  BY <1>3, <1>5, AskPcs, FrontConstantsOK DEF TimerInv, OneTimer, Kind
<1>7. \A t \in ChartSlots : poll'[t].pc = "timer" => current'["charts"] = t
  BY <1>3, <1>4, <1>5, FrontConstantsOK DEF TimerInv, OneTimer, Kind
<1>8. OneTimer'
  BY <1>6, <1>7, FrontConstantsOK DEF OneTimer, Kind
<1>9. \A t \in ChartSlots : poll'[t] = poll[t] \/ poll'[t] = Free
  BY <1>2, <1>3, FrontConstantsOK
<1> QED
  BY <1>3, <1>4, <1>8, <1>9 DEF TimerInv, Maps

LEMMA TimerInit == Init => TimerInv
BY DEF Init, TimerInv, Maps, OneTimer, NoPoll, Free

(* A request that ends without a timer of another's.                       *)
LEMMA SettlesOne ==
  ASSUME TimerInv, NEW s \in Slots, NEW cur, cur = current[Kind(s)],
         poll' = [poll EXCEPT ![s] = Settled(cur, s)], current' = current
  PROVE  TimerInv'
<1>1. poll' = [t \in Slots |-> poll'[t]] /\ \A t \in Slots \ {s} : poll'[t] = poll[t]
  BY DEF TimerInv, Maps
<1>2. poll'[s].pc = "timer" => cur = s
  <2>1. poll'[s] = Settled(cur, s)
    BY DEF TimerInv, Maps
  <2> QED
    BY <2>1, SettledPc
<1>3. OneTimer'
  BY <1>1, <1>2 DEF TimerInv, OneTimer, Kind
<1> QED
  BY <1>1, <1>3 DEF TimerInv, Maps

LEMMA NewFilesStep ==
  ASSUME TimerInv, NEW s \in FileSlots, NewFilesArrive(s)
  PROVE  /\ TimerInv'
         /\ \A t \in ChartSlots : poll'[t] = poll[t] \/ poll'[t] = Free
<1>0. Kind(s) = "newFiles" /\ s \notin ChartSlots /\ s # None
  BY FrontConstantsOK DEF Kind
<1>1. CASE poll[s].answer = {}
  <2>1. poll' = [poll EXCEPT ![s] = Settled(current["newFiles"], s)] /\ current' = current
    BY <1>1 DEF NewFilesArrive
  <2>2. TimerInv'
    BY <1>0, <2>1, SettlesOne
  <2> QED
    BY <1>0, <2>1, <2>2 DEF TimerInv, Maps
<1>2. CASE poll[s].answer # {}
  <2> DEFINE ps == Cleared(poll, current["newFiles"])
  <2>1. /\ poll' = [ps EXCEPT ![s] = Settled(None, s)]
        /\ current' = [current EXCEPT !["newFiles"] = None]
    BY <1>2 DEF NewFilesArrive
  <2>2. /\ ps = [t \in Slots |-> ps[t]]
        /\ \A t \in Slots : \/ ps[t] = poll[t] /\ (poll[t].pc = "timer" => t # current["newFiles"])
                            \/ ps[t] = Free
    BY ClearedStops
  <2> HIDE DEF ps
  <2>3. /\ poll' = [t \in Slots |-> poll'[t]] /\ poll'[s] = Settled(None, s)
        /\ \A t \in Slots \ {s} : poll'[t] = ps[t]
    BY <2>1, <2>2
  <2>4. current' = [k \in Kinds |-> current'[k]] /\ current'["charts"] = current["charts"]
    BY <2>1 DEF TimerInv, Maps
  <2>5. \A t \in Slots : ps[t].pc = "timer" => poll[t].pc = "timer" /\ t # current["newFiles"]
    BY <2>2, FreePc
  <2>6. \A t \in FileSlots : poll'[t].pc # "timer"
    BY <1>0, <2>3, <2>5, SettledPc, FrontConstantsOK DEF TimerInv, OneTimer, Kind
  <2>7. \A t \in ChartSlots : poll'[t].pc = "timer" => current'["charts"] = t
    BY <1>0, <2>3, <2>4, <2>5, FrontConstantsOK DEF TimerInv, OneTimer, Kind
  <2>8. OneTimer'
    BY <2>6, <2>7, FrontConstantsOK DEF OneTimer, Kind
  <2>9. \A t \in ChartSlots : poll'[t] = poll[t] \/ poll'[t] = Free
    BY <1>0, <2>2, <2>3
  <2> QED
    BY <2>3, <2>4, <2>8, <2>9 DEF TimerInv, Maps
<1> QED
  BY <1>1, <1>2

LEMMA TimerStep == 
  ASSUME TimerInv, NEW s \in Slots, Timer(s)
  PROVE  TimerInv'
<1>0. current' = current /\ current[Kind(s)] = s
  BY DEF Timer, polls, TimerInv, OneTimer
<1>1. CASE s \in ChartSlots
  <2> DEFINE ask == GraphList(fileList, showTagList, config)
  <2>1. poll' = GetChartsData(poll, s, ask)
    BY <1>1 DEF Timer
  <2> HIDE DEF ask
  <2>2. /\ poll' = [t \in Slots |-> poll'[t]] /\ poll'[s] = Asked(ask)
        /\ \A t \in ChartSlots \ {s} : poll'[t].pc = "timer" => poll[t].pc = "timer"
        /\ \A t \in FileSlots : poll'[t] = poll[t]
    <3>1. IsMap(poll)
      BY DEF TimerInv, Maps, IsMap
    <3>2. OnlyOneSent(poll', poll, s, ask)
      BY <1>1, <2>1, <3>1, OneAsked
    <3> QED
      BY <3>2 DEF OnlyOneSent
  <2> QED
    BY <1>0, <2>2, AskPcs DEF TimerInv, Maps, OneTimer
<1>2. CASE s \notin ChartSlots
  <2>1. poll' = [poll EXCEPT ![s] = Asked(<<>>)]
    BY <1>2 DEF Timer
  <2>2. /\ poll' = [t \in Slots |-> poll'[t]] /\ poll'[s] = Asked(<<>>)
        /\ \A t \in Slots \ {s} : poll'[t] = poll[t]
    BY <2>1 DEF TimerInv, Maps
  <2> QED
    BY <1>0, <2>2, AskPcs DEF TimerInv, Maps, OneTimer
<1> QED
  BY <1>1, <1>2

(* Both polls begin anew when a project has been imported.                 *)
LEMMA UploadedStep ==
  ASSUME TimerInv, NEW u, Uploaded(u)
  PROVE  /\ TimerInv'
         /\ \E s \in ChartSlots :
              /\ poll'[s] = Asked(GraphList(fileList', showTagList', config'))
              /\ \A t \in ChartSlots \ {s} : poll'[t].pc # "sent"
<1> DEFINE both == BothCleared
           one == Cleared(poll, current["charts"])
           ask == GraphList(fileList', showTagList', config')
<1>1. PICK s \in ChartSlots, n \in FileSlots :
        /\ poll' = GetChartsData([both EXCEPT ![n] = Asked(<<>>)], s, ask)
        /\ current' = [charts |-> s, newFiles |-> n]
  BY DEF Uploaded
<1>2. both = Cleared(one, current["newFiles"])
  BY DEF BothCleared
<1>3. \A t \in Slots : \/ one[t] = poll[t] /\ (poll[t].pc = "timer" => t # current["charts"])
                       \/ one[t] = Free
  BY ClearedStops
<1> HIDE DEF one
<1>4. /\ both = [t \in Slots |-> both[t]]
      /\ \A t \in Slots : \/ both[t] = one[t] /\ (one[t].pc = "timer" => t # current["newFiles"])
                          \/ both[t] = Free
  BY <1>2, ClearedStops
<1> HIDE DEF both, ask
<1>5. \A t \in Slots : both[t].pc # "timer"
  BY <1>3, <1>4, FreePc, FrontConstantsOK DEF TimerInv, OneTimer, Kind
<1> DEFINE ps == [both EXCEPT ![n] = Asked(<<>>)]
<1>6. ps = [t \in Slots |-> ps[t]] /\ \A t \in Slots : ps[t].pc # "timer"
  BY <1>4, <1>5, AskPcs
<1> HIDE DEF ps
<1>7. /\ poll' = [t \in Slots |-> poll'[t]]
      /\ poll'[s] = Asked(ask)
      /\ \A t \in ChartSlots \ {s} : /\ poll'[t].pc # "sent"
                                     /\ poll'[t].pc = "timer" => ps[t].pc = "timer"
      /\ \A t \in FileSlots : poll'[t] = ps[t]
  <2>1. poll' = GetChartsData(ps, s, ask)
    BY <1>1 DEF ps
  <2>2. IsMap(ps)
    BY <1>6 DEF IsMap
  <2>3. OnlyOneSent(poll', ps, s, ask)
    BY <2>1, <2>2, OneAsked
  <2> QED
    BY <2>3 DEF OnlyOneSent
<1>8. OneTimer'
  BY <1>6, <1>7, AskPcs DEF OneTimer
<1>9. current' = [k \in Kinds |-> current'[k]]
  BY <1>1
<1> QED
  BY <1>7, <1>8, <1>9 DEF TimerInv, Maps, ask

LEMMA ShowStep ==
  ASSUME TimerInv, ShowNewFiles
  PROVE  /\ TimerInv'
         /\ \A t \in ChartSlots : poll'[t] = poll[t] \/ poll'[t] = Free
<1>1. CASE newFileList = {}
  BY <1>1 DEF ShowNewFiles, polls, TimerInv, Maps, OneTimer
<1>2. CASE newFileList # {}
  <2>1. poll' = Cleared(poll, current["newFiles"]) /\ current' = [current EXCEPT !["newFiles"] = None]
    BY <1>2 DEF ShowNewFiles
  <2>2. /\ poll' = [t \in Slots |-> poll'[t]]
        /\ \A t \in Slots : \/ poll'[t] = poll[t] /\ (poll[t].pc = "timer" => t # current["newFiles"])
                            \/ poll'[t] = Free
    BY <2>1, ClearedStops
  <2>3. current' = [k \in Kinds |-> current'[k]] /\ current'["charts"] = current["charts"]
    BY <2>1 DEF TimerInv, Maps
  <2>4. \A t \in Slots : poll'[t].pc = "timer" => poll[t].pc = "timer" /\ t # current["newFiles"]
    BY <2>2, FreePc
  <2>5. OneTimer'
    BY <2>3, <2>4, FrontConstantsOK DEF TimerInv, OneTimer, Kind
  <2> QED
    BY <2>2, <2>3, <2>5 DEF TimerInv, Maps
<1> QED
  BY <1>1, <1>2

LEMMA RemoveStep ==
  ASSUME TimerInv, Remove
  PROVE  /\ TimerInv'
         /\ \A t \in ChartSlots : poll'[t] = poll[t] \/ poll'[t] = Free
<1> DEFINE one == Cleared(poll, current["charts"])
<1>1. poll' = Cleared(one, current["newFiles"]) /\ current' = NoPoll
  BY DEF Remove, BothCleared
<1>2. \A t \in Slots : \/ one[t] = poll[t] /\ (poll[t].pc = "timer" => t # current["charts"])
                       \/ one[t] = Free
  BY ClearedStops
<1> HIDE DEF one
<1>3. /\ poll' = [t \in Slots |-> poll'[t]]
      /\ \A t \in Slots : \/ poll'[t] = one[t] /\ (one[t].pc = "timer" => t # current["newFiles"])
                          \/ poll'[t] = Free
  BY <1>1, ClearedStops
<1>4. \A t \in Slots : poll'[t].pc # "timer"
  BY <1>2, <1>3, FreePc, FrontConstantsOK DEF TimerInv, OneTimer, Kind
<1>5. current' = [k \in Kinds |-> current'[k]]
  BY <1>1 DEF NoPoll
<1> QED
  BY <1>2, <1>3, <1>4, <1>5 DEF TimerInv, Maps, OneTimer

(* A step that changes at most one PollRequest, to an answer.              *)
LEMMA AnswerStep ==
  ASSUME TimerInv, NEW s \in Slots, AnswerNewFiles(s)
  PROVE  TimerInv'
<1>1. poll' = [poll EXCEPT ![s] = Answered(created)]
  BY DEF AnswerNewFiles
<1>2. /\ poll' = [t \in Slots |-> poll'[t]] /\ poll'[s].pc = "answered"
      /\ \A t \in Slots \ {s} : poll'[t] = poll[t]
  BY <1>1 DEF TimerInv, Maps, Answered
<1>3. current' = current
  BY DEF AnswerNewFiles
<1> QED
  BY <1>2, <1>3 DEF TimerInv, Maps, OneTimer

LEMMA TimerNext == TimerInv /\ [Next]_vars => TimerInv'
<1> SUFFICES ASSUME TimerInv, [Next]_vars PROVE TimerInv'
  OBVIOUS
<1>0. ASSUME UNCHANGED polls PROVE TimerInv'
  BY <1>0 DEF polls, TimerInv, Maps, OneTimer
<1>1. ASSUME NEW n \in NewFiles, Create(n) PROVE TimerInv'
  BY <1>0, <1>1 DEF Create
<1>3. ASSUME NEW s \in ChartSlots, ChartsArrive(s) PROVE TimerInv'
  BY <1>3, SettlesOne DEF ChartsArrive, Kind
<1>4. ASSUME NEW s \in FileSlots, AnswerNewFiles(s) PROVE TimerInv'
  BY <1>4, AnswerStep
<1>5. ASSUME NEW s \in FileSlots, NewFilesArrive(s) PROVE TimerInv'
  BY <1>5, NewFilesStep
<1>6. ASSUME NEW s \in Slots, RequestFails(s) PROVE TimerInv'
  BY <1>6, SettlesOne DEF RequestFails
<1>7. ASSUME NEW s \in Slots, Timer(s) PROVE TimerInv'
  BY <1>7, TimerStep
<1>8. CASE ShowNewFiles
  BY <1>8, ShowStep
<1>9. CASE ImportFile \/ HandleOk
  BY <1>0, <1>9 DEF ImportFile, HandleOk
<1>10. CASE Remove
  BY <1>10, RemoveStep
<1>11. CASE Cancel
  BY <1>11, PollNewFilesStep DEF Cancel
<1>12. ASSUME NEW u \in UploadSlots, UploadFails(u) PROVE TimerInv'
  BY <1>0, <1>12 DEF UploadFails
<1>13. ASSUME NEW u \in UploadSlots, Uploaded(u) PROVE TimerInv'
  BY <1>13, UploadedStep
<1>14. ASSUME NEW u \in UploadSlots, UploadThrows(u) \/ OkDone(u) PROVE TimerInv'
  BY <1>14, PollNewFilesStep DEF UploadThrows, OkDone, OkPolls
<1>15. ASSUME NEW checked, ModifyCheck(checked) PROVE TimerInv'
  BY <1>15, UpdataStep DEF ModifyCheck
<1>16. ASSUME NEW tags, NEW cfg, ModifySmoothingConfig(tags, cfg) PROVE TimerInv'
  BY <1>16, UpdataStep DEF ModifySmoothingConfig
<1>17. CASE ModifyStepGetData
  BY <1>17, UpdataStep DEF ModifyStepGetData
<1>18. ASSUME NEW tags, ModifyShowTagList(tags) PROVE TimerInv'
  BY <1>0, <1>18 DEF ModifyShowTagList
<1>19. CASE ModifyIsTagPolymerize \/ AggregateChecks
  BY <1>0, <1>19 DEF ModifyIsTagPolymerize, AggregateChecks
<1>20. CASE UNCHANGED vars
  BY <1>0, <1>20 DEF vars
<1> QED
  BY <1>1, <1>3, <1>4, <1>5, <1>6, <1>7, <1>8, <1>9, <1>10, <1>11, <1>12, <1>13, <1>14,
     <1>15, <1>16, <1>17, <1>18, <1>19, <1>20 DEF Next

(* One timer of each kind, for any number of requests under way.           *)
THEOREM TimersAreCurrent == Spec => []OneTimer
<1>1. TimerInv => OneTimer
  BY DEF TimerInv
<1> QED
  BY TimerInit, TimerNext, <1>1, PTL DEF Spec

-----------------------------------------------------------------------------
(* The folder of a project.                                                *)

LEMMA WatchInit == Init => FolderIsWatched
BY DEF Init, FolderIsWatched

LEMMA WatchNext == Maps /\ FolderIsWatched /\ [Next]_vars => FolderIsWatched'
<1> SUFFICES ASSUME Maps, FolderIsWatched, [Next]_vars PROVE FolderIsWatched'
  OBVIOUS
<1> DEFINE watch == <<current["newFiles"], showModal, effect, newFileList, project>>
<1>0. ASSUME watch' = watch PROVE FolderIsWatched'
  BY <1>0 DEF FolderIsWatched
<1>1. ASSUME NEW s \in FileSlots, NewFilesArrive(s) PROVE FolderIsWatched'
  <2>1. CASE poll[s].answer = {}
    BY <1>0, <1>1, <2>1 DEF NewFilesArrive, dialog
  <2>2. CASE poll[s].answer # {}
    BY <1>1, <2>2 DEF NewFilesArrive, FolderIsWatched
  <2> QED
    BY <2>1, <2>2
<1>2. CASE ShowNewFiles
  BY <1>2 DEF ShowNewFiles, polls, FolderIsWatched
<1>3. ASSUME NEW u, Uploaded(u) PROVE FolderIsWatched'
  BY <1>3, FrontConstantsOK DEF Uploaded, FolderIsWatched
<1>4. CASE Remove
  BY <1>4 DEF Remove, FolderIsWatched
<1>5. ASSUME PollNewFiles PROVE FolderIsWatched'
  <2>1. current'["newFiles"] # None
    BY <1>5, FrontConstantsOK DEF PollNewFiles, Maps
  <2> QED
    BY <2>1 DEF FolderIsWatched
<1>6. CASE Cancel
  BY <1>5, <1>6 DEF Cancel
<1>7. ASSUME NEW u, UploadThrows(u) \/ OkDone(u) PROVE FolderIsWatched'
  BY <1>5, <1>7 DEF UploadThrows, OkDone, OkPolls
<1>8. ASSUME UpdataChartData, UNCHANGED <<newFileList, showModal, effect, project>>
      PROVE FolderIsWatched'
  BY <1>0, <1>8 DEF UpdataChartData, Maps
<1>9. ASSUME NEW checked, ModifyCheck(checked) PROVE FolderIsWatched'
  BY <1>8, <1>9 DEF ModifyCheck
<1>10. ASSUME NEW tags, NEW cfg, ModifySmoothingConfig(tags, cfg) PROVE FolderIsWatched'
  BY <1>8, <1>10 DEF ModifySmoothingConfig
<1>11. CASE ModifyStepGetData
  BY <1>8, <1>11 DEF ModifyStepGetData
<1>12. ASSUME UNCHANGED <<dialog, current, project>> PROVE FolderIsWatched'
  BY <1>0, <1>12 DEF dialog
<1>13. ASSUME NEW s, \/ ChartsArrive(s) \/ AnswerNewFiles(s)
                     \/ RequestFails(s) \/ Timer(s) \/ Create(s)
       PROVE FolderIsWatched'
  BY <1>12, <1>13 DEF ChartsArrive, AnswerNewFiles, RequestFails, Timer, Create, polls
<1>14. CASE ImportFile \/ HandleOk
  BY <1>12, <1>14 DEF ImportFile, HandleOk, polls
<1>15. ASSUME NEW u, UploadFails(u) PROVE FolderIsWatched'
  BY <1>12, <1>15 DEF UploadFails, polls
<1>16. ASSUME NEW tags, ModifyShowTagList(tags) PROVE FolderIsWatched'
  BY <1>12, <1>16 DEF ModifyShowTagList, polls
<1>17. CASE ModifyIsTagPolymerize \/ AggregateChecks
  BY <1>12, <1>17 DEF ModifyIsTagPolymerize, AggregateChecks, polls
<1>18. CASE UNCHANGED vars
  BY <1>12, <1>18 DEF vars, polls
<1> QED
  BY <1>1, <1>2, <1>3, <1>4, <1>6, <1>7, <1>9, <1>10, <1>11, <1>13, <1>14, <1>15, <1>16, <1>17,
     <1>18 DEF Next

(* A project's folder is watched, whatever is answered, lost or clicked.   *)
THEOREM ProjectsAreWatched == Spec => []FolderIsWatched
<1>1. TimerInv => Maps
  BY DEF TimerInv
<1> QED
  BY TimerInit, TimerNext, WatchInit, WatchNext, <1>1, PTL DEF Spec

-----------------------------------------------------------------------------
(* The points of the charts.                                               *)

InFlight(s) == poll[s].pc = "sent"
OneInFlight == \A s, t \in ChartSlots : InFlight(s) /\ InFlight(t) => s = t

(* Charts belong to the tags that have settings, and each has its counts.  *)
Row(r) == r = [data |-> r.data, smoothingData |-> r.smoothingData, isChecked |-> r.isChecked]

ListOK ==
  /\ DOMAIN fileList \subseteq Charts /\ \A c \in DOMAIN fileList : Row(fileList[c])
  /\ config = [t \in Tags |-> config[t]]

LEMMA RowParts ==
  ASSUME NEW r, Row(r)
  PROVE  /\ \A n, x : n = [r EXCEPT !.isChecked = x] =>
              Row(n) /\ n.data = r.data /\ n.smoothingData = r.smoothingData
         /\ \A n, x : n = [r EXCEPT !.smoothingData = x] => Row(n)
         /\ \A n, x, y : n = [r EXCEPT !.data = x, !.smoothingData = y] => Row(n)
<1>1. PICK d, m, k : r = [data |-> d, smoothingData |-> m, isChecked |-> k]
  BY DEF Row
<1>3. ASSUME NEW x
      PROVE  [r EXCEPT !.isChecked = x] = [data |-> d, smoothingData |-> m, isChecked |-> x]
  BY <1>1
<1>4. ASSUME NEW x
      PROVE  [r EXCEPT !.smoothingData = x] = [data |-> d, smoothingData |-> x, isChecked |-> k]
  BY <1>1
<1>5. ASSUME NEW x, NEW y
      PROVE  [r EXCEPT !.data = x, !.smoothingData = y]
               = [data |-> x, smoothingData |-> y, isChecked |-> k]
  <2>1. [r EXCEPT !.data = x] = [data |-> x, smoothingData |-> m, isChecked |-> k]
    BY <1>1
  <2>2. [[data |-> x, smoothingData |-> m, isChecked |-> k] EXCEPT !.smoothingData = y]
          = [data |-> x, smoothingData |-> y, isChecked |-> k]
    OBVIOUS
  <2>3. [r EXCEPT !.data = x, !.smoothingData = y]
          = [[r EXCEPT !.data = x] EXCEPT !.smoothingData = y]
    BY <1>1
  <2> QED
    BY <2>1, <2>2, <2>3
<1>6. r.data = d /\ r.smoothingData = m
  BY <1>1
<1>7. ASSUME NEW x, NEW n, n = [r EXCEPT !.isChecked = x]
      PROVE  Row(n) /\ n.data = r.data /\ n.smoothingData = r.smoothingData
  <2>1. n = [data |-> d, smoothingData |-> m, isChecked |-> x]
    BY <1>3, <1>7
  <2> QED
    BY <1>6, <2>1 DEF Row
<1>8. ASSUME NEW x, NEW n, n = [r EXCEPT !.smoothingData = x] PROVE Row(n)
  <2>1. n = [data |-> d, smoothingData |-> x, isChecked |-> k]
    BY <1>4, <1>8
  <2> QED
    BY <2>1 DEF Row
<1>9. ASSUME NEW x, NEW y, NEW n, n = [r EXCEPT !.data = x, !.smoothingData = y] PROVE Row(n)
  <2>1. n = [data |-> x, smoothingData |-> y, isChecked |-> k]
    BY <1>5, <1>9
  <2> QED
    BY <2>1 DEF Row
<1> QED
  BY <1>7, <1>8, <1>9

ChartInv == ListOK /\ OneInFlight /\ AnswersFit

LEMMA TagsOfCharts == \A c \in Charts : TagOf[c] \in Tags
BY DEF Tags

LEMMA ChartInit == Init => ChartInv
<1> SUFFICES ASSUME Init PROVE ChartInv
  OBVIOUS
<1>1. ListOK
  BY DEF Init, ListOK
<1>2. \A s \in ChartSlots : poll[s].pc = "free"
  BY FreePc DEF Init
<1> QED
  BY <1>1, <1>2 DEF ChartInv, OneInFlight, InFlight, AnswersFit

(* The charts keep their points, and no request gets under way.            *)
PointsKept ==
  /\ config' = config
  /\ \A c \in DOMAIN fileList : /\ c \in DOMAIN fileList'
                               /\ fileList'[c].data = fileList[c].data
                               /\ fileList'[c].smoothingData = fileList[c].smoothingData

NoneAsked == \A s \in ChartSlots :
  InFlight(s)' => InFlight(s) /\ poll'[s].asked = poll[s].asked

LEMMA FlightsKept ==
  ASSUME ChartInv, ListOK', project' => project, PointsKept, NoneAsked
  PROVE  ChartInv'
<1>1. OneInFlight'
  BY DEF ChartInv, OneInFlight, NoneAsked
<1>2. AnswersFit'
  BY DEF ChartInv, AnswersFit, Fits, InFlight, PointsKept, NoneAsked
<1> QED
  BY <1>1, <1>2 DEF ChartInv

LEMMA SlotsKept ==
  ASSUME \A s \in ChartSlots : poll'[s] = poll[s] \/ poll'[s].pc # "sent"
  PROVE  NoneAsked
BY DEF NoneAsked, InFlight

(* What getGraphList asks for fits the store it is made from.              *)
LEMMA GraphListFits == Fits(GraphList(fileList, showTagList, config))
<1> DEFINE ask == GraphList(fileList, showTagList, config)
<1>1. \A c \in DOMAIN ask :
        /\ c \in DOMAIN fileList
        /\ ask[c] = [offset |-> fileList[c].data, sampleOffset |-> fileList[c].smoothingData,
                     config |-> config[TagOf[c]]]
  BY DEF GraphList
<1> HIDE DEF ask
<1>2. Fits(ask)
  BY <1>1 DEF Fits
<1> QED
  BY <1>2 DEF ask

(* Who changes the store asks anew, and no other request stays under way.  *)
LEMMA AskedAnew ==
  ASSUME ListOK', NEW s \in ChartSlots,
         poll'[s] = Asked(GraphList(fileList', showTagList', config')),
         \A t \in ChartSlots \ {s} : poll'[t].pc # "sent"
  PROVE  ChartInv'
<1> DEFINE ask == GraphList(fileList, showTagList, config)
<1>1. Fits(ask)'
  BY GraphListFits, PTL
<1>2. poll'[s].pc = "sent" /\ poll'[s].asked = ask'
  BY AskPcs
<1> HIDE DEF ask
<1>3. OneInFlight'
  BY DEF OneInFlight, InFlight
<1>4. AnswersFit'
  BY <1>1, <1>2 DEF AnswersFit, Fits
<1> QED
  BY <1>3, <1>4 DEF ChartInv

(* Files that are added keep what is there.                                *)
LEMMA AddFileKeeps ==
  ASSUME NEW list, DOMAIN list \subseteq Charts, \A c \in DOMAIN list : Row(list[c]),
         NEW shown, NEW copy, NEW added \in SUBSET Charts, AddFile(list, shown, copy, added)
  PROVE  /\ DOMAIN fileList' \subseteq Charts
         /\ \A c \in DOMAIN fileList' : Row(fileList'[c])
         /\ \A c \in DOMAIN list : c \in DOMAIN fileList' /\ fileList'[c] = list[c]
<1> DEFINE new == added \ DOMAIN list
<1>1. PICK first : fileList' = [c \in DOMAIN list \cup new |->
                                  IF c \in new THEN Entry(c \in first) ELSE list[c]]
  BY DEF AddFile
<1>2. \A b : Row(Entry(b))
  BY DEF Row, Entry
<1> QED
  BY <1>1, <1>2

(* What the charts' requests and the store come to, in a step.             *)
Untouched ==
  /\ PointsKept /\ NoneAsked
  /\ (ListOK => ListOK')
  /\ DOMAIN fileList' = DOMAIN fileList /\ project' = project

AsksAnew ==
  /\ ListOK => ListOK'
  /\ DOMAIN fileList' = DOMAIN fileList
  /\ \E s \in ChartSlots :
       /\ poll'[s] = Asked(GraphList(fileList', showTagList', config'))
       /\ \A t \in ChartSlots \ {s} : poll'[t].pc # "sent"

LEMMA SameStore ==
  ASSUME UNCHANGED <<fileList, config, project>>, NoneAsked
  PROVE  Untouched
BY DEF Untouched, PointsKept, ListOK

(* The one request under way ends with its answer.                         *)
LEMMA ChartsArriveStep ==
  ASSUME TimerInv, ChartInv, NEW s \in ChartSlots, ChartsArrive(s)
  PROVE  ChartInv' /\ NoneAsked /\ DOMAIN fileList' = DOMAIN fileList
<1>1. /\ poll[s].pc = "sent"
      /\ poll' = [poll EXCEPT ![s] = Settled(current["charts"], s)]
  BY DEF ChartsArrive
<1>2. PICK b : fileList' = WithAnswer(fileList, b) /\ config' = config
  BY DEF ChartsArrive, AddData
<1>3. DOMAIN fileList' = DOMAIN fileList
  BY <1>2 DEF WithAnswer
<1>4. ASSUME NEW c \in DOMAIN fileList PROVE Row(fileList'[c])
  <2>1. \E x, y : \/ fileList'[c] = [fileList[c] EXCEPT !.data = x, !.smoothingData = y]
                  \/ fileList'[c] = fileList[c]
    <3>1. CASE c \in DOMAIN b
      <4> DEFINE x == fileList[c].data + b[c].points
                 y == fileList[c].smoothingData + b[c].sampledPoints
      <4>1. fileList'[c] = [fileList[c] EXCEPT !.data = x, !.smoothingData = y]
        BY <1>2, <3>1 DEF WithAnswer
      <4> HIDE DEF x, y
      <4> QED
        BY <4>1
    <3>2. CASE c \notin DOMAIN b
      BY <1>2, <3>2 DEF WithAnswer
    <3> QED
      BY <3>1, <3>2
  <2>2. Row(fileList[c])
    BY DEF ChartInv, ListOK
  <2> QED
    BY <2>1, <2>2, RowParts
<1>5. ListOK'
  BY <1>2, <1>3, <1>4 DEF ChartInv, ListOK
<1>6. /\ poll'[s] = Settled(current["charts"], s)
      /\ \A t \in Slots \ {s} : poll'[t] = poll[t]
  BY <1>1 DEF TimerInv, Maps
<1>7. \A t \in ChartSlots : poll'[t].pc # "sent"
  BY <1>1, <1>6, SettledPc DEF ChartInv, OneInFlight, InFlight
<1> QED
  BY <1>3, <1>5, <1>7 DEF ChartInv, OneInFlight, InFlight, AnswersFit, NoneAsked

LEMMA TimerCharts ==
  ASSUME TimerInv, NEW s \in Slots, Timer(s)
  PROVE  Untouched \/ AsksAnew
<1>1. UNCHANGED <<fileList, showTagList, config, project>>
  BY DEF Timer, store
<1>2. DOMAIN fileList' = DOMAIN fileList /\ (ListOK => ListOK')
  BY <1>1 DEF ListOK
<1>3. CASE s \in ChartSlots
  <2> DEFINE ask == GraphList(fileList, showTagList, config)
  <2>1. poll' = GetChartsData(poll, s, ask) /\ ask' = ask
    BY <1>1, <1>3 DEF Timer
  <2> HIDE DEF ask
  <2>2. /\ poll'[s] = Asked(ask)
        /\ \A t \in ChartSlots \ {s} : poll'[t].pc # "sent"
    <3>1. IsMap(poll)
      BY DEF TimerInv, Maps, IsMap
    <3>2. OnlyOneSent(poll', poll, s, ask)
      BY <1>3, <2>1, <3>1, OneAsked
    <3> QED
      BY <3>2 DEF OnlyOneSent
  <2>3. poll'[s] = Asked(ask')
    BY <2>1, <2>2
  <2> QED
    BY <1>2, <1>3, <2>2, <2>3 DEF ask, AsksAnew
<1>4. CASE s \notin ChartSlots
  <2>1. poll' = [poll EXCEPT ![s] = Asked(<<>>)]
    BY <1>4 DEF Timer
  <2>2. \A t \in ChartSlots : poll'[t] = poll[t]
    BY <1>4, <2>1 DEF TimerInv, Maps
  <2> QED
    BY <1>1, <2>2, SlotsKept, SameStore
<1> QED
  BY <1>3, <1>4

LEMMA OkStep ==
  ASSUME TimerInv, ChartInv, NEW u, OkDone(u)
  PROVE  ChartInv'
<1>1. PICK files \in SUBSET Charts :
        /\ AddFile(fileList, showTagList, showListCopy, files)
        /\ config' = config /\ project' = project
  BY DEF OkDone
<1>2. /\ DOMAIN fileList' \subseteq Charts
      /\ \A c \in DOMAIN fileList' : Row(fileList'[c])
      /\ \A c \in DOMAIN fileList : c \in DOMAIN fileList' /\ fileList'[c] = fileList[c]
  BY <1>1, AddFileKeeps DEF ChartInv, ListOK
<1>3. \A t \in ChartSlots : poll'[t] = poll[t] \/ poll'[t].pc # "sent"
  BY PollNewFilesStep, FreePc DEF OkDone, OkPolls
<1>4. ListOK'
  BY <1>1, <1>2 DEF ChartInv, ListOK
<1>5. PointsKept /\ NoneAsked
  BY <1>1, <1>2, <1>3, SlotsKept DEF PointsKept
<1> QED
  BY <1>1, <1>4, <1>5, FlightsKept

LEMMA UploadedCharts ==
  ASSUME TimerInv, NEW u, Uploaded(u)
  PROVE  ChartInv'
<1>1. PICK files \in SUBSET Charts :
        AddFile(<<>>, {}, {}, files) /\ config' = [t \in Tags |-> Plain]
  BY DEF Uploaded, ClearFileList
<1>2. DOMAIN fileList' \subseteq Charts /\ \A c \in DOMAIN fileList' : Row(fileList'[c])
  <2> DEFINE list == <<>>
  <2>1. DOMAIN list = {} /\ AddFile(list, {}, {}, files)
    BY <1>1
  <2> HIDE DEF list
  <2> QED
    BY <2>1, AddFileKeeps
<1>3. ListOK'
  BY <1>1, <1>2 DEF ListOK
<1> QED
  BY <1>3, UploadedStep, AskedAnew

-----------------------------------------------------------------------------
(* The server that is shipped never gives the store a chart.               *)

Bare ==
  /\ DOMAIN fileList = {}
  /\ \A s \in ChartSlots : InFlight(s) => DOMAIN poll[s].asked = {}

ShippedBare == api = "shipped" => Bare

FrontInv == api \in Servers /\ TimerInv /\ ChartInv /\ ShippedBare

(* A store that is emptied has no chart.                                   *)
LEMMA EmptyList ==
  ASSUME ClearFileList, NoFiles
  PROVE  DOMAIN fileList' = {} /\ ListOK'
BY DEF ClearFileList, NoFiles, ListOK

LEMMA ServerInit == Init => ShippedBare
<1> SUFFICES ASSUME Init PROVE ShippedBare
  OBVIOUS
<1>1. DOMAIN fileList = {} /\ \A s \in ChartSlots : poll[s].pc = "free"
  BY FreePc DEF Init
<1> QED
  BY <1>1 DEF ShippedBare, Bare, InFlight

(* No step changes the server.                                             *)
LEMMA ServerNext == [Next]_vars => api' = api
BY DEF Next, vars, Create, ChartsArrive, AnswerNewFiles, NewFilesArrive, RequestFails, Timer,
   ShowNewFiles, ImportFile, Remove, Cancel, HandleOk, Uploaded, UploadThrows, UploadFails, OkDone,
   ModifyCheck, ModifyIsTagPolymerize, AggregateChecks, ModifySmoothingConfig, ModifyStepGetData,
   ModifyShowTagList

(* Nothing fills the store, so nothing is asked for.                       *)
LEMMA BareAsked ==
  ASSUME DOMAIN fileList' = {}, NEW s \in ChartSlots,
         poll'[s] = Asked(GraphList(fileList', showTagList', config')),
         \A t \in ChartSlots \ {s} : poll'[t].pc # "sent"
  PROVE  Bare'
<1>1. DOMAIN GraphList(fileList', showTagList', config') = {}
  BY DEF GraphList
<1>2. DOMAIN poll'[s].asked = {}
  BY <1>1, AskPcs
<1> QED
  BY <1>2 DEF Bare, InFlight

LEMMA BareKept ==
  ASSUME Bare, DOMAIN fileList' = {}, NoneAsked
  PROVE  Bare'
BY DEF Bare, NoneAsked

LEMMA UntouchedStep ==
  ASSUME ChartInv, ShippedBare, api' = api, Untouched
  PROVE  ChartInv' /\ ShippedBare'
<1>1. ListOK'
  BY DEF ChartInv, Untouched
<1>2. ChartInv'
  BY <1>1, FlightsKept DEF Untouched
<1>3. Bare => Bare'
  BY BareKept DEF Untouched, Bare
<1> QED
  BY <1>2, <1>3 DEF ShippedBare

LEMMA AsksAnewStep ==
  ASSUME ChartInv, ShippedBare, api' = api, AsksAnew
  PROVE  ChartInv' /\ ShippedBare'
<1>1. ListOK'
  BY DEF ChartInv, AsksAnew
<1>2. ChartInv'
  BY <1>1, AskedAnew DEF AsksAnew
<1>3. Bare => Bare'
  BY BareAsked DEF AsksAnew, Bare
<1> QED
  BY <1>2, <1>3 DEF ShippedBare

LEMMA UploadThrowsStep ==
  ASSUME TimerInv, ChartInv, ShippedBare, api \in Servers, api' = api,
         NEW u \in UploadSlots, UploadThrows(u)
  PROVE  ChartInv' /\ ShippedBare'
<1>1. /\ DOMAIN fileList' = {} /\ ListOK'
  BY EmptyList DEF UploadThrows
<1>2. NoneAsked
  BY PollNewFilesStep, FreePc, SlotsKept DEF UploadThrows
<1>3. Bare
  BY FrontConstantsOK DEF UploadThrows, AnswerHasFiles, ShippedBare
<1>4. Bare'
  BY <1>1, <1>2, <1>3, BareKept
<1>5. OneInFlight'
  BY <1>2 DEF ChartInv, OneInFlight, NoneAsked
<1>6. AnswersFit'
  BY <1>4 DEF AnswersFit, Fits, Bare, InFlight
<1> QED
  BY <1>1, <1>4, <1>5, <1>6 DEF ChartInv, ShippedBare

LEMMA RemoveCharts ==
  ASSUME TimerInv, ChartInv, ShippedBare, api' = api, Remove
  PROVE  ChartInv' /\ ShippedBare'
<1>1. DOMAIN fileList' = {} /\ ListOK' /\ ~project'
  BY EmptyList DEF Remove
<1>2. NoneAsked
  BY RemoveStep, FreePc, SlotsKept
<1>3. OneInFlight'
  BY <1>2 DEF ChartInv, OneInFlight, NoneAsked
<1>4. Bare => Bare'
  BY <1>1, <1>2, BareKept
<1> QED
  BY <1>1, <1>3, <1>4 DEF ChartInv, ShippedBare, AnswersFit

(* Checks leave the points alone.                                          *)
LEMMA CheckKeeps ==
  ASSUME ListOK, NEW tags, NEW checked, Check(tags, checked), config' = config
  PROVE  PointsKept /\ DOMAIN fileList' = DOMAIN fileList /\ ListOK'
<1>1. DOMAIN fileList' = DOMAIN fileList
  BY DEF Check
<1>2. ASSUME NEW c \in DOMAIN fileList
      PROVE  /\ fileList'[c].data = fileList[c].data
             /\ fileList'[c].smoothingData = fileList[c].smoothingData
             /\ Row(fileList'[c])
  <2> DEFINE b == c \in checked
  <2>1. fileList'[c] = fileList[c] \/ fileList'[c] = [fileList[c] EXCEPT !.isChecked = b]
    BY DEF Check
  <2> HIDE DEF b
  <2>2. Row(fileList[c])
    BY DEF ListOK
  <2> QED
    BY <2>1, <2>2, RowParts
<1> QED
  BY <1>1, <1>2 DEF PointsKept, ListOK

LEMMA ChecksOnly ==
  ASSUME ListOK, NEW checked, Check(Tags, checked), UNCHANGED <<config, poll, project>>
  PROVE  Untouched
<1>1. PointsKept /\ DOMAIN fileList' = DOMAIN fileList /\ ListOK'
  BY CheckKeeps
<1>2. NoneAsked
  BY SlotsKept
<1> QED
  BY <1>1, <1>2 DEF Untouched

(* The steps that change what is shown ask anew.                           *)
LEMMA ModifyStep ==
  ASSUME TimerInv, UpdataChartData, DOMAIN fileList' = DOMAIN fileList, ListOK'
  PROVE  AsksAnew
BY UpdataStep DEF AsksAnew

LEMMA ModifiesAnew ==
  ASSUME TimerInv, ListOK,
         \/ \E checked : ModifyCheck(checked)
         \/ \E tags, cfg : ModifySmoothingConfig(tags, cfg)
         \/ ModifyStepGetData
  PROVE  AsksAnew
<1>1. ASSUME NEW checked, ModifyCheck(checked) PROVE AsksAnew
  <2>1. \E tags : Check(tags, checked)
    BY <1>1 DEF ModifyCheck
  <2>2. DOMAIN fileList' = DOMAIN fileList /\ ListOK'
    BY <1>1, <2>1, CheckKeeps DEF ModifyCheck
  <2> QED
    BY <1>1, <2>2, ModifyStep DEF ModifyCheck
<1>2. ASSUME NEW tags, NEW cfg, ModifySmoothingConfig(tags, cfg) PROVE AsksAnew
  <2>1. /\ DOMAIN fileList' = DOMAIN fileList
        /\ config' = [t \in Tags |-> config'[t]]
        /\ \A c \in DOMAIN fileList : \/ fileList'[c] = [fileList[c] EXCEPT !.smoothingData = 0]
                                      \/ fileList'[c] = fileList[c]
    BY <1>2 DEF ModifySmoothingConfig
  <2>2. \A c \in DOMAIN fileList : Row(fileList'[c])
    BY <2>1, RowParts DEF ListOK
  <2> QED
    BY <1>2, <2>1, <2>2, ModifyStep DEF ModifySmoothingConfig, ListOK
<1>3. CASE ModifyStepGetData
  BY <1>3, ModifyStep DEF ModifyStepGetData, ListOK, store
<1> QED
  BY <1>1, <1>2, <1>3

LEMMA FilePollsKeep ==
  ASSUME TimerInv, NEW s \in FileSlots, AnswerNewFiles(s)
  PROVE  NoneAsked
<1>1. \A t \in ChartSlots : poll'[t] = poll[t]
  BY FrontConstantsOK DEF AnswerNewFiles, TimerInv, Maps
<1> QED
  BY <1>1, SlotsKept

LEMMA FailsKeep ==
  ASSUME TimerInv, NEW s \in Slots, RequestFails(s)
  PROVE  NoneAsked
<1>1. \A t \in ChartSlots : poll'[t] = poll[t] \/ poll'[t].pc # "sent"
  BY SettledPc DEF RequestFails, TimerInv, Maps
<1> QED
  BY <1>1, SlotsKept

LEMMA ChartNext == FrontInv /\ [Next]_vars => ChartInv' /\ ShippedBare'
<1> SUFFICES ASSUME TimerInv, api \in Servers, ChartInv, ShippedBare, [Next]_vars
             PROVE  ChartInv' /\ ShippedBare'
  BY DEF FrontInv
<1>0. api' = api
  BY ServerNext
<1>a. ASSUME Untouched PROVE ChartInv' /\ ShippedBare'
  BY <1>0, <1>a, UntouchedStep
<1>16. ASSUME AsksAnew PROVE ChartInv' /\ ShippedBare'
  BY <1>0, <1>16, AsksAnewStep
<1>b. ASSUME UNCHANGED <<fileList, config, project>>, NoneAsked PROVE ChartInv' /\ ShippedBare'
  BY <1>a, <1>b, SameStore
<1>c. ASSUME UNCHANGED <<fileList, config, project, poll>> PROVE ChartInv' /\ ShippedBare'
  BY <1>b, <1>c, SlotsKept
<1>1. ASSUME NEW n, Create(n) PROVE ChartInv' /\ ShippedBare'
  BY <1>c, <1>1 DEF Create, store, polls
<1>3. ASSUME NEW s \in ChartSlots, ChartsArrive(s) PROVE ChartInv' /\ ShippedBare'
  BY <1>0, <1>3, ChartsArriveStep, BareKept DEF ShippedBare, Bare
<1>4. ASSUME NEW s \in FileSlots, AnswerNewFiles(s) PROVE ChartInv' /\ ShippedBare'
  BY <1>b, <1>4, FilePollsKeep DEF AnswerNewFiles, store
<1>5. ASSUME NEW s \in FileSlots, NewFilesArrive(s) PROVE ChartInv' /\ ShippedBare'
  BY <1>b, <1>5, NewFilesStep, FreePc, SlotsKept DEF NewFilesArrive, store
<1>6. ASSUME NEW s \in Slots, RequestFails(s) PROVE ChartInv' /\ ShippedBare'
  BY <1>b, <1>6, FailsKeep DEF RequestFails, store
<1>7. ASSUME NEW s \in Slots, Timer(s) PROVE ChartInv' /\ ShippedBare'
  BY <1>a, <1>16, <1>7, TimerCharts
<1>8. CASE ShowNewFiles
  BY <1>b, <1>8, ShowStep, FreePc, SlotsKept DEF ShowNewFiles, store
<1>9. CASE ImportFile \/ HandleOk
  BY <1>c, <1>9 DEF ImportFile, HandleOk, store, polls
<1>10. CASE Remove
  BY <1>0, <1>10, RemoveCharts
<1>11. CASE Cancel
  BY <1>b, <1>11, PollNewFilesStep, FreePc, SlotsKept DEF Cancel, store
<1>12. ASSUME NEW u \in UploadSlots, UploadFails(u) PROVE ChartInv' /\ ShippedBare'
  BY <1>c, <1>12 DEF UploadFails, store, polls
<1>13. ASSUME NEW u \in UploadSlots, Uploaded(u) PROVE ChartInv' /\ ShippedBare'
  <2>1. api = "declared"
    BY <1>13 DEF Uploaded, AnswerHasFiles
  <2> QED
    BY <1>0, <1>13, <2>1, UploadedCharts DEF ShippedBare
<1>14. ASSUME NEW u \in UploadSlots, UploadThrows(u) PROVE ChartInv' /\ ShippedBare'
  BY <1>0, <1>14, UploadThrowsStep
<1>15. ASSUME NEW u \in UploadSlots, OkDone(u) PROVE ChartInv' /\ ShippedBare'
  <2>1. api = "declared"
    BY <1>15 DEF OkDone, AnswerHasFiles
  <2> QED
    BY <1>0, <1>15, <2>1, OkStep DEF ShippedBare
<1>17. ASSUME NEW checked, ModifyCheck(checked) PROVE ChartInv' /\ ShippedBare'
  BY <1>16, <1>17, ModifiesAnew DEF ChartInv
<1>18. ASSUME NEW tags, NEW cfg, ModifySmoothingConfig(tags, cfg) PROVE ChartInv' /\ ShippedBare'
  BY <1>16, <1>18, ModifiesAnew DEF ChartInv
<1>19. CASE ModifyStepGetData
  BY <1>16, <1>19, ModifiesAnew DEF ChartInv
<1>20. ASSUME NEW tags, ModifyShowTagList(tags) PROVE ChartInv' /\ ShippedBare'
  BY <1>c, <1>20 DEF ModifyShowTagList, polls
<1>22. CASE ModifyIsTagPolymerize
  <2>1. PICK checked : Check(Tags, checked)
    BY <1>22 DEF ModifyIsTagPolymerize
  <2> QED
    BY <1>a, <1>22, <2>1, ChecksOnly DEF ModifyIsTagPolymerize, polls, ChartInv
<1>23. CASE AggregateChecks
  <2>1. PICK two : Check(Tags, two)
    BY <1>23 DEF AggregateChecks
  <2> QED
    BY <1>a, <1>23, <2>1, ChecksOnly DEF AggregateChecks, polls, ChartInv
<1>24. CASE UNCHANGED vars
  BY <1>c, <1>24 DEF vars, store, polls
<1> QED
  BY <1>1, <1>3, <1>4, <1>5, <1>6, <1>7, <1>8, <1>9, <1>10, <1>11, <1>12, <1>13, <1>14,
     <1>15, <1>17, <1>18, <1>19, <1>20, <1>22, <1>23, <1>24 DEF Next

(* What is added to a chart was asked for where it ends and as it is set   *)
(* now, for any charts, settings and requests, whichever server answers    *)
(* and whatever it answers.                                                *)
THEOREM AnswersAreAskedFor == Spec => []AnswersFit
<1>1. Init => FrontInv
  BY TimerInit, ServerInit, ChartInit DEF FrontInv, Init
<1>2. FrontInv /\ [Next]_vars => FrontInv'
  BY TimerNext, ServerNext, ChartNext DEF FrontInv
<1>3. FrontInv => AnswersFit
  BY DEF FrontInv, ChartInv
<1> QED
  BY <1>1, <1>2, <1>3, PTL DEF Spec

=============================================================================
