------------------------- MODULE BStationBoardProofs -------------------------
(***************************************************************************)
(* What holds of the board for every set of titles and counts, every       *)
(* length of a month and any number of days.                               *)
(***************************************************************************)
EXTENDS BStationBoard, BasicLemmas, TLAPS

(* The day in memory is not before the list's nor, if the board could read  *)
(* it, the file's, and not ahead of the date: a day that begins is          *)
(* therefore new to them.                                                   *)
Days ==
  /\ open /\ ~unread => file.curmonthday <= curmonthday
  /\ listedOn \in Int /\ listedOn <= curmonthday
  /\ ~open => curmonthday = Never /\ m_list = <<>> /\ step = "idle" /\ unread = FALSE

Baselines == TypeOK /\ Days /\ DayHasBaseline /\ SavedBaseline /\ RisesMatchBaseline
-----------------------------------------------------------------------------
(* The counts kept of a video list are a map from titles to counts.         *)
LEMMA StoredType ==
  ASSUME NEW vlist \in VideoLists
  PROVE  Stored(vlist) \in Map
<1> DEFINE T == {vlist[i].title : i \in DOMAIN vlist}
           Last(t, i) == /\ vlist[i].title = t
                         /\ \A j \in DOMAIN vlist : vlist[j].title = t => j <= i
<1>1. PICK n \in 0..MaxVideos : vlist \in [1..n -> Video]
  BY DEF VideoLists
<1>2. \A i \in DOMAIN vlist :
          vlist[i].title \in Titles /\ vlist[i].play \in Counts \cup Garbage
  BY <1>1 DEF Video
<1>3. T \in SUBSET Titles
  BY <1>2
<1>4. ASSUME NEW t \in T
      PROVE  \E i \in DOMAIN vlist : Last(t, i)
  <2> DEFINE P == {i \in 1..n : vlist[i].title = t}
  <2>1. n \in Nat /\ P \in SUBSET (1..n) /\ P # {}
    BY <1>1, BoardAssumption DEF BoardAssumption
  <2>2. PICK i \in P : \A j \in P : j <= i
    <3> HIDE DEF P
    <3> QED BY <2>1, HasGreatest
  <2> QED BY <1>1, <2>2
<1>5. \A t \in T : vlist[CHOOSE i \in DOMAIN vlist : Last(t, i)].play
                   \in Counts \cup Garbage
  <2> HIDE DEF Last, T
  <2> QED BY <1>2, <1>4
<1>6. Stored(vlist) = [t \in T |-> vlist[CHOOSE i \in DOMAIN vlist : Last(t, i)].play]
  BY DEF Stored
<1>7. Stored(vlist) \in [T -> Counts \cup Garbage]
  <2> HIDE DEF Last, T
  <2> QED BY <1>5, <1>6
<1> QED BY <1>3, <1>7 DEF Map

(* No counts is a map too.                                                  *)
LEMMA NothingType == <<>> \in Map
<1>1. <<>> \in [{} -> Counts \cup Garbage]
  OBVIOUS
<1> QED BY <1>1 DEF Map

(* Before the first board there is neither a day nor a file.                *)
LEMMA BaselinesInit == Init => Baselines
<1> SUFFICES ASSUME Init PROVE Baselines
  OBVIOUS
<1>0. NoFile \in [curmonthday : {Never} \cup 0..day, fansnum : Fans \cup {0}, map : Map]
  BY NothingType DEF NoFile
<1>4. m_mapAVData \in Map /\ m_mapAVDataCurrent \in Map
  BY NothingType DEF Init
<1>5. /\ open \in BOOLEAN /\ step = "idle" /\ day = 0 /\ file = NoFile /\ http = "none"
      /\ curmonthday = Never /\ fansnum = 0 /\ IDC_FANSNUM = Blank /\ IDC_FANSUP = 0
      /\ unread \in BOOLEAN
  BY DEF Init
<1>1. TypeOK
  BY <1>0, <1>4, <1>5, BoardAssumption DEF BoardAssumption, TypeOK
<1>2. Days /\ DayHasBaseline /\ SavedBaseline
  BY DEF Init, Days, DayHasBaseline, SavedBaseline, NoFile, Never
<1>3. RisesMatchBaseline
  <2>1. DOMAIN m_list = {}
    BY DEF Init
  <2> QED BY <2>1 DEF RisesMatchBaseline
<1> QED BY <1>1, <1>2, <1>3 DEF Baselines
-----------------------------------------------------------------------------
(* What was open and is gone leaves the file and the date.                  *)
LEMMA GoneStep ==
  ASSUME Baselines, Gone, http' \in {"none", "sent"}
  PROVE  Baselines'
<1> USE DEF Baselines, Gone
<1>0. m_mapAVData' \in Map /\ m_mapAVDataCurrent' \in Map
  BY NothingType
<1>1. TypeOK'
  <2> HIDE DEF Baselines
  <2>1. /\ open' \in BOOLEAN /\ step' = "idle" /\ day' = day /\ file' = file
        /\ curmonthday' = Never /\ fansnum' = 0 /\ IDC_FANSNUM' = Blank /\ IDC_FANSUP' = 0
        /\ unread' \in BOOLEAN
    OBVIOUS
  <2> HIDE DEF Gone
  <2> QED BY <1>0, <2>1 DEF Baselines, TypeOK
<1>2. Days' /\ DayHasBaseline' /\ SavedBaseline'
  BY DEF Days, DayHasBaseline, SavedBaseline, Never
<1>3. RisesMatchBaseline'
  <2>1. DOMAIN m_list' = {}
    OBVIOUS
  <2> QED BY <2>1 DEF RisesMatchBaseline
<1> QED BY <1>1, <1>2, <1>3

(* A new board takes over what the file says of the day.                    *)
LEMMA OpenStep ==
  ASSUME Baselines, OnInitDialog
  PROVE  Baselines'
<1> USE DEF Baselines, OnInitDialog, loadCfg
<1>1. CASE loadCfg(file) /\ unread' = FALSE
  <2>1. m_mapAVDataCurrent' \in Map /\ unread' \in BOOLEAN
    BY <1>1, NothingType
  <2>2. TypeOK'
    BY <1>1, <2>1 DEF TypeOK, Blank
  <2> QED BY <1>1, <2>2
          DEF TypeOK, Days, DayHasBaseline, SavedBaseline, RisesMatchBaseline, Never
<1>2. CASE loadCfg(NoFile) /\ unread' = (file.curmonthday # Never)
  <2>1. m_mapAVData' \in Map /\ m_mapAVDataCurrent' \in Map /\ unread' \in BOOLEAN
    BY <1>2, NothingType DEF NoFile
  <2>2. curmonthday' = Never /\ fansnum' = 0 /\ UNCHANGED <<day, step, file, http>>
    BY <1>2 DEF NoFile
  <2>3. open' = TRUE /\ IDC_FANSNUM' = Blank /\ IDC_FANSUP' = 0
        /\ m_list' = <<>> /\ listedOn' = Never
    OBVIOUS
  <2>4. TypeOK'
    BY <2>1, <2>2, <2>3 DEF TypeOK
  <2>5. unread' = FALSE => file'.curmonthday = Never
    BY <1>2
  <2> QED BY <2>2, <2>3, <2>4, <2>5
          DEF Days, DayHasBaseline, SavedBaseline, RisesMatchBaseline, TypeOK, Never
<1> QED BY <1>1, <1>2

(* The timer begins a day that is later than the file's and the list's.     *)
LEMMA OnTimerStep ==
  ASSUME Baselines, OnTimer
  PROVE  Baselines'
<1> USE DEF Baselines, OnTimer
<1>1. CASE ~DayBegins
  BY <1>1 DEF TypeOK, Days, DayHasBaseline, SavedBaseline, RisesMatchBaseline,
              Rise, data, shown
<1>2. CASE DayBegins
  <2>0. /\ BeginDay /\ open /\ step' = "newFans"
        /\ UNCHANGED <<day, open, IDC_FANSNUM, IDC_FANSUP, m_list, listedOn, file,
                       unread, http>>
    BY <1>2 DEF shown
  <2>1. curmonthday < day /\ curmonthday' = day
        /\ (unread = FALSE => file.curmonthday < day)
    BY <1>2 DEF DayBegins, BeginDay, TypeOK, Days, Never
  <2>2. TypeOK'
    BY <2>0, <2>1 DEF BeginDay, TypeOK
  <2>3. Days' /\ DayHasBaseline'
    <3>1. Days'
      BY <2>0, <2>1 DEF Days, TypeOK, Never
    <3>2. DayHasBaseline'
      BY <1>2, <2>0 DEF BeginDay, DayBegins, DayHasBaseline
    <3> QED BY <3>1, <3>2
  <2>4. SavedBaseline' /\ RisesMatchBaseline'
    <3>1. /\ unread' = FALSE => file'.curmonthday # curmonthday'
          /\ listedOn' # curmonthday'
      BY <2>0, <2>1 DEF Days, TypeOK, Never
    <3> QED BY <3>1 DEF SavedBaseline, RisesMatchBaseline
  <2> QED BY <2>2, <2>3, <2>4
<1> QED BY <1>1, <1>2

(* updateFansNum() touches the followers only, and never unknows them.      *)
LEMMA FansStep ==
  ASSUME Baselines, updateFansNum
  PROVE  Baselines'
<1> USE DEF Baselines
<1>1. /\ fansnum' \in Fans \cup {0} /\ IDC_FANSNUM' \in Fans \cup {Blank}
      /\ IDC_FANSUP' \in Int
      /\ fansnum # 0 => fansnum' = fansnum
  BY BoardAssumption DEF BoardAssumption, updateFansNum, ShowFans, TypeOK
<1>2. TypeOK' /\ Days' /\ DayHasBaseline' /\ RisesMatchBaseline'
  BY <1>1 DEF updateFansNum, TypeOK, Days, DayHasBaseline, RisesMatchBaseline, Rise
<1>3. SavedBaseline'
  BY <1>1 DEF updateFansNum, SavedBaseline
<1> QED BY <1>2, <1>3

(* The rows of a list are computed against the counts in memory.            *)
LEMMA VideosStep ==
  ASSUME Baselines, updateVideoList
  PROVE  Baselines'
<1> USE DEF Baselines
<1>1. PICK vlist \in VideoLists : ShowVideos(vlist)
  BY DEF updateVideoList
<1>2. TypeOK'
  BY <1>1, StoredType DEF updateVideoList, ShowVideos, AfterVideos, TypeOK
<1>7. Days' /\ DayHasBaseline' /\ SavedBaseline'
  BY <1>1 DEF updateVideoList, ShowVideos, Days, DayHasBaseline, SavedBaseline,
              TypeOK, Never
<1>3. ASSUME NEW v \in Video
      PROVE  Row(v).up = IF Row(v).play = Blank THEN 0
                         ELSE Rise(Row(v).title, Row(v).play)
  <2>1. CASE v.isInt
    <3>1. v.play \in Counts
      BY <2>1 DEF Video
    <3>2. v.play # Blank
      BY <3>1, BoardAssumption DEF Blank
    <3> QED BY <2>1, <3>2 DEF Row
  <2>2. CASE ~v.isInt
    BY <2>2 DEF Row
  <2> QED BY <2>1, <2>2
<1>4. PICK n \in 0..MaxVideos : vlist \in [1..n -> Video]
  BY DEF VideoLists
<1>5. \A i \in DOMAIN m_list' :
        m_list'[i].up = IF m_list'[i].play = Blank THEN 0
                        ELSE Rise(m_list'[i].title, m_list'[i].play)
  BY <1>1, <1>3, <1>4 DEF ShowVideos
<1>6. RisesMatchBaseline'
  BY <1>1, <1>5 DEF RisesMatchBaseline, ShowVideos, Rise
<1> QED BY <1>2, <1>6, <1>7

(* Both halves of saveCfg() leave a file that agrees with the memory, or none. *)
LEMMA SaveStep ==
  ASSUME Baselines, saveCfgOpen \/ saveCfgWrite
  PROVE  Baselines'
<1> USE DEF Baselines
<1>1. CASE saveCfgOpen
  <2>1. /\ UNCHANGED <<day, open, data, shown, http>> /\ step' \in {"idle", "write"}
        /\ \/ UNCHANGED <<file, unread>>
           \/ file' = NoFile /\ unread' = FALSE
        /\ open = TRUE
    BY <1>1 DEF saveCfgOpen, Days, TypeOK
  <2>2. NoFile \in [curmonthday : {Never} \cup 0..day, fansnum : Fans \cup {0}, map : Map]
    BY NothingType DEF NoFile
  <2>3. unread' \in BOOLEAN /\ file' \in {file, NoFile}
    BY <2>1 DEF TypeOK
  <2>4. TypeOK'
    BY <2>1, <2>2, <2>3 DEF TypeOK, data, shown
  <2> QED BY <2>1, <2>4
          DEF Days, DayHasBaseline, SavedBaseline, RisesMatchBaseline, Rise, data, shown,
              TypeOK, NoFile, Never
<1>2. CASE saveCfgWrite
  BY <1>2 DEF saveCfgWrite, data, shown, TypeOK, Days, DayHasBaseline, SavedBaseline,
              RisesMatchBaseline, Rise, Never
<1> QED BY <1>1, <1>2

(* The steps that touch neither the counts nor the file.                    *)
LEMMA RestStep ==
  ASSUME Baselines,
         \/ NextDay \/ updateVideoListFails \/ handle_get
         \/ OnGetFansAndAvListJson \/ SendMessageFails \/ UNCHANGED vars
  PROVE  Baselines'
<1> USE DEF Baselines
<1>1. UNCHANGED <<open, data, shown, file, unread>>
  BY DEF NextDay, updateVideoListFails, handle_get, OnGetFansAndAvListJson,
         SendMessageFails, vars
<1>2. TypeOK'
  BY <1>1, BoardAssumption
     DEF BoardAssumption, TypeOK, NextDay, updateVideoListFails, AfterVideos, handle_get,
         OnGetFansAndAvListJson, SendMessageFails, vars, data, shown
<1>3. step' = step \/ step # "idle"
  BY DEF NextDay, updateVideoListFails, handle_get, OnGetFansAndAvListJson,
         SendMessageFails, vars
<1>4. Days' /\ DayHasBaseline' /\ SavedBaseline' /\ RisesMatchBaseline'
  BY <1>1, <1>3 DEF Days, DayHasBaseline, SavedBaseline, RisesMatchBaseline, Rise,
                    data, shown
<1> QED BY <1>2, <1>4

(* Every step keeps the counts of the day's beginning.                      *)
LEMMA BaselinesStep == Baselines /\ [Next]_vars => Baselines'
<1> SUFFICES ASSUME Baselines, [Next]_vars
             PROVE  Baselines'
  OBVIOUS
<1>1. CASE OnInitDialog
  BY <1>1, OpenStep
<1>2. CASE Close \/ Crash
  BY <1>2, GoneStep DEF Close, Crash, Baselines, TypeOK
<1>3. CASE OnTimer
  BY <1>3, OnTimerStep
<1>4. CASE Updating
  BY <1>4, FansStep, VideosStep, SaveStep, RestStep DEF Updating
<1>5. CASE NextDay \/ handle_get \/ OnGetFansAndAvListJson \/ SendMessageFails
           \/ UNCHANGED vars
  BY <1>5, RestStep
<1> QED BY <1>1, <1>2, <1>3, <1>4, <1>5 DEF Next

(* ... and so does every behaviour.                                         *)
LEMMA BaselinesAlways == Spec => []Baselines
BY BaselinesInit, BaselinesStep, PTL DEF Spec
-----------------------------------------------------------------------------
(* The board keeps its types.                                               *)
THEOREM BoardTypeOK == Spec => []TypeOK
BY BaselinesAlways, PTL DEF Baselines

(* No day begins without counts to begin with, in memory or in the file.    *)
THEOREM BoardDayHasBaseline == Spec => []DayHasBaseline
BY BaselinesAlways, PTL DEF Baselines

(* A restart, wherever the board was, does not restart a day that was saved.*)
THEOREM BoardSavedBaseline == Spec => []SavedBaseline
BY BaselinesAlways, PTL DEF Baselines

(* A list shown is one against the counts in memory, or of an earlier day.  *)
THEOREM BoardRisesMatchBaseline == Spec => []RisesMatchBaseline
BY BaselinesAlways, PTL DEF Baselines

(* The number and the rise of the followers change together, or a day or a  *)
(* board begins that knows neither.                                         *)
LEMMA FansRiseStep ==
  ASSUME TypeOK, FansRiseAgrees, [Next]_vars
  PROVE  FansRiseAgrees'
<1>1. CASE UNCHANGED <<fansnum, IDC_FANSNUM, IDC_FANSUP>>
  BY <1>1 DEF FansRiseAgrees
<1>2. CASE OnInitDialog \/ Gone
  BY <1>2 DEF OnInitDialog, Gone, FansRiseAgrees
<1>3. CASE OnTimer /\ DayBegins
  BY <1>3 DEF OnTimer, BeginDay, FansRiseAgrees
<1>4. ASSUME NEW curfans \in Fans, ShowFans(curfans) PROVE FansRiseAgrees'
  <2>1. curfans \in Int /\ fansnum \in Int
    BY BoardAssumption DEF BoardAssumption, TypeOK
  <2>2. CASE fansnum = 0
    BY <1>4, <2>1, <2>2 DEF ShowFans, FansRiseAgrees
  <2>3. CASE fansnum # 0
    BY <1>4, <2>1, <2>3 DEF ShowFans, FansRiseAgrees
  <2> QED BY <2>2, <2>3
<1>5. CASE Next
  BY <1>1, <1>2, <1>3, <1>4, <1>5
     DEF Next, Close, Crash, NextDay, OnTimer, Updating, updateFansNum, updateVideoList,
         ShowVideos, updateVideoListFails, saveCfgOpen, saveCfgWrite, handle_get,
         OnGetFansAndAvListJson, SendMessageFails, data, shown
<1> QED BY <1>1, <1>5 DEF vars, data, shown

(* The rise of the followers shown is that of their number shown against    *)
(* the number the day began with.                                           *)
THEOREM BoardFansRiseAgrees == Spec => []FansRiseAgrees
<1>1. Init => FansRiseAgrees
  BY DEF Init, FansRiseAgrees
<1>2. TypeOK /\ FansRiseAgrees /\ [Next]_vars => FansRiseAgrees'
  BY FansRiseStep
<1> QED BY <1>1, <1>2, BoardTypeOK, PTL DEF Spec
=============================================================================
