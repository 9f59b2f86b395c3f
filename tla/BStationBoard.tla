---------------------------- MODULE BStationBoard ----------------------------
(***************************************************************************)
(* BStationBoard.cpp: the board that shows the followers and the videos of *)
(* a channel, and how much each has risen since the day began.  The counts *)
(* of a day's beginning are kept in a file, so that closing the board, or  *)
(* a crash, does not restart the day.                                      *)
(* The board's own thread runs the timer; OnTimer is a chain of steps,     *)
(* each of which may be the last before a crash.  The http server's thread *)
(* asks the board for what it shows with SendMessage.                      *)
(* The four counts of a video (play, video_review, comment, favorites) are *)
(* treated alike and stand here as one.  curmonthday is the day itself, of *)
(* which the code sees the day of the month only.                          *)
(***************************************************************************)
EXTENDS Integers, Sequences, FiniteSets

CONSTANTS Titles,       \* titles of videos
          Counts,       \* how often a video may have been played
          Garbage,      \* what an integer that is not set may hold
          Word,         \* 2^32: differences are kept modulo this
          Fans,         \* numbers of followers
          MaxVideos,    \* bound on the length of a video list
          DaysInMonth,  \* every month is as long
          MaxDay        \* bound on the days that pass

ASSUME BoardAssumption ==
  /\ Counts \subseteq Nat /\ Fans \subseteq Nat
  /\ Garbage \subseteq Int /\ Word \in Nat \ {0}
  /\ MaxVideos \in Nat /\ DaysInMonth \in Nat \ {0} /\ MaxDay \in Nat

VARIABLES day,                 \* the date
          open,                \* the board's window exists
          step,                \* where OnTimer is
          m_mapAVData,         \* the counts at the day's beginning
          m_mapAVDataCurrent,  \* the counts last read
          curmonthday,         \* m_currentDayFirstData: the day begun,
          fansnum,             \* ... and the followers then, 0 for unknown
          IDC_FANSNUM,         \* what the window shows: followers,
          IDC_FANSUP,          \* ... their rise,
          m_list,              \* ... and the videos
          listedOn,            \* curmonthday when m_list was filled
          file,                \* bilibilicfg.dat
          unread,              \* the board runs beside a file that has a day
                               \* and could not be opened (history)
          http                 \* the request for the board's data

data == <<m_mapAVData, m_mapAVDataCurrent, curmonthday, fansnum>>
shown == <<IDC_FANSNUM, IDC_FANSUP, m_list, listedOn>>
vars == <<day, open, step, data, shown, file, unread, http>>

Never == -1   \* curmonthday before any day has begun
Blank == -1   \* what the window shows before a number was read
NoFile == [curmonthday |-> Never, fansnum |-> 0, map |-> <<>>]
            \* what loadCfg() makes of no file or an empty one
tm_mday(d) == IF d = Never THEN Never ELSE d % DaysInMonth

(* An entry of "vlist": a play count that is no integer is not stored, so   *)
(* that the local avdata keeps whatever the stack held.                     *)
Video == [title : Titles, play : Counts, isInt : {TRUE}]
         \cup [title : Titles, play : Garbage, isInt : {FALSE}]
VideoLists == UNION {[1..n -> Video] : n \in 0..MaxVideos}
Map == UNION {[T -> Counts \cup Garbage] : T \in SUBSET Titles}
-----------------------------------------------------------------------------
loadCfg(fp) ==
  /\ m_mapAVData' = fp.map
  /\ curmonthday' = fp.curmonthday
  /\ fansnum' = fp.fansnum

(* OnInitDialog() of a new board, with loadCfg(): also a file that is there *)
(* may fail to open, and is then taken for none.                            *)
OnInitDialog ==
  /\ ~open
  /\ open' = TRUE
  /\ \/ loadCfg(file) /\ unread' = FALSE
     \/ loadCfg(NoFile) /\ unread' = (file.curmonthday # Never)
  /\ m_mapAVDataCurrent' = <<>>
  /\ IDC_FANSNUM' = Blank /\ IDC_FANSUP' = 0
  /\ m_list' = <<>> /\ listedOn' = Never
  /\ UNCHANGED <<day, step, file, http>>

(* Mutant: a day begins whether or not anything has been read. *)
DayBegins_Always == tm_mday(day) # tm_mday(curmonthday)

DayBegins == /\ tm_mday(day) # tm_mday(curmonthday)
             /\ DOMAIN m_mapAVDataCurrent # {}

(* Mutant: the day that begins is not noted. *)
BeginDay_KeepsDay ==
  /\ m_mapAVData' = m_mapAVDataCurrent
  /\ fansnum' = 0
  /\ UNCHANGED <<m_mapAVDataCurrent, curmonthday>>

(* A day begins with the counts last read; the followers are to be read.    *)
BeginDay ==
  /\ m_mapAVData' = m_mapAVDataCurrent
  /\ curmonthday' = day
  /\ fansnum' = 0
  /\ UNCHANGED m_mapAVDataCurrent

(* OnTimer() as far as updateBStation(), every minute.                      *)
OnTimer ==
  /\ open /\ step = "idle"
  /\ IF DayBegins THEN BeginDay /\ step' = "newFans"
                  ELSE UNCHANGED data /\ step' = "fans"
  /\ UNCHANGED <<day, open, shown, file, unread, http>>

(* Mutant: the rise is left as it was when the followers are first known. *)
ShowFans_KeepsRise(curfans) ==
  /\ IDC_FANSNUM' = curfans
  /\ IF fansnum = 0
     THEN fansnum' = curfans /\ UNCHANGED IDC_FANSUP
     ELSE fansnum' = fansnum /\ IDC_FANSUP' = curfans - fansnum

ShowFans(curfans) ==
  /\ IDC_FANSNUM' = curfans
  /\ IF fansnum = 0
     THEN fansnum' = curfans /\ IDC_FANSUP' = 0
     ELSE fansnum' = fansnum /\ IDC_FANSUP' = curfans - fansnum

(* updateFansNum(), which does nothing when the number cannot be had.       *)
updateFansNum ==
  /\ step \in {"fans", "newFans"}
  /\ step' = IF step = "fans" THEN "videos" ELSE "newVideos"
  /\ \/ \E curfans \in Fans : ShowFans(curfans)
     \/ UNCHANGED <<fansnum, IDC_FANSNUM, IDC_FANSUP>>
  /\ UNCHANGED <<day, open, m_mapAVData, m_mapAVDataCurrent, curmonthday,
                 m_list, listedOn, file, unread, http>>

(* a - b of two ints, of which one may be any.                              *)
Minus(a, b) == ((a - b + (Word \div 2)) % Word) - (Word \div 2)

(* The rise of a title that now has the count n: blank, or 0, unless it is  *)
(* positive.                                                                *)
Rise(title, n) ==
  IF title \in DOMAIN m_mapAVData /\ Minus(n, m_mapAVData[title]) > 0
  THEN Minus(n, m_mapAVData[title]) ELSE 0

Row(v) == [title |-> v.title,
           play |-> IF v.isInt THEN v.play ELSE Blank,
           up |-> IF v.isInt THEN Rise(v.title, v.play) ELSE 0]

(* Of two videos of one title the later one counts.                         *)
Stored(vlist) ==
  [t \in {vlist[i].title : i \in DOMAIN vlist} |->
     vlist[CHOOSE i \in DOMAIN vlist :
             /\ vlist[i].title = t
             /\ \A j \in DOMAIN vlist : vlist[j].title = t => j <= i].play]

(* Mutant: the counts read are taken for the day's first ones. *)
ShowVideos_Rebases(vlist) ==
  /\ m_list' = [i \in DOMAIN vlist |-> Row(vlist[i])]
  /\ listedOn' = curmonthday
  /\ m_mapAVDataCurrent' = Stored(vlist)
  /\ m_mapAVData' = Stored(vlist)

ShowVideos(vlist) ==
  /\ m_list' = [i \in DOMAIN vlist |-> Row(vlist[i])]
  /\ listedOn' = curmonthday
  /\ m_mapAVDataCurrent' = Stored(vlist)
  /\ UNCHANGED m_mapAVData

AfterVideos == IF step = "videos" THEN "idle" ELSE "save"

(* updateVideoList() with an answer, and without.                           *)
updateVideoList ==
  /\ step \in {"videos", "newVideos"}
  /\ step' = AfterVideos
  /\ \E vlist \in VideoLists : ShowVideos(vlist)
  /\ UNCHANGED <<day, open, curmonthday, fansnum, IDC_FANSNUM, IDC_FANSUP,
                 file, unread, http>>

updateVideoListFails ==
  /\ step \in {"videos", "newVideos"}
  /\ step' = AfterVideos
  /\ UNCHANGED <<day, open, data, shown, file, unread, http>>

(* saveCfg(): fopen() fails, or empties the file; all of it is then written *)
(* at once, by fclose(), for the 14 videos asked for fit a FILE's buffer.   *)
saveCfgOpen ==
  /\ step = "save"
  /\ \/ step' = "idle" /\ UNCHANGED <<file, unread>>
     \/ step' = "write" /\ file' = NoFile /\ unread' = FALSE
  /\ UNCHANGED <<day, open, data, shown, http>>

saveCfgWrite ==
  /\ step = "write"
  /\ step' = "idle"
  /\ file' = [curmonthday |-> curmonthday, fansnum |-> fansnum, map |-> m_mapAVData]
  /\ UNCHANGED <<day, open, data, shown, unread, http>>
-----------------------------------------------------------------------------
(* handle_get() sends CALLBACKBJSON to the window and waits; a sent message *)
(* is handled between two others, and returns at once without a window.     *)
handle_get ==
  /\ http = "none"
  /\ http' = "sent"
  /\ UNCHANGED <<day, open, step, data, shown, file, unread>>

OnGetFansAndAvListJson ==
  /\ http = "sent"
  /\ open /\ step = "idle"
  /\ http' = "none"
  /\ UNCHANGED <<day, open, step, data, shown, file, unread>>

(* Mutant: a request that finds no window waits for one. *)
SendMessageFails_Waits == FALSE /\ UNCHANGED vars

SendMessageFails ==
  /\ http = "sent"
  /\ ~open
  /\ http' = "none"
  /\ UNCHANGED <<day, open, step, data, shown, file, unread>>

Gone == /\ open' = FALSE
        /\ step' = "idle"
        /\ m_mapAVData' = <<>> /\ m_mapAVDataCurrent' = <<>>
        /\ curmonthday' = Never /\ fansnum' = 0
        /\ IDC_FANSNUM' = Blank /\ IDC_FANSUP' = 0
        /\ m_list' = <<>> /\ listedOn' = Never
        /\ unread' = FALSE
        /\ UNCHANGED <<day, file>>

(* The user closes the board: nothing is saved.                             *)
Close == open /\ step = "idle" /\ Gone /\ UNCHANGED http

(* The program ends, wherever it is.                                        *)
Crash == open /\ Gone /\ http' = "none"

NextDay == /\ day < MaxDay
           /\ day' = day + 1
           /\ UNCHANGED <<open, step, data, shown, file, unread, http>>
-----------------------------------------------------------------------------
Init == /\ day = 0
        /\ open = FALSE /\ step = "idle"
        /\ m_mapAVData = <<>> /\ m_mapAVDataCurrent = <<>>
        /\ curmonthday = Never /\ fansnum = 0
        /\ IDC_FANSNUM = Blank /\ IDC_FANSUP = 0
        /\ m_list = <<>> /\ listedOn = Never
        /\ file = NoFile /\ unread = FALSE
        /\ http = "none"

Updating == updateFansNum \/ updateVideoList \/ updateVideoListFails
            \/ saveCfgOpen \/ saveCfgWrite

Next == \/ OnInitDialog \/ Close \/ Crash \/ NextDay
        \/ OnTimer \/ Updating
        \/ handle_get \/ OnGetFansAndAvListJson \/ SendMessageFails

(* The timer fires again and again and its handler ends: a transfer is      *)
(* given 10 s.  A message sent from another thread is handled before the    *)
(* next timer message.                                                      *)
Fairness == /\ WF_vars(OnTimer) /\ WF_vars(Updating)
            /\ SF_vars(OnGetFansAndAvListJson) /\ WF_vars(SendMessageFails)

(* What the site is trusted with, for the days to begin: that a list with   *)
(* something in it is had again and again.                                  *)
SiteAnswers == SF_vars(updateVideoList /\ m_list' # <<>>)

Spec == Init /\ [][Next]_vars /\ Fairness /\ SiteAnswers
-----------------------------------------------------------------------------
(* The variables keep their types.                                          *)
TypeOK ==
  /\ day \in 0..MaxDay
  /\ open \in BOOLEAN
  /\ step \in {"idle", "fans", "newFans", "videos", "newVideos", "save", "write"}
  /\ m_mapAVData \in Map /\ m_mapAVDataCurrent \in Map
  /\ curmonthday \in {Never} \cup 0..day
  /\ fansnum \in Fans \cup {0}
  /\ IDC_FANSNUM \in Fans \cup {Blank}
  /\ IDC_FANSUP \in Int
  /\ file \in [curmonthday : {Never} \cup 0..day, fansnum : Fans \cup {0}, map : Map]
  /\ unread \in BOOLEAN
  /\ http \in {"none", "sent"}

(* A day never begins without counts to begin with, neither in memory nor   *)
(* in what a crash leaves of the file: otherwise no rise would be shown     *)
(* until the next day.                                                      *)
DayHasBaseline ==
  /\ curmonthday # Never => DOMAIN m_mapAVData # {}
  /\ file.curmonthday # Never => DOMAIN file.map # {}

(* Closing the board and opening it anew, or a crash, does not restart a    *)
(* day that was saved: the file has the videos' counts of the day that is   *)
(* in memory, and the followers, if they were known when it was saved.  A   *)
(* board that could not open the file begins the day anew, until it saves.  *)
SavedBaseline ==
  ~unread /\ curmonthday # Never /\ file.curmonthday = curmonthday =>
    file.map = m_mapAVData /\ file.fansnum \in {0, fansnum}

(* The rises shown are those against the counts of the day in memory, or    *)
(* nothing could be read since the day began: the list is never left        *)
(* computed against counts that were replaced afterwards.                   *)
RisesMatchBaseline ==
  listedOn = curmonthday =>
    \A i \in DOMAIN m_list :
      m_list[i].up = IF m_list[i].play = Blank THEN 0
                     ELSE Rise(m_list[i].title, m_list[i].play)

(* Once the followers at the day's beginning are known, their number and    *)
(* their rise on the window belong together.                                *)
FansRiseAgrees ==
  fansnum # 0 /\ IDC_FANSNUM # Blank => IDC_FANSUP = IDC_FANSNUM - fansnum

(* A board that stays open begins the new day, however many transfers fail, *)
(* as long as they do not all.                                              *)
DayDawns ==
  (open /\ tm_mday(day) # tm_mday(curmonthday)) ~>
    (~open \/ tm_mday(day) = tm_mday(curmonthday))

(* A request to the http server is answered: the board is between two       *)
(* messages again and again, or its window is gone.                         *)
RequestAnswered == (http = "sent") ~> (http = "none")
=============================================================================
