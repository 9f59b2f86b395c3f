----------------------------- MODULE AlarmSpeech -----------------------------
(***************************************************************************)
(* AlarmClientDlg.cpp: what the window's thread makes of a notice.  OnTimer*)
(* takes the notices in (processNotice), and speaks one at a time: the     *)
(* speech is fetched, saved in a file named after the second, and a player *)
(* window is made for it.  Destroying and creating that window may dispatch*)
(* further messages, OnTimer among them: that is what m_timerLock is for.  *)
(* Notices are numbered in their order.  m_nextTtsTime is how many seconds *)
(* ahead the time it holds is, -1 when it has passed.  A file's name is the*)
(* number of the first notice that was spoken in its second.               *)
(* The acknowledgement and the picture in the window are left out.         *)
(***************************************************************************)
EXTENDS Integers, Sequences

CONSTANTS MaxNotices,   \* bound on the notices that arrive
          Lengths,      \* seconds notices may last, strlen / 6
          MaxTimers     \* bound on OnTimers within each other

ASSUME SpeechAssumption ==
  MaxNotices \in Nat /\ Lengths \subseteq Nat /\ MaxTimers \in Nat

VARIABLES m_showstate,    \* "SW_HIDE" or "SW_SHOW", for the next OnTimer
          shown,          \* whether the window is
          m_timerLock,
          timers,         \* the OnTimers under way, the running one first
          noticed,        \* how many notices have been taken in
          m_vecTtswords,  \* those still to be spoken
          m_nextTtsTime,
          second,         \* the name of a file saved now, None if it is new
          files,          \* the files that exist
          lastTtsFile,
          m_player,       \* the file m_player was made for
          playing,        \* the file of the player window that exists
          asked,          \* the notices whose speech was asked for, in order
          silent          \* the files no player was made for

speechVars == <<m_showstate, shown, m_timerLock, timers, noticed, m_vecTtswords,
                m_nextTtsTime, second, files, lastTtsFile, m_player, playing,
                asked, silent>>
window == <<m_showstate, shown>>
fileVars == <<second, files, lastTtsFile, m_player, playing, silent>>

None == 0
Words == 1..MaxNotices

(* Where the thread is in the code of the OnTimer that runs.                *)
Place == IF timers = <<>> THEN "idle" ELSE Head(timers).at
Go(at, file) == timers' = <<[at |-> at, file |-> file]>> \o Tail(timers)

(* The thread looks for messages.                                           *)
Dispatches == Place \in {"idle", "destroying", "creating"}
-----------------------------------------------------------------------------
(* Mutant: OnTimer does not look at its lock. *)
OnTimer_Unlocked ==
  /\ Dispatches /\ Len(timers) < MaxTimers
  /\ m_timerLock' = TRUE
  /\ shown' = (m_showstate = "SW_SHOW")
  /\ timers' = <<[at |-> "update", file |-> None]>> \o timers
  /\ UNCHANGED <<m_showstate, noticed, m_vecTtswords, m_nextTtsTime, fileVars, asked>>

OnTimer ==
  /\ Dispatches /\ Len(timers) < MaxTimers
  /\ ~m_timerLock
  /\ m_timerLock' = TRUE
  /\ shown' = (m_showstate = "SW_SHOW")
  /\ timers' = <<[at |-> "update", file |-> None]>> \o timers
  /\ UNCHANGED <<m_showstate, noticed, m_vecTtswords, m_nextTtsTime, fileVars, asked>>

(* update() finds a notice among the packs.                                 *)
processNotice ==
  /\ Place = "update" /\ noticed < MaxNotices
  /\ noticed' = noticed + 1
  /\ m_showstate' = "SW_SHOW"
  /\ m_vecTtswords' = Append(m_vecTtswords, noticed + 1)
  /\ UNCHANGED <<shown, m_timerLock, timers, m_nextTtsTime, fileVars, asked>>

updateEnds ==
  /\ Place = "update"
  /\ Go("speech", None)
  /\ UNCHANGED <<window, m_timerLock, noticed, m_vecTtswords, m_nextTtsTime,
                 fileVars, asked>>
-----------------------------------------------------------------------------
(* The end of OnTimer. *)
TimerEnds == m_timerLock' = FALSE /\ timers' = Tail(timers)

(* A notice is done with, spoken or not.                                    *)
WordEnds == m_vecTtswords # <<>> /\ m_vecTtswords' = Tail(m_vecTtswords) /\ TimerEnds

(* Mutant: the next notice may begin in the second the last one ends in. *)
TimeToSpeak_Early == m_nextTtsTime <= 0

TimeToSpeak == m_nextTtsTime < 0

(* Mutant: with nothing to speak the lock stays set. *)
ttsUpdateThread_nothing_Locked ==
  /\ Place = "speech"
  /\ m_vecTtswords = <<>> \/ ~TimeToSpeak
  /\ timers' = Tail(timers)
  /\ UNCHANGED <<window, m_timerLock, noticed, m_vecTtswords, m_nextTtsTime,
                 fileVars, asked>>

(* The player may still be speaking.                                        *)
ttsUpdateThread_nothing ==
  /\ Place = "speech"
  /\ m_vecTtswords = <<>> \/ ~TimeToSpeak
  /\ TimerEnds
  /\ UNCHANGED <<window, noticed, m_vecTtswords, m_nextTtsTime, fileVars, asked>>

(* curlGet(), which may fail.                                               *)
AskSpeech ==
  /\ Place = "speech" /\ m_vecTtswords # <<>> /\ TimeToSpeak
  /\ asked' = Append(asked, Head(m_vecTtswords))
  /\ \/ WordEnds
     \/ Go("save", None) /\ UNCHANGED <<m_timerLock, m_vecTtswords>>
  /\ UNCHANGED <<window, noticed, m_nextTtsTime, fileVars>>

FileName == IF second = None THEN Head(m_vecTtswords) ELSE second

(* DeleteFile(), which may fail while a player has the file open.           *)
Deletes(file, others) ==
  files' \in {others \ {file}} \cup (IF file = playing THEN {others} ELSE {})

(* The file is written, or cannot be; then the last one is deleted and its  *)
(* player destroyed.                                                        *)
SaveSpeech ==
  /\ Place = "save"
  /\ second' = FileName
  /\ \/ WordEnds /\ UNCHANGED <<files, playing>>
     \/ /\ IF lastTtsFile = None THEN files' = files \cup {FileName}
           ELSE Deletes(lastTtsFile, files \cup {FileName})
        /\ Go(IF m_player # None THEN "destroying" ELSE "create", FileName)
        /\ playing' = None
        /\ UNCHANGED <<m_timerLock, m_vecTtswords>>
  /\ UNCHANGED <<window, noticed, m_nextTtsTime, lastTtsFile, m_player, asked, silent>>

PlayerDestroyed ==
  /\ Place = "destroying"
  /\ Go("create", Head(timers).file)
  /\ UNCHANGED <<window, m_timerLock, noticed, m_vecTtswords, m_nextTtsTime,
                 fileVars, asked>>

(* Without a device there is no player, and m_player keeps its old value.   *)
CreatePlayer ==
  /\ Place = "create"
  /\ lastTtsFile' = Head(timers).file
  /\ \/ WordEnds /\ silent' = silent \cup {lastTtsFile'}
     \/ Go("creating", lastTtsFile') /\ UNCHANGED <<m_timerLock, m_vecTtswords, silent>>
  /\ UNCHANGED <<window, noticed, m_nextTtsTime, second, files, m_player, playing, asked>>

PlayerCreated ==
  /\ Place = "creating"
  /\ m_player' = Head(timers).file /\ playing' = m_player'
  /\ m_nextTtsTime' \in Lengths
  /\ WordEnds
  /\ UNCHANGED <<window, noticed, second, files, lastTtsFile, asked, silent>>

PlayerFails ==
  /\ Place = "creating"
  /\ m_player' = None
  /\ silent' = silent \cup {Head(timers).file}
  /\ WordEnds
  /\ UNCHANGED <<window, noticed, m_nextTtsTime, second, files, lastTtsFile, playing, asked>>

Timer == \/ OnTimer \/ processNotice \/ updateEnds \/ ttsUpdateThread_nothing
         \/ AskSpeech \/ SaveSpeech \/ PlayerDestroyed \/ CreatePlayer
         \/ PlayerCreated \/ PlayerFails
-----------------------------------------------------------------------------
(* OnClose, OnBnClickedOk; OnRbtnShowAlarm, OnNotifyIcon.                   *)
UserShows ==
  /\ Dispatches
  /\ m_showstate' \in {"SW_HIDE", "SW_SHOW"}
  /\ UNCHANGED <<shown, m_timerLock, timers, noticed, m_vecTtswords,
                 m_nextTtsTime, fileVars, asked>>

(* A second passes.                                                         *)
Second ==
  /\ m_nextTtsTime' = IF m_nextTtsTime < 0 THEN m_nextTtsTime ELSE m_nextTtsTime - 1
  /\ second' = None
  /\ UNCHANGED <<window, m_timerLock, timers, noticed, m_vecTtswords, files,
                 lastTtsFile, m_player, playing, asked, silent>>

SpeechInit ==
  /\ m_showstate = "SW_HIDE" /\ shown = FALSE
  /\ m_timerLock = FALSE /\ timers = <<>>
  /\ noticed = 0 /\ m_vecTtswords = <<>>
  /\ m_nextTtsTime = -1
  /\ second = None /\ files = {} /\ lastTtsFile = None
  /\ m_player = None /\ playing = None
  /\ asked = <<>> /\ silent = {}
-----------------------------------------------------------------------------
(* Speech is asked for once for each notice, in the order of the notices,   *)
(* and no notice is given up that it was not asked for: the vector's first  *)
(* element is the same when it is asked for, played and erased, whatever    *)
(* messages the player's window dispatches meanwhile.                       *)
WordsInOrder ==
  LET n == Len(asked) IN
  /\ asked = [k \in 1..n |-> k]
  /\ \E k \in {n, n - 1} :
       m_vecTtswords = [j \in 1..(noticed - k) |-> k + j]

(* A player is made for a file that exists, although the file of the last   *)
(* speech is deleted after the new one was written and both may have the    *)
(* same name: only if nothing could be played in the same second before.    *)
PlayerHasFile ==
  [][playing' # playing /\ playing' # None => playing' \in files \cup silent]_speechVars

(* Notices do not pile up: after the last one has come, all are spoken or   *)
(* given up, whichever fetching, saving and playing fails.  And a notice    *)
(* makes the window appear, unless the user hides it.                       *)
NoticesHandled ==
  /\ (m_vecTtswords # <<>>) ~> (m_vecTtswords = <<>>)
  /\ (m_showstate = "SW_SHOW") ~> (shown \/ m_showstate = "SW_HIDE")
=============================================================================
