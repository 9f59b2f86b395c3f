------------------------------- MODULE AlarmApp -------------------------------
(***************************************************************************)
(* The threads of the application and where they meet.  The window's thread*)
(* speaks notices (AlarmSpeech) and, when it looks for messages, opens the *)
(* board; each board has a thread (BoardThread); the http server's thread  *)
(* decodes a request (RequestHandler) and, if it asks for the board's data,*)
(* waits for the board's window.                                           *)
(* Decoding touches nothing the others do: they move once a request of     *)
(* handle_get() for one of the uris Beside is decoded.                     *)
(***************************************************************************)
EXTENDS RequestHandler, AlarmSpeech, BoardThread

CONSTANT Beside   \* bound: the other threads move beside these uris

appVars == <<vars, speechVars, boardVars>>

(* handle_get() sends a message to g_hwnd before it replies.                *)
HttpThread ==
  /\ Next
  /\ handler = "get" /\ status' = "ok" => SendMessageReturns
  /\ UNCHANGED <<speechVars, boardVars>>

Beneath == /\ handler = "get" /\ encd \in Beside /\ i >= Len(encd)
           /\ UNCHANGED vars

(* OnRbtnBStation() keeps the window's thread until m_pThread is assigned.  *)
TimerThread == Beneath /\ starting = NULL /\ Timer /\ UNCHANGED boardVars

User == /\ Beneath /\ starting = NULL
        /\ \/ UserShows /\ UNCHANGED boardVars
           \/ Dispatches /\ (\E k \in Boards : OnRbtnBStation(k)) /\ UNCHANGED speechVars

Assigned == Beneath /\ ThreadAssigned /\ UNCHANGED speechVars

Board(k) == Beneath /\ onPopBStationBoard(k) /\ UNCHANGED speechVars

Clock == Beneath /\ Second /\ UNCHANGED boardVars

AppInit == Init /\ SpeechInit /\ BoardInit

AppNext == \/ HttpThread \/ TimerThread \/ User \/ Assigned \/ Clock
           \/ \E k \in Boards : Board(k)

(* The window's thread runs, its timer fires again and again, and time      *)
(* passes.  The user, the boards and the requests may do nothing at all.    *)
AppSpec == AppInit /\ [][AppNext]_appVars
           /\ SF_appVars(TimerThread) /\ WF_appVars(Assigned) /\ WF_appVars(Clock)
=============================================================================
