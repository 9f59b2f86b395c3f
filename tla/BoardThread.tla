----------------------------- MODULE BoardThread -----------------------------
(***************************************************************************)
(* AlarmClientDlg.cpp: the board is opened by the menu, on the window's    *)
(* thread, and lives on a thread of its own, which deletes its thread      *)
(* object and sets m_pThread to NULL when the board is closed.  Neither    *)
(* takes a lock, so each read and write of m_pThread is a step.  g_hwnd is *)
(* the board http requests are sent to (BStationBoard.cpp:62).             *)
(***************************************************************************)
CONSTANTS Boards,   \* threads that may be running at a time
          NULL

ASSUME BoardsAssumption == NULL \notin Boards

VARIABLES m_pThread,
          starting,   \* the thread OnRbtnBStation() has started, and not yet
                      \* assigned to m_pThread
          place,      \* where each thread is in onPopBStationBoard()
          g_hwnd,     \* the board whose window is known, also when it is gone
          early       \* a thread was over before it was assigned

boardVars == <<m_pThread, starting, place, g_hwnd, early>>
-----------------------------------------------------------------------------
(* Mutant: a click does not see that there is a board. *)
OnRbtnBStation_Again(k) ==
  /\ starting = NULL
  /\ place[k] = "none" /\ m_pThread # k
  /\ starting' = k
  /\ place' = [place EXCEPT ![k] = "create"]
  /\ UNCHANGED <<m_pThread, g_hwnd, early>>

(* new boost::thread(), from which on the thread runs.                      *)
OnRbtnBStation(k) ==
  /\ starting = NULL
  /\ m_pThread = NULL
  /\ place[k] = "none"
  /\ starting' = k
  /\ place' = [place EXCEPT ![k] = "create"]
  /\ UNCHANGED <<m_pThread, g_hwnd, early>>

ThreadAssigned ==
  /\ starting # NULL
  /\ m_pThread' = starting
  /\ starting' = NULL
  /\ UNCHANGED <<place, g_hwnd, early>>
-----------------------------------------------------------------------------
(* dlg.Create(), up to RunModalLoop().                                      *)
CreateBoard(k) ==
  /\ place[k] = "create"
  /\ place' = [place EXCEPT ![k] = "loop"]
  /\ g_hwnd' = k
  /\ UNCHANGED <<m_pThread, starting, early>>

(* The user closes the board.                                               *)
CloseBoard(k) ==
  /\ place[k] = "loop"
  /\ place' = [place EXCEPT ![k] = "delete"]
  /\ UNCHANGED <<m_pThread, starting, g_hwnd, early>>

(* Mutant: the pointer is left as it is. *)
DeleteThread_Dangling(k) ==
  /\ place[k] = "delete"
  /\ place' = [place EXCEPT ![k] = "end"]
  /\ early' = (early \/ m_pThread = NULL)
  /\ UNCHANGED <<m_pThread, starting, g_hwnd>>

(* SafeDelete(): nothing is done with a NULL pointer.                       *)
DeleteThread(k) ==
  /\ place[k] = "delete"
  /\ place' = [place EXCEPT ![k] = IF m_pThread = NULL THEN "end" ELSE "clear"]
  /\ early' = (early \/ m_pThread = NULL)
  /\ UNCHANGED <<m_pThread, starting, g_hwnd>>

ClearThread(k) ==
  /\ place[k] = "clear"
  /\ place' = [place EXCEPT ![k] = "end"]
  /\ m_pThread' = NULL
  /\ UNCHANGED <<starting, g_hwnd, early>>

(* dlg is destroyed, and the thread ends.                                   *)
ThreadEnds(k) ==
  /\ place[k] = "end"
  /\ place' = [place EXCEPT ![k] = "none"]
  /\ UNCHANGED <<m_pThread, starting, g_hwnd, early>>

onPopBStationBoard(k) ==
  \/ CreateBoard(k) \/ CloseBoard(k) \/ DeleteThread(k) \/ ClearThread(k)
  \/ ThreadEnds(k)

BoardInit ==
  /\ m_pThread = NULL /\ starting = NULL
  /\ place = [k \in Boards |-> "none"]
  /\ g_hwnd = NULL
  /\ early = FALSE

(* A window whose thread does not look for messages keeps a sender waiting. *)
SendMessageReturns ==
  \A k \in Boards : g_hwnd = k => place[k] \notin {"delete", "clear", "end"}
-----------------------------------------------------------------------------
(* One board is open at most, and requests are sent to it, although threads *)
(* of boards that were closed may still be running.                         *)
OneBoardShown == \A k \in Boards : place[k] = "loop" => g_hwnd = k

(* A board that was closed can be opened again: m_pThread is not NULL only  *)
(* for a thread that will set it to NULL; unless a thread was over before   *)
(* it was assigned, after which no board can be opened ever again.          *)
BoardReopens ==
  m_pThread # NULL => early \/ place[m_pThread] \in {"create", "loop", "delete", "clear"}
=============================================================================
