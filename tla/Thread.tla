------------------------------- MODULE Thread -------------------------------
(***************************************************************************)
(* CThread (Thread.cpp) with its CCondition (Condition.cpp): the object    *)
(* that starts a thread and ends it.  The sections under m_Lock are short  *)
(* and wait for nothing, so each is one function of the object's state;    *)
(* the wait in the middle of Terminate, which gives the lock back, is      *)
(* where the modules that use these functions cut.  The event is one that  *)
(* stays set until the waiter, with the lock again, resets it.             *)
(***************************************************************************)
CONSTANT NoThread     \* INVALID_HANDLE_VALUE

(* t.hThread is the thread started last, t.running what its loop reads.    *)
NewThread == [hThread |-> NoThread, running |-> FALSE, event |-> FALSE]

ThreadObject(Threads) ==
  [hThread : Threads \cup {NoThread}, running : BOOLEAN, event : BOOLEAN]

Starts(t) == t.hThread = NoThread /\ ~t.running

(* Start, with the thread the system makes for it.                         *)
Start(t, thread) ==
  IF Starts(t) THEN [t EXCEPT !.hThread = thread, !.running = TRUE] ELSE t

(* Terminate up to the wait, which takes place only if t was running.      *)
Stopping(t) == [t EXCEPT !.running = FALSE]

(* The rest of Terminate, after the wait.                                  *)
Stopped(t) == [t EXCEPT !.hThread = NoThread, !.event = FALSE]

(* Broadcast, the last thing the thread does.                              *)
Broadcast(t) == [t EXCEPT !.event = TRUE]
=============================================================================
