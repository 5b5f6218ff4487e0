--------------------------- MODULE EventLoopThread ---------------------------
(***************************************************************************)
(* An EventLoop and the thread that runs it: src/net/EventLoopThread.cc.   *)
(*                                                                         *)
(* The owner (the base loop's thread) starts the thread, waits on the      *)
(* condition variable until the new thread has published its loop, lets    *)
(* others use the loop, and in the end destroys the EventLoopThread: it    *)
(* calls quit() on the published loop and joins the thread.                *)
(*                                                                         *)
(* Callers post only between startLoop() and the destructor: nothing in    *)
(* the code protects a loop from being used after that, it is the duty of  *)
(* its users.                                                              *)
(***************************************************************************)
EXTENDS EventLoop

CONSTANT Owner        \* the thread that owns the EventLoopThread

ASSUME OwnerAssumption == Owner \in Threads

VARIABLES ownerPc,    \* where the owner is
          threadPc,   \* where threadFunc is
          loopPtr     \* loop_ # nullptr

vars == <<loopPc, quit, calling, wakeupFd, wakeActive, pending, batch, posted,
          ran, caller, ownerPc, threadPc, loopPtr>>
threadVars == <<ownerPc, threadPc, loopPtr>>

TInit == /\ Init
         /\ ownerPc = "new"
         /\ threadPc = "none"
         /\ loopPtr = FALSE

-----------------------------------------------------------------------------
(* The owner.                                                               *)

StartThread ==
    /\ ownerPc = "new"
    /\ ownerPc' = "waiting"
    /\ threadPc' = "constructing"
    /\ UNCHANGED <<loopVars, loopPtr>>

\* cond_.wait(lock, loop_ != nullptr) returns.
Mut_StartLoopDoesNotWait ==
    /\ ownerPc = "waiting"
    /\ ownerPc' = "serving"
    /\ UNCHANGED <<loopVars, threadPc, loopPtr>>

StartLoopReturns ==
    /\ ownerPc = "waiting"
    /\ loopPtr
    /\ ownerPc' = "serving"
    /\ UNCHANGED <<loopVars, threadPc, loopPtr>>

\* ~EventLoopThread reads loop_ without the mutex, then calls quit().
DestroyQuit ==
    /\ ownerPc = "serving"
    /\ \A t \in Threads : caller[t] = "idle"
    /\ loopPtr
    /\ ownerPc' = "quitting"
    /\ Quit(Owner)
    /\ UNCHANGED <<threadPc, loopPtr>>

DestroyWakeup ==
    /\ ownerPc = "quitting"
    /\ ownerPc' = "joining"
    /\ Wakeup(Owner)
    /\ UNCHANGED <<threadPc, loopPtr>>

JoinReturns ==
    /\ ownerPc = "joining"
    /\ threadPc = "finished"
    /\ ownerPc' = "destroyed"
    /\ UNCHANGED <<loopVars, threadPc, loopPtr>>

-----------------------------------------------------------------------------
(* threadFunc, in the new thread.                                           *)

Publish ==
    /\ threadPc = "constructing"
    /\ threadPc' = "published"
    /\ loopPtr' = TRUE
    /\ UNCHANGED <<loopVars, ownerPc>>

RunLoop ==
    /\ threadPc = "published"
    /\ Start
    /\ threadPc' = "looping"
    /\ UNCHANGED <<ownerPc, loopPtr>>

\* loop() has returned: loop_ is cleared and the loop object dies.
ThreadEnds ==
    /\ threadPc = "looping"
    /\ loopPc = "exited"
    /\ threadPc' = "finished"
    /\ loopPtr' = FALSE
    /\ UNCHANGED <<loopVars, ownerPc>>

-----------------------------------------------------------------------------
Users == Threads \ {Owner}

LoopThread == \/ Publish
              \/ RunLoop
              \/ ThreadEnds
              \/ LoopStep /\ UNCHANGED threadVars

OwnerStep == StartLoopReturns \/ DestroyWakeup \/ JoinReturns

TNext ==
    \/ StartThread
    \/ OwnerStep
    \/ DestroyQuit
    \/ LoopThread
    \/ (PollOther \/ HandleChannel) /\ UNCHANGED threadVars
    \/ \E t \in Users : /\ ownerPc = "serving"
                        /\ QueueInLoop(t)
                        /\ UNCHANGED threadVars
    \/ \E t \in Users : Wakeup(t) /\ UNCHANGED threadVars

TSpec == /\ TInit
         /\ [][TNext]_vars
         /\ WF_vars(OwnerStep)
         /\ WF_vars(LoopThread)
         /\ \A t \in Users : WF_vars(Wakeup(t) /\ UNCHANGED threadVars)

-----------------------------------------------------------------------------
\* The inductive invariant of the hand-over: who may hold the loop, and when
\* the thread may have ended.
ThreadInv ==
    /\ ownerPc \in {"new", "waiting", "serving", "quitting", "joining", "destroyed"}
    /\ threadPc \in {"none", "constructing", "published", "looping", "finished"}
    /\ loopPtr \in BOOLEAN
    /\ loopPtr <=> threadPc \in {"published", "looping"}
    /\ ownerPc = "new" => threadPc = "none"
    /\ ownerPc = "serving" => loopPtr
    /\ ownerPc \in {"new", "waiting", "serving"}
          => ~quit /\ loopPc # "exited" /\ threadPc # "finished"
    /\ \A t \in Users : caller[t] = "waking" => ownerPc = "serving"

\* A thread that was handed the loop by startLoop() calls a loop that exists:
\* neither one that is not constructed yet nor one whose thread has ended
\* (EventLoopThread.cc:25-39).
UsersSeeLiveLoop ==
    /\ ownerPc = "serving" => loopPtr
    /\ \A t \in Users : caller[t] = "waking" => threadPc \in {"published", "looping"}

\* The owner's quit() too: "the EventLoop is a local variable, so its
\* destruction needs no thought" (EventLoopThread.cc:44).  quit() writes the
\* flag first and the eventfd of the loop second (EventLoop.cc:117-122).
QuitTouchesLiveLoop ==
    ownerPc = "quitting" => threadPc \in {"published", "looping"}

\* The destructor returns: a quit() issued by the owner always leads to the
\* end of the thread it joins (EventLoopThread.cc:15-23).
DestructorReturns == (ownerPc = "quitting") ~> (ownerPc = "destroyed")
=============================================================================
