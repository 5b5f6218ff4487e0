------------------------------ MODULE EventLoop ------------------------------
(***************************************************************************)
(* One reactor of the gateway: src/net/EventLoop.cc.                       *)
(*                                                                         *)
(* The thread that owns the loop repeats: poll, handle the active          *)
(* channels, run the pending functors.  The other threads give it work     *)
(* with queueInLoop: they push a functor under the mutex and then, in a    *)
(* second step, write the eventfd that ends a blocked poll.  A functor is  *)
(* represented by its ticket, the number of functors pushed before it      *)
(* plus one, so that order, loss and duplication are visible.              *)
(*                                                                         *)
(* The eventfd counter matters only through "is it readable", so it is a   *)
(* Boolean; handleRead resets it.  quit() is called by other threads only  *)
(* (its single caller is ~EventLoopThread), so the isInLoopThread branch   *)
(* of quit() is not reachable in this program.                             *)
(***************************************************************************)
EXTENDS Naturals, Sequences

CONSTANTS Threads,    \* the threads that post to the loop, its owner excluded
          MaxPosted   \* bound: how many functors a behaviour pushes

ASSUME MaxPostedAssumption == MaxPosted \in Nat

VARIABLES loopPc,     \* where the loop thread is
          quit,       \* quit_
          calling,    \* callingPendingFunctors_
          wakeupFd,   \* is the eventfd readable?
          wakeActive, \* wakeupChannel_ is in activeChannels_, not handled yet
          pending,    \* pendingFunctors_
          batch,      \* what is left of the local vector of doPendingFunctors
          posted,     \* ghost: how many functors were pushed
          ran,        \* ghost: how many functors were run
          caller      \* where each other thread is in queueInLoop or quit

loopVars == <<loopPc, quit, calling, wakeupFd, wakeActive, pending, batch,
              posted, ran, caller>>

LoopPcs == {"created", "check", "poll", "dispatch", "drain", "run", "exited"}

Init == /\ loopPc = "created"
        /\ quit = FALSE
        /\ calling = FALSE
        /\ wakeupFd = FALSE
        /\ wakeActive = FALSE
        /\ pending = <<>>
        /\ batch = <<>>
        /\ posted = 0
        /\ ran = 0
        /\ caller = [t \in Threads |-> "idle"]

-----------------------------------------------------------------------------
(* Other threads: queueInLoop (runInLoop from another thread) and quit.     *)

Push == /\ posted < MaxPosted
        /\ posted' = posted + 1
        /\ pending' = Append(pending, posted + 1)

QueueInLoop(t) ==
    /\ caller[t] = "idle"
    /\ Push
    /\ caller' = [caller EXCEPT ![t] = "waking"]
    /\ UNCHANGED <<loopPc, quit, calling, wakeupFd, wakeActive, batch, ran>>

\* The two halves of quit(): the flag, then the same wakeup as queueInLoop.
Quit(t) ==
    /\ caller[t] = "idle"
    /\ quit' = TRUE
    /\ caller' = [caller EXCEPT ![t] = "waking"]
    /\ UNCHANGED <<loopPc, calling, wakeupFd, wakeActive, pending, batch,
                   posted, ran>>

Mut_WakeOnlyWhenPolling(t) ==
    /\ caller[t] = "waking"
    /\ wakeupFd' = (wakeupFd \/ loopPc = "poll")
    /\ caller' = [caller EXCEPT ![t] = "idle"]
    /\ UNCHANGED <<loopPc, quit, calling, wakeActive, pending, batch, posted, ran>>

Wakeup(t) ==
    /\ caller[t] = "waking"
    /\ wakeupFd' = TRUE
    /\ caller' = [caller EXCEPT ![t] = "idle"]
    /\ UNCHANGED <<loopPc, quit, calling, wakeActive, pending, batch, posted, ran>>

-----------------------------------------------------------------------------
(* The loop thread.                                                         *)

\* loop() clears quit_ before it tests it for the first time.
Start ==
    /\ loopPc = "created"
    /\ loopPc' = "check"
    /\ quit' = FALSE
    /\ UNCHANGED <<calling, wakeupFd, wakeActive, pending, batch, posted, ran, caller>>

Check ==
    /\ loopPc = "check"
    /\ loopPc' = IF quit THEN "exited" ELSE "poll"
    /\ UNCHANGED <<quit, calling, wakeupFd, wakeActive, pending, batch, posted,
                   ran, caller>>

\* epoll_wait returns because the eventfd is readable ...
PollWoken ==
    /\ loopPc = "poll"
    /\ wakeupFd
    /\ loopPc' = "dispatch"
    /\ wakeActive' = TRUE
    /\ UNCHANGED <<quit, calling, wakeupFd, pending, batch, posted, ran, caller>>

\* ... or because of another descriptor or of the 10 s timeout.
PollOther ==
    /\ loopPc = "poll"
    /\ ~wakeupFd
    /\ loopPc' = "dispatch"
    /\ UNCHANGED <<quit, calling, wakeupFd, wakeActive, pending, batch, posted,
                   ran, caller>>

HandleWakeup ==
    /\ loopPc = "dispatch"
    /\ wakeActive
    /\ wakeActive' = FALSE
    /\ wakeupFd' = FALSE
    /\ UNCHANGED <<loopPc, quit, calling, pending, batch, posted, ran, caller>>

\* queueInLoop called by the loop thread itself: it writes the eventfd only
\* when it is inside doPendingFunctors.
Mut_QueueFromLoopNoWakeup ==
    /\ Push
    /\ UNCHANGED wakeupFd

QueueFromLoop ==
    /\ Push
    /\ wakeupFd' = (wakeupFd \/ calling)

\* The handler of another active channel queues a functor in its own loop.
HandleChannel ==
    /\ loopPc = "dispatch"
    /\ QueueFromLoop
    /\ UNCHANGED <<loopPc, quit, calling, wakeActive, batch, ran, caller>>

BeginPending ==
    /\ loopPc = "dispatch"
    /\ ~wakeActive
    /\ loopPc' = "drain"
    /\ calling' = TRUE
    /\ UNCHANGED <<quit, wakeupFd, wakeActive, pending, batch, posted, ran, caller>>

Mut_SwapKeepsPending ==
    /\ loopPc = "drain"
    /\ loopPc' = "run"
    /\ batch' = pending
    /\ UNCHANGED <<quit, calling, wakeupFd, wakeActive, pending, posted, ran, caller>>

SwapPending ==
    /\ loopPc = "drain"
    /\ loopPc' = "run"
    /\ batch' = pending
    /\ pending' = <<>>
    /\ UNCHANGED <<quit, calling, wakeupFd, wakeActive, posted, ran, caller>>

\* Run the next functor; its body may call queueInLoop on this same loop.
RunFunctor ==
    /\ loopPc = "run"
    /\ batch # <<>>
    /\ batch' = Tail(batch)
    /\ ran' = ran + 1
    /\ \/ UNCHANGED <<pending, posted, wakeupFd>>
       \/ QueueFromLoop
    /\ UNCHANGED <<loopPc, quit, calling, wakeActive, caller>>

EndPending ==
    /\ loopPc = "run"
    /\ batch = <<>>
    /\ loopPc' = "check"
    /\ calling' = FALSE
    /\ UNCHANGED <<quit, wakeupFd, wakeActive, pending, batch, posted, ran, caller>>

-----------------------------------------------------------------------------
(* The steps the loop thread takes without any help from the network.       *)
LoopStep == \/ Check
            \/ PollWoken
            \/ HandleWakeup
            \/ BeginPending
            \/ SwapPending
            \/ RunFunctor
            \/ EndPending

Next == \/ Start
        \/ LoopStep
        \/ PollOther
        \/ HandleChannel
        \/ \E t \in Threads : QueueInLoop(t) \/ Quit(t) \/ Wakeup(t)

\* Threads are scheduled; neither traffic nor the poll timeout is assumed.
Spec == Init /\ [][Next]_loopVars
             /\ WF_loopVars(Start \/ LoopStep)
             /\ \A t \in Threads : WF_loopVars(Wakeup(t))

-----------------------------------------------------------------------------
Waking == \E t \in Threads : caller[t] = "waking"

TypeOK ==
    /\ loopPc \in LoopPcs
    /\ quit \in BOOLEAN
    /\ calling \in BOOLEAN
    /\ wakeupFd \in BOOLEAN
    /\ wakeActive \in BOOLEAN
    /\ pending \in Seq(Nat)
    /\ batch \in Seq(Nat)
    /\ posted \in Nat
    /\ ran \in Nat
    /\ caller \in [Threads -> {"idle", "waking"}]

\* The tickets not run yet are, in order, those of the batch and then those of
\* the queue: across push, swap and nested queueInLoop no functor is lost,
\* run twice or overtaken (EventLoop.cc:139-155 and 194-210).
FunctorsInOrder ==
    /\ posted = ran + Len(batch) + Len(pending)
    /\ \A i \in 1..Len(batch) : batch[i] = ran + i
    /\ \A i \in 1..Len(pending) : pending[i] = ran + Len(batch) + i

\* A loop never blocks in poll on work it has been given: whenever it is in
\* poll and a functor is queued, the eventfd is readable or a poster is about
\* to write it (the rule of EventLoop.cc:146-154).
NoStrandedFunctor ==
    loopPc = "poll" /\ pending # <<>> => wakeupFd \/ Waking

\* A quit() the loop has not seen yet also ends a blocked poll
\* (EventLoop.cc:115-123).
NoStrandedQuit ==
    loopPc = "poll" /\ quit => wakeupFd \/ Waking

\* The strengthening of the two properties above that is inductive: after the
\* loop decided to poll again, whatever it has not served is announced.
Control ==
    /\ wakeActive => loopPc = "dispatch" /\ wakeupFd
    /\ calling <=> loopPc \in {"drain", "run"}
    /\ batch # <<>> => loopPc = "run"
    /\ loopPc \notin {"dispatch", "drain"} /\ pending # <<>> => wakeupFd \/ Waking
    /\ NoStrandedQuit

IInv == TypeOK /\ FunctorsInOrder /\ Control

\* The loop, seen as the sequence of the functors it has not run yet,
\* implements the promise of FunctorQueue.
Queue == INSTANCE FunctorQueue WITH queue <- batch \o pending
RefinesFunctorQueue == Queue!Spec

\* A functor given to a running loop is run without waiting for the poll
\* timeout or for traffic, unless the loop is told to quit.
PostedIsRun ==
    \A n \in 1..MaxPosted : (posted >= n) ~> (ran >= n \/ loopPc = "exited")

\* quit() on a running loop ends it.
QuitEndsLoop == (quit /\ loopPc # "created") ~> (loopPc = "exited")
=============================================================================
