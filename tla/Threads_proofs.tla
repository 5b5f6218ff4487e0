--------------------------- MODULE Threads_proofs ---------------------------
(***************************************************************************)
(* The loops and the log: every event loop, with a thread of its own or    *)
(* not, and the back end of the log, which is a thread like it.            *)
(*                                                                         *)
(* The loop: whatever the number of threads and of functors, the inductive *)
(* invariant, the two "nobody is stranded" properties, and the             *)
(* implementation of FunctorQueue; then the invariant carried over to the  *)
(* loop in a thread of its own (EventLoopThread), whose users never call a *)
(* loop that is not there.                                                 *)
(*                                                                         *)
(* The log: what was appended is in the files and the buffers, once and in *)
(* order, for any sizes of buffers and files and any course of the clock.  *)
(***************************************************************************)
EXTENDS EventLoopThread, AsyncLogging, SequenceTheorems, TLAPS

-----------------------------------------------------------------------------
(* The loop                                                                 *)

\* Appending the next ticket keeps the tickets of the queue in order: the
\* fact behind every push (EventLoop.cc:139-144).
LEMMA PushInOrder ==
    ASSUME TypeOK, FunctorsInOrder, Push
    PROVE  /\ posted' = posted + 1
           /\ pending' \in Seq(Nat)
           /\ pending' # <<>>
           /\ posted' = ran + Len(batch) + Len(pending')
           /\ \A i \in 1..Len(pending') : pending'[i] = ran + Len(batch) + i
<1>1. /\ posted' = posted + 1 /\ posted + 1 \in Nat /\ pending \in Seq(Nat)
      /\ pending' = Append(pending, posted + 1)
      /\ Len(batch) \in Nat /\ ran \in Nat
  BY DEF TypeOK, Push
<1>2. /\ pending' \in Seq(Nat) /\ Len(pending') = Len(pending) + 1
      /\ \A i \in 1..Len(pending) : pending'[i] = pending[i]
      /\ pending'[Len(pending) + 1] = posted + 1
  BY <1>1
<1>3. posted = ran + Len(batch) + Len(pending)
  BY DEF FunctorsInOrder
<1>4. \A i \in 1..Len(pending') : pending'[i] = ran + Len(batch) + i
  BY <1>1, <1>2, <1>3 DEF FunctorsInOrder
<1>5. pending' # <<>>
  BY <1>1, <1>2
<1>6. QED
  BY <1>1, <1>2, <1>3, <1>4, <1>5, SMTT(30)

\* The invariant holds when the loop is constructed.
LEMMA InitIInv == Init => IInv
<1> SUFFICES ASSUME Init PROVE IInv
  OBVIOUS
<1>1. TypeOK
  <2>1. pending \in Seq(Nat) /\ batch \in Seq(Nat) /\ posted \in Nat /\ ran \in Nat
    BY DEF Init
  <2>2. QED
    BY <2>1 DEF Init, TypeOK, LoopPcs
<1>2. FunctorsInOrder
  BY DEF Init, FunctorsInOrder
<1>3. QED
  BY <1>1, <1>2 DEF Init, IInv, Control, NoStrandedQuit

\* Types are preserved by every step.
LEMMA NextTypeOK == TypeOK /\ [Next]_loopVars => TypeOK'
<1> SUFFICES ASSUME TypeOK, [Next]_loopVars PROVE TypeOK'
  OBVIOUS
<1> USE DEF TypeOK, LoopPcs
<1>1. CASE Start
  BY <1>1 DEF Start
<1>2. CASE Check
  BY <1>2 DEF Check
<1>3. CASE PollWoken
  BY <1>3 DEF PollWoken
<1>4. CASE HandleWakeup
  BY <1>4 DEF HandleWakeup
<1>5. CASE BeginPending
  BY <1>5 DEF BeginPending
<1>6. CASE SwapPending
  BY <1>6 DEF SwapPending
<1>7. CASE EndPending
  BY <1>7 DEF EndPending
<1>8. CASE PollOther
  BY <1>8 DEF PollOther
<1>9. CASE RunFunctor
  <2>1. batch' \in Seq(Nat) /\ ran' \in Nat
    BY <1>9 DEF RunFunctor
  <2>2. CASE UNCHANGED <<pending, posted, wakeupFd>>
    BY <1>9, <2>1, <2>2 DEF RunFunctor
  <2>3. CASE QueueFromLoop
    <3>1. wakeupFd' \in BOOLEAN
      BY <2>3, Zenon DEF QueueFromLoop
    <3>2. pending' \in Seq(Nat) /\ posted' \in Nat
      BY <2>3 DEF QueueFromLoop, Push
    <3>3. QED
      BY <1>9, <2>1, <3>1, <3>2 DEF RunFunctor
  <2>4. QED
    BY <1>9, <2>2, <2>3 DEF RunFunctor
<1>10. CASE HandleChannel
  BY <1>10 DEF HandleChannel, QueueFromLoop, Push
<1>11. ASSUME NEW t \in Threads, QueueInLoop(t) \/ Quit(t) \/ Wakeup(t) PROVE TypeOK'
  <2>1. CASE QueueInLoop(t)
    BY <2>1 DEF QueueInLoop, Push
  <2>2. CASE Quit(t)
    BY <2>2 DEF Quit
  <2>3. CASE Wakeup(t)
    BY <2>3 DEF Wakeup
  <2>4. QED
    BY <1>11, <2>1, <2>2, <2>3
<1>12. CASE UNCHANGED loopVars
  BY <1>12 DEF loopVars
<1>13. QED
  BY <1>1, <1>2, <1>3, <1>4, <1>5, <1>6, <1>7, <1>8, <1>9,
     <1>10, <1>11, <1>12 DEF Next, LoopStep

\* Tickets stay in order over every step.
LEMMA NextFunctorsInOrder == IInv /\ [Next]_loopVars => FunctorsInOrder'
<1> SUFFICES ASSUME IInv, [Next]_loopVars PROVE FunctorsInOrder'
  OBVIOUS
<1> USE DEF IInv, TypeOK, FunctorsInOrder
<1>1. CASE Start
  BY <1>1 DEF Start
<1>2. CASE Check
  BY <1>2 DEF Check
<1>3. CASE PollWoken
  BY <1>3 DEF PollWoken
<1>4. CASE HandleWakeup
  BY <1>4 DEF HandleWakeup
<1>5. CASE BeginPending
  BY <1>5 DEF BeginPending
<1>6. CASE SwapPending
  <2>1. batch = <<>>
    BY <1>6 DEF SwapPending, Control
  <2>2. QED
    BY <1>6, <2>1 DEF SwapPending
<1>7. CASE EndPending
  BY <1>7 DEF EndPending
<1>8. CASE PollOther
  BY <1>8 DEF PollOther
<1>9. CASE RunFunctor
  <2>1. /\ batch' \in Seq(Nat) /\ Len(batch') = Len(batch) - 1 /\ ran' = ran + 1
        /\ \A i \in 1..Len(batch') : batch'[i] = ran' + i
    BY <1>9 DEF RunFunctor
  <2>2. CASE UNCHANGED <<pending, posted, wakeupFd>>
    BY <2>1, <2>2
  <2>3. CASE QueueFromLoop
    BY <2>1, <2>3, PushInOrder DEF QueueFromLoop
  <2>4. QED
    BY <1>9, <2>2, <2>3 DEF RunFunctor
<1>10. CASE HandleChannel
  BY <1>10, PushInOrder DEF HandleChannel, QueueFromLoop
<1>11. ASSUME NEW t \in Threads, QueueInLoop(t) \/ Quit(t) \/ Wakeup(t)
      PROVE  FunctorsInOrder'
  BY <1>11, PushInOrder DEF QueueInLoop, Quit, Wakeup
<1>12. CASE UNCHANGED loopVars
  BY <1>12 DEF loopVars
<1>13. QED
  BY <1>1, <1>2, <1>3, <1>4, <1>5, <1>6, <1>7, <1>8, <1>9,
     <1>10, <1>11, <1>12 DEF Next, LoopStep

\* So do the facts about who has been woken.
LEMMA NextControl == IInv /\ [Next]_loopVars => Control'
<1> SUFFICES ASSUME IInv, [Next]_loopVars PROVE Control'
  OBVIOUS
<1> USE DEF IInv, TypeOK, Control, NoStrandedQuit, LoopPcs, Waking
<1>1. CASE Start
  BY <1>1 DEF Start
<1>2. CASE Check
  BY <1>2 DEF Check
<1>3. CASE PollWoken
  BY <1>3 DEF PollWoken
<1>4. CASE HandleWakeup
  BY <1>4 DEF HandleWakeup
<1>5. CASE BeginPending
  BY <1>5 DEF BeginPending
<1>6. CASE SwapPending
  BY <1>6 DEF SwapPending
<1>7. CASE EndPending
  BY <1>7 DEF EndPending
<1>8. CASE PollOther
  BY <1>8 DEF PollOther
<1>9. CASE RunFunctor
  <2>1. CASE UNCHANGED <<pending, posted, wakeupFd>>
    BY <1>9, <2>1 DEF RunFunctor
  <2>2. CASE QueueFromLoop
    <3>1. wakeupFd'
      BY <1>9, <2>2 DEF RunFunctor, QueueFromLoop
    <3>2. QED
      BY <1>9, <3>1 DEF RunFunctor
  <2>3. QED
    BY <1>9, <2>1, <2>2 DEF RunFunctor
<1>10. CASE HandleChannel
  BY <1>10 DEF HandleChannel, QueueFromLoop, Push
<1>11. ASSUME NEW t \in Threads, QueueInLoop(t) \/ Quit(t) \/ Wakeup(t) PROVE Control'
  <2>1. QueueInLoop(t) => Waking'
    BY DEF QueueInLoop
  <2>2. Quit(t) => Waking'
    BY DEF Quit
  <2>3. QED
    BY <1>11, <2>1, <2>2 DEF QueueInLoop, Quit, Wakeup
<1>12. CASE UNCHANGED loopVars
  BY <1>12 DEF loopVars
<1>13. QED
  BY <1>1, <1>2, <1>3, <1>4, <1>5, <1>6, <1>7, <1>8, <1>9,
     <1>10, <1>11, <1>12 DEF Next, LoopStep

\* Every step keeps the invariant.
LEMMA NextIInv == IInv /\ [Next]_loopVars => IInv'
  BY NextTypeOK, NextFunctorsInOrder, NextControl DEF IInv

\* The invariant of the event loop, for any number of threads and functors.
THEOREM LoopInvariant == Spec => []IInv
  BY InitIInv, NextIInv, PTL DEF Spec

\* No functor waits in a loop that blocks in poll unannounced: the wakeup rule
\* of queueInLoop (EventLoop.cc:146-154) is sufficient.
THEOREM FunctorNeverStranded == Spec => []NoStrandedFunctor
<1>1. IInv => NoStrandedFunctor
  BY DEF IInv, Control, NoStrandedFunctor
<1>2. QED
  BY <1>1, LoopInvariant, PTL

\* Neither does a quit() (EventLoop.cc:115-123).
THEOREM QuitNeverStranded == Spec => []NoStrandedQuit
<1>1. IInv => NoStrandedQuit
  BY DEF IInv, Control
<1>2. QED
  BY <1>1, LoopInvariant, PTL

-----------------------------------------------------------------------------
\* Queueing behind the batch and the pending functors is queueing behind both.
LEMMA AppendBehind ==
    ASSUME NEW s \in Seq(Nat), NEW t \in Seq(Nat), NEW x \in Nat
    PROVE  s \o Append(t, x) = Append(s \o t, x)
<1>1. Append(t, x) = t \o <<x>> /\ <<x>> \in Seq(Nat)
  BY AppendIsConcat
<1>2. s \o t \in Seq(Nat)
  BY ConcatProperties
<1>3. Append(s \o t, x) = (s \o t) \o <<x>>
  BY <1>2, AppendIsConcat
<1>4. QED
  BY <1>1, <1>3, ConcatAssociative

\* The next functor is the head of the batch, and running it leaves the rest.
LEMMA TailInFront ==
    ASSUME NEW s \in Seq(Nat), NEW t \in Seq(Nat), s # <<>>
    PROVE  /\ s \o t # <<>>
           /\ Head(s \o t) = s[1]
           /\ Tail(s \o t) = Tail(s) \o t
<1>1. /\ s \o t \in Seq(Nat)
      /\ Len(s \o t) = Len(s) + Len(t)
      /\ \A i \in 1..Len(s) + Len(t) :
            (s \o t)[i] = IF i <= Len(s) THEN s[i] ELSE t[i - Len(s)]
  BY ConcatProperties
<1>2. Len(s) \in Nat \ {0} /\ Len(t) \in Nat
  BY EmptySeq, LenProperties
<1>3. s \o t # <<>> /\ Head(s \o t) = s[1]
  BY <1>1, <1>2
<1>4. /\ Tail(s \o t) \in Seq(Nat) /\ Len(Tail(s \o t)) = Len(s) + Len(t) - 1
      /\ \A i \in 1..Len(Tail(s \o t)) : Tail(s \o t)[i] = (s \o t)[i + 1]
  BY <1>1, <1>2, <1>3, HeadTailProperties
<1>5. /\ Tail(s) \in Seq(Nat) /\ Len(Tail(s)) = Len(s) - 1
      /\ \A i \in 1..Len(Tail(s)) : Tail(s)[i] = s[i + 1]
  BY <1>2, HeadTailProperties
<1>6. /\ Tail(s) \o t \in Seq(Nat)
      /\ Len(Tail(s) \o t) = Len(s) - 1 + Len(t)
      /\ \A i \in 1..Len(s) - 1 + Len(t) :
            (Tail(s) \o t)[i] = IF i <= Len(s) - 1 THEN Tail(s)[i]
                                                  ELSE t[i - (Len(s) - 1)]
  BY <1>5, ConcatProperties
<1>7. \A i \in 1..Len(Tail(s \o t)) : Tail(s \o t)[i] = (Tail(s) \o t)[i]
  <2>1. TAKE i \in 1..Len(Tail(s \o t))
  <2>2. i + 1 \in 1..Len(s) + Len(t) /\ i \in 1..Len(s) - 1 + Len(t)
    BY <1>2, <1>4
  <2>3. CASE i <= Len(s) - 1
    BY <1>1, <1>2, <1>4, <1>5, <1>6, <2>2, <2>3
  <2>4. CASE ~(i <= Len(s) - 1)
    BY <1>1, <1>2, <1>4, <1>6, <2>2, <2>4
  <2>5. QED
    BY <2>3, <2>4
<1>8. QED
  BY <1>2, <1>3, <1>4, <1>6, <1>7, SeqEqual

\* Every step of the loop is a step of the abstract queue or changes nothing
\* of it: swapping the queue into the batch is invisible from outside, and
\* the functor that runs is the next ticket (EventLoop.cc:194-210).
LEMMA StepRefinesQueue ==
    IInv /\ [Next]_loopVars
        => [Queue!Next]_<<batch \o pending, posted, ran>>
<1> SUFFICES ASSUME IInv, [Next]_loopVars
             PROVE  [Queue!Next]_<<batch \o pending, posted, ran>>
  OBVIOUS
<1>0. /\ batch \in Seq(Nat) /\ pending \in Seq(Nat) /\ posted \in Nat /\ ran \in Nat
  BY DEF IInv, TypeOK
<1>a. ASSUME Push, UNCHANGED <<batch, ran>> PROVE Queue!Next
  BY <1>a, <1>0, AppendBehind DEF Push, Queue!Next, Queue!Post
<1>1. CASE SwapPending
  <2>1. batch = <<>> /\ batch' = pending /\ pending' = <<>>
    BY <1>1 DEF SwapPending, IInv, Control
  <2>2. batch' \o pending' = batch \o pending
    BY <2>1, <1>0, ConcatEmptySeq
  <2>3. QED
    BY <1>1, <2>2 DEF SwapPending
<1>2. CASE RunFunctor
  <2>1. /\ batch # <<>> /\ batch' = Tail(batch) /\ ran' = ran + 1
    BY <1>2 DEF RunFunctor
  <2>2. batch[1] = ran + 1
    BY <1>0, <2>1 DEF IInv, FunctorsInOrder
  <2>3. /\ batch \o pending # <<>>
        /\ Head(batch \o pending) = ran + 1
        /\ Tail(batch \o pending) = batch' \o pending
    BY <1>0, <2>1, <2>2, TailInFront
  <2>4. CASE UNCHANGED <<pending, posted, wakeupFd>>
    BY <2>1, <2>3, <2>4 DEF Queue!Next, Queue!Run
  <2>5. CASE QueueFromLoop
    <3>1. /\ posted < MaxPosted /\ posted' = posted + 1
          /\ pending' = Append(pending, posted + 1) /\ posted + 1 \in Nat
      BY <1>0, <2>5 DEF QueueFromLoop, Push
    <3>2. batch' \in Seq(Nat)
      BY <1>0, <2>1, HeadTailProperties
    <3>3. batch' \o pending' = Append(batch' \o pending, posted + 1)
      BY <1>0, <3>1, <3>2, AppendBehind
    <3>4. QED
      BY <2>1, <2>3, <3>1, <3>3 DEF Queue!Next, Queue!Run
  <2>6. QED
    BY <1>2, <2>4, <2>5 DEF RunFunctor
<1>3. CASE HandleChannel
  BY <1>3, <1>a DEF HandleChannel, QueueFromLoop
<1>4. ASSUME NEW t \in Threads, QueueInLoop(t) PROVE Queue!Next
  BY <1>4, <1>a DEF QueueInLoop
<1>5. ASSUME \/ Start \/ Check \/ PollWoken \/ PollOther \/ HandleWakeup
             \/ BeginPending \/ EndPending \/ UNCHANGED loopVars
             \/ \E t \in Threads : Quit(t) \/ Wakeup(t)
      PROVE  UNCHANGED <<batch \o pending, posted, ran>>
  BY <1>5 DEF Start, Check, PollWoken, PollOther, HandleWakeup, BeginPending,
              EndPending, Quit, Wakeup, loopVars
<1>6. QED
  BY <1>1, <1>2, <1>3, <1>4, <1>5 DEF Next, LoopStep

\* The event loop implements the promise of FunctorQueue: each functor is run
\* exactly once and in the order of queueing.
THEOREM LoopRefinesQueue == Spec => RefinesFunctorQueue
<1>1. Init => Queue!Init
  BY ConcatEmptySeq, EmptySeq DEF Init, Queue!Init
<1>2. QED
  BY <1>1, StepRefinesQueue, LoopInvariant, PTL
     DEF Spec, RefinesFunctorQueue, Queue!Spec

-----------------------------------------------------------------------------
(* The loop in its thread                                                   *)

\* The owner and threadFunc do nothing to the loop that EventLoop does not
\* allow: each of their steps is a step of the loop or leaves it alone.
LEMMA ThreadStepIsLoopStep == [TNext]_vars => [Next]_loopVars
<1> SUFFICES ASSUME [TNext]_vars PROVE [Next]_loopVars
  OBVIOUS
<1>1. CASE StartThread \/ StartLoopReturns \/ JoinReturns \/ Publish \/ ThreadEnds
  BY <1>1 DEF StartThread, StartLoopReturns, JoinReturns, Publish, ThreadEnds
<1>2. CASE DestroyQuit \/ DestroyWakeup
  BY <1>2, OwnerAssumption DEF DestroyQuit, DestroyWakeup, Next
<1>3. CASE RunLoop \/ LoopStep \/ PollOther \/ HandleChannel
  BY <1>3 DEF RunLoop, Next
<1>4. ASSUME NEW t \in Users, QueueInLoop(t) \/ Wakeup(t) PROVE Next
  BY <1>4 DEF Users, Next
<1>5. CASE UNCHANGED vars
  BY <1>5 DEF vars, loopVars
<1>6. QED
  BY <1>1, <1>2, <1>3, <1>4, <1>5 DEF TNext, OwnerStep, LoopThread

\* The invariant of the loop holds in every program built on EventLoopThread.
THEOREM ThreadedLoopInvariant == TSpec => []IInv
<1>1. TInit => IInv
  BY InitIInv DEF TInit
<1>2. IInv /\ [TNext]_vars => IInv'
  BY NextIInv, ThreadStepIsLoopStep
<1>3. QED
  BY <1>1, <1>2, PTL DEF TSpec

\* The loop, its thread and its owner keep the hand-over invariant.
LEMMA NextThreadInv == IInv /\ ThreadInv /\ [TNext]_vars => ThreadInv'
<1> SUFFICES ASSUME IInv, ThreadInv, [TNext]_vars PROVE ThreadInv'
  OBVIOUS
<1>0. caller \in [Threads -> {"idle", "waking"}] /\ Users \subseteq Threads
  BY DEF IInv, TypeOK, Users
<1>1. CASE StartThread
  BY <1>1 DEF StartThread, loopVars, ThreadInv
<1>2. CASE StartLoopReturns
  BY <1>2 DEF StartLoopReturns, loopVars, ThreadInv
<1>3. CASE DestroyQuit
  <2>1. \A t \in Users : caller'[t] = "idle"
    BY <1>0, <1>3 DEF DestroyQuit, Quit, Users
  <2>2. /\ ownerPc' = "quitting"
        /\ UNCHANGED <<threadPc, loopPtr, loopPc>>
    BY <1>3 DEF DestroyQuit, Quit
  <2>3. QED
    BY <2>1, <2>2 DEF ThreadInv
<1>4. CASE DestroyWakeup
  BY <1>0, <1>4 DEF DestroyWakeup, Wakeup, ThreadInv, Users
<1>5. CASE JoinReturns
  BY <1>5 DEF JoinReturns, loopVars, ThreadInv
<1>6. CASE Publish
  BY <1>6 DEF Publish, loopVars, ThreadInv
<1>7. CASE RunLoop
  BY <1>7 DEF RunLoop, Start, ThreadInv
<1>8. CASE ThreadEnds
  BY <1>8 DEF ThreadEnds, loopVars, ThreadInv
<1>9. CASE LoopStep /\ UNCHANGED threadVars
  <2>1. /\ quit' = quit /\ caller' = caller
        /\ loopPc' = "exited" => quit \/ loopPc = "exited"
    BY <1>9 DEF LoopStep, Check, PollWoken, HandleWakeup, BeginPending,
                SwapPending, RunFunctor, EndPending
  <2>2. UNCHANGED <<ownerPc, threadPc, loopPtr>>
    BY <1>9 DEF threadVars
  <2>3. QED
    BY <2>1, <2>2 DEF ThreadInv
<1>10. CASE (PollOther \/ HandleChannel) /\ UNCHANGED threadVars
  BY <1>10 DEF PollOther, HandleChannel, ThreadInv, threadVars
<1>11. ASSUME NEW t \in Users, ownerPc = "serving", QueueInLoop(t), UNCHANGED threadVars
       PROVE  ThreadInv'
  BY <1>11 DEF QueueInLoop, ThreadInv, threadVars
<1>12. ASSUME NEW t \in Users, Wakeup(t), UNCHANGED threadVars
       PROVE  ThreadInv'
  <2>1. \A u \in Users : caller'[u] = "waking" => caller[u] = "waking"
    BY <1>0, <1>12 DEF Wakeup
  <2>2. UNCHANGED <<ownerPc, threadPc, loopPtr, quit, loopPc>>
    BY <1>12 DEF Wakeup, threadVars
  <2>3. QED
    BY <2>1, <2>2 DEF ThreadInv
<1>13. CASE UNCHANGED vars
  BY <1>13 DEF vars, ThreadInv
<1>14. QED
  BY <1>1, <1>2, <1>3, <1>4, <1>5, <1>6, <1>7, <1>8, <1>9, <1>10, <1>11,
     <1>12, <1>13 DEF TNext, OwnerStep, LoopThread

\* startLoop() hands out a loop that exists and stays until its users are
\* done with it (EventLoopThread.cc:25-39).
THEOREM UsersCallLiveLoop == TSpec => []UsersSeeLiveLoop
<1>1. TInit => ThreadInv
  BY DEF TInit, Init, ThreadInv, Users
<1>2. ThreadInv => UsersSeeLiveLoop
  BY DEF ThreadInv, UsersSeeLiveLoop
<1>3. QED
  BY <1>1, <1>2, NextThreadInv, ThreadedLoopInvariant, PTL DEF TSpec

-----------------------------------------------------------------------------
(* The log: lines in pieces                                                 *)

Increasing(s) == \A j, l \in 1..Len(s) : j < l => s[j] < s[l]

Below(a, b) == \A x \in a, y \in b : x < y

LEMMA LinesMember ==
    ASSUME NEW P \in Seq(Seq(Nat)), NEW x
    PROVE  x \in LinesOf(P) <=> \E i \in 1..Len(P) : \E j \in 1..Len(P[i]) : P[i][j] = x
<1>1. \A i \in 1..Len(P) : DOMAIN P[i] = 1..Len(P[i])
  OBVIOUS
<1>2. \A i \in 1..Len(P) : x \in ToSet(P[i]) <=> \E j \in 1..Len(P[i]) : P[i][j] = x
  BY <1>1 DEF ToSet
<1>3. x \in LinesOf(P) <=> \E i \in 1..Len(P) : x \in ToSet(P[i])
  BY DEF LinesOf
<1> QED BY <1>2, <1>3

LEMMA OneLine ==
    ASSUME NEW s \in Seq(Nat)
    PROVE  /\ LinesOf(<<s>>) = ToSet(s)
           /\ InOrder(<<s>>) <=> Increasing(s)
           /\ LinesOf(<<>>) = {} /\ InOrder(<<>>)
           /\ ToSet(<<>>) = {} /\ Increasing(<<>>)
<1>1. Len(<<s>>) = 1 /\ <<s>>[1] = s /\ DOMAIN <<>> = {}
  OBVIOUS
<1>2. LinesOf(<<s>>) = ToSet(s)
  BY <1>1 DEF LinesOf
<1>3. InOrder(<<s>>) <=> Increasing(s)
  BY <1>1 DEF InOrder, Increasing
<1>4. LinesOf(<<>>) = {} /\ InOrder(<<>>)
  BY DEF LinesOf, InOrder
<1>5. ToSet(<<>>) = {} /\ Increasing(<<>>)
  BY <1>1 DEF ToSet, Increasing
<1> QED BY <1>2, <1>3, <1>4, <1>5

\* Two logs, one behind the other.
LEMMA JoinLines ==
    ASSUME NEW P \in Seq(Seq(Nat)), NEW Q \in Seq(Seq(Nat))
    PROVE  LinesOf(P \o Q) = LinesOf(P) \cup LinesOf(Q)
<1> DEFINE R == P \o Q
<1>1. R \in Seq(Seq(Nat)) /\ Len(R) = Len(P) + Len(Q)
  OBVIOUS
<1>2. \A i \in 1..Len(P) : R[i] = P[i]
  OBVIOUS
<1>3. \A i \in 1..Len(Q) : Len(P) + i \in 1..Len(R) /\ R[Len(P) + i] = Q[i]
  OBVIOUS
<1>4. \A i \in 1..Len(R) : \/ i \in 1..Len(P)
                           \/ i - Len(P) \in 1..Len(Q) /\ R[i] = Q[i - Len(P)]
  OBVIOUS
<1>5. 1..Len(P) \subseteq 1..Len(R)
  BY <1>1
<1> HIDE DEF R
<1>6. \A i \in 1..Len(R) : R[i] \in {P[k] : k \in 1..Len(P)} \cup {Q[k] : k \in 1..Len(Q)}
  BY <1>2, <1>4
<1>7. LinesOf(R) \subseteq LinesOf(P) \cup LinesOf(Q)
  BY <1>6 DEF LinesOf
<1>8. LinesOf(P) \subseteq LinesOf(R)
  BY <1>2, <1>5 DEF LinesOf
<1>9. LinesOf(Q) \subseteq LinesOf(R)
  BY <1>3 DEF LinesOf
<1> QED BY <1>7, <1>8, <1>9 DEF R

LEMMA JoinOrder ==
    ASSUME NEW P \in Seq(Seq(Nat)), NEW Q \in Seq(Seq(Nat))
    PROVE  InOrder(P \o Q) <=> InOrder(P) /\ InOrder(Q) /\ Below(LinesOf(P), LinesOf(Q))
<1> DEFINE R == P \o Q
           m == Len(P)
<1>1. R \in Seq(Seq(Nat)) /\ Len(R) = m + Len(Q) /\ m \in Nat /\ Len(Q) \in Nat
  OBVIOUS
<1>2. \A i \in 1..m : i \in 1..Len(R) /\ R[i] = P[i]
  OBVIOUS
<1>3. \A i \in 1..Len(Q) : m + i \in 1..Len(R) /\ R[m + i] = Q[i]
  OBVIOUS
<1>4. \A i \in 1..Len(R) : \/ i \in 1..m
                           \/ i - m \in 1..Len(Q) /\ i = m + (i - m)
  BY <1>1
<1> HIDE DEF R, m
<1>5. ASSUME InOrder(R)
      PROVE  InOrder(P) /\ InOrder(Q) /\ Below(LinesOf(P), LinesOf(Q))
  <2>1. InOrder(P)
    BY <1>2, <1>5 DEF InOrder, m
  <2>2. InOrder(Q)
    <3> SUFFICES ASSUME NEW i \in 1..Len(Q), NEW k \in 1..Len(Q), NEW j \in 1..Len(Q[i]),
                        NEW l \in 1..Len(Q[k]), i < k \/ (i = k /\ j < l)
                 PROVE  Q[i][j] < Q[k][l]
      BY DEF InOrder
    <3>1. m + i < m + k \/ (m + i = m + k /\ j < l)
      BY <1>1
    <3> QED BY <1>3, <1>5, <3>1 DEF InOrder
  <2>3. Below(LinesOf(P), LinesOf(Q))
    <3> SUFFICES ASSUME NEW x \in LinesOf(P), NEW y \in LinesOf(Q) PROVE x < y
      BY DEF Below
    <3>1. PICK i \in 1..m : \E j \in 1..Len(P[i]) : P[i][j] = x
      BY LinesMember DEF m
    <3>2. PICK k \in 1..Len(Q) : \E l \in 1..Len(Q[k]) : Q[k][l] = y
      BY LinesMember
    <3>3. PICK j \in 1..Len(P[i]) : P[i][j] = x
      BY <3>1
    <3>4. PICK l \in 1..Len(Q[k]) : Q[k][l] = y
      BY <3>2
    <3>5. i < m + k
      BY <1>1
    <3>6. /\ i \in 1..Len(R) /\ m + k \in 1..Len(R)
          /\ R[i] = P[i] /\ R[m + k] = Q[k]
      BY <1>2, <1>3
    <3>7. R[i][j] < R[m + k][l]
      BY <1>5, <3>5, <3>6 DEF InOrder
    <3> QED BY <3>3, <3>4, <3>6, <3>7
  <2> QED BY <2>1, <2>2, <2>3
<1>6. ASSUME InOrder(P), InOrder(Q), Below(LinesOf(P), LinesOf(Q))
      PROVE  InOrder(R)
  <2> SUFFICES ASSUME NEW i \in 1..Len(R), NEW k \in 1..Len(R), NEW j \in 1..Len(R[i]),
                      NEW l \in 1..Len(R[k]), i < k \/ (i = k /\ j < l)
               PROVE  R[i][j] < R[k][l]
    BY DEF InOrder
  <2>1. CASE i \in 1..m /\ k \in 1..m
    BY <1>2, <1>6, <2>1 DEF InOrder, m
  <2>2. CASE i \in 1..m /\ k \notin 1..m
    <3>1. R[i] = P[i] /\ R[k] = Q[k - m] /\ k - m \in 1..Len(Q)
      BY <1>2, <1>3, <1>4, <2>2
    <3>2. P[i][j] \in LinesOf(P)
      BY <2>2, <3>1, LinesMember DEF m
    <3>3. Q[k - m][l] \in LinesOf(Q)
      BY <3>1, LinesMember
    <3> QED BY <1>6, <3>1, <3>2, <3>3 DEF Below
  <2>3. CASE i \notin 1..m /\ k \notin 1..m
    <3>1. /\ R[i] = Q[i - m] /\ i - m \in 1..Len(Q)
          /\ R[k] = Q[k - m] /\ k - m \in 1..Len(Q)
      BY <1>3, <1>4, <2>3
    <3>2. PICK a \in 1..Len(Q), b \in 1..Len(Q) : a = i - m /\ b = k - m
      BY <3>1
    <3>3. a < b \/ (a = b /\ j < l)
      BY <1>1, <3>2
    <3>4. j \in 1..Len(Q[a]) /\ l \in 1..Len(Q[b])
      BY <3>1, <3>2
    <3>5. Q[a][j] < Q[b][l]
      BY <1>6, <3>3, <3>4 DEF InOrder
    <3>6. R[i] = Q[a] /\ R[k] = Q[b]
      BY <3>1, <3>2
    <3> QED BY <3>5, <3>6
  <2>4. CASE i \notin 1..m /\ k \in 1..m
    <3>1. i > m /\ k <= m /\ i \in Int /\ k \in Int
      BY <1>1, <2>4
    <3>2. ~(i < k) /\ i # k
      BY <1>1, <3>1
    <3> QED BY <3>2
  <2> QED BY <2>1, <2>2, <2>3, <2>4
<1> QED BY <1>5, <1>6 DEF R

\* Lines are put behind lines, within one piece.
LEMMA JoinWithin ==
    ASSUME NEW s \in Seq(Nat), NEW t \in Seq(Nat)
    PROVE  /\ ToSet(s \o t) = ToSet(s) \cup ToSet(t)
           /\ Increasing(s) /\ Increasing(t) /\ Below(ToSet(s), ToSet(t)) => Increasing(s \o t)
<1> DEFINE r == s \o t
           m == Len(s)
<1>1. /\ r \in Seq(Nat) /\ m \in Nat /\ Len(t) \in Nat /\ Len(r) = m + Len(t)
      /\ DOMAIN s = 1..m /\ DOMAIN t = 1..Len(t) /\ DOMAIN r = 1..Len(r)
  OBVIOUS
<1>2. \A i \in 1..m : i \in 1..Len(r) /\ r[i] = s[i]
  OBVIOUS
<1>3. \A i \in 1..Len(t) : m + i \in 1..Len(r) /\ r[m + i] = t[i]
  OBVIOUS
<1>4. \A i \in 1..Len(r) : \/ i \in 1..m
                           \/ i - m \in 1..Len(t) /\ i = m + (i - m)
  BY <1>1
<1> HIDE DEF r, m
<1>5. ToSet(r) = ToSet(s) \cup ToSet(t)
  <2>1. ToSet(r) \subseteq ToSet(s) \cup ToSet(t)
    <3> SUFFICES ASSUME NEW i \in 1..Len(r) PROVE r[i] \in ToSet(s) \cup ToSet(t)
      BY <1>1 DEF ToSet
    <3>1. CASE i \in 1..m
      BY <1>1, <1>2, <3>1 DEF ToSet
    <3>2. CASE i \notin 1..m
      <4>1. i - m \in 1..Len(t) /\ r[i] = t[i - m]
        BY <1>3, <1>4, <3>2
      <4> QED BY <1>1, <4>1 DEF ToSet
    <3> QED BY <3>1, <3>2
  <2>2. ToSet(s) \subseteq ToSet(r) /\ ToSet(t) \subseteq ToSet(r)
    BY <1>1, <1>2, <1>3 DEF ToSet
  <2> QED BY <2>1, <2>2
<1>6. ASSUME Increasing(s), Increasing(t), Below(ToSet(s), ToSet(t))
      PROVE  Increasing(r)
  <2> SUFFICES ASSUME NEW i \in 1..Len(r), NEW k \in 1..Len(r), i < k
               PROVE  r[i] < r[k]
    BY DEF Increasing
  <2>1. CASE i \in 1..m /\ k \in 1..m
    BY <1>2, <1>6, <2>1 DEF Increasing, m
  <2>2. CASE i \in 1..m /\ k \notin 1..m
    <3>1. r[i] \in ToSet(s) /\ r[k] \in ToSet(t)
      BY <1>1, <1>2, <1>3, <1>4, <2>2 DEF ToSet
    <3> QED BY <1>6, <3>1 DEF Below
  <2>3. CASE i \notin 1..m /\ k \notin 1..m
    <3>1. /\ i - m \in 1..Len(t) /\ k - m \in 1..Len(t) /\ i - m < k - m
          /\ r[i] = t[i - m] /\ r[k] = t[k - m]
      BY <1>1, <1>3, <1>4, <2>3
    <3> QED BY <1>6, <3>1 DEF Increasing
  <2>4. CASE i \notin 1..m /\ k \in 1..m
    BY <1>1, <2>4
  <2> QED BY <2>1, <2>2, <2>3, <2>4
<1> QED BY <1>5, <1>6 DEF r

-----------------------------------------------------------------------------
(* The log: its files                                                       *)

Names == {LocalTime(second) : second \in Nat}
File == {file \in [second : Nat, name : Names, lines : Seq(Nat)] :
            file.name = LocalTime(file.second)}
LogFiles == [files : Seq(File), flushed : SUBSET Nat,
             count : Int, startOfPeriod : Nat, lastRoll : Nat, lastFlush : Nat]

\* The file that is open is the last one, and it was rolled last.
Open(log) == /\ log \in LogFiles
             /\ log.files # <<>>
             /\ log.lastRoll = log.files[Len(log.files)].second

Later(log) == \A i, j \in 1..Len(log.files) :
                  i < j => log.files[i].second < log.files[j].second

\* What a step of the file does, besides what it flushes: nothing, or a new file
\* behind the others.
Goes(log, next, time) ==
    /\ Open(next)
    /\ \/ next.files = log.files
       \/ /\ time > log.lastRoll
          /\ next.files = Append(log.files, Opened(time))

LEMMA PiecesType ==
    ASSUME NEW log \in LogFiles
    PROVE  /\ Pieces(log) \in Seq(Seq(Nat)) /\ Len(Pieces(log)) = Len(log.files)
           /\ Written(log) \subseteq Nat
<1>1. /\ Len(log.files) \in Nat
      /\ \A i \in 1..Len(log.files) : log.files[i] \in File
  BY DEF LogFiles
<1>5. \A i \in 1..Len(log.files) : log.files[i].lines \in Seq(Nat)
  BY <1>1 DEF File
<1>2. Pieces(log) \in Seq(Seq(Nat)) /\ Len(Pieces(log)) = Len(log.files)
  BY <1>1, <1>5 DEF Pieces
<1>3. \A i \in 1..Len(Pieces(log)) : ToSet(Pieces(log)[i]) \subseteq Nat
  BY <1>2 DEF ToSet
<1>4. Written(log) \subseteq Nat
  BY <1>3 DEF Written, LinesOf
<1> QED BY <1>2, <1>4

LEMMA FlushGoes ==
    ASSUME NEW log, Open(log), NEW time \in Nat
    PROVE  Open(FlushFile(log)) /\ FlushFile(log).files = log.files
<1>1. Written(log) \in SUBSET Nat
  BY PiecesType DEF Open
<1> QED BY <1>1 DEF Open, FlushFile, LogFiles

LEMMA PeriodType ==
    ASSUME NEW time \in Nat
    PROVE  Period(time) \in Nat
BY LogFileAssumption DEF Period

LEMMA RollGoes ==
    ASSUME NEW log, Open(log), NEW time \in Nat
    PROVE  Goes(log, RollFile(log, time), time)
<1>1. CASE time > log.lastRoll
  <2> DEFINE r == RollFile(log, time)
             n == Len(log.files)
  <2>1. Open(FlushFile(log)) /\ FlushFile(log).files = log.files
    BY FlushGoes
  <2>2. /\ r = [FlushFile(log) EXCEPT !.files = Append(@, Opened(time)),
                                      !.startOfPeriod = Period(time),
                                      !.lastRoll = time,
                                      !.lastFlush = time]
    BY <1>1 DEF RollFile
  <2>3. Opened(time) \in File
    BY DEF Opened, File, Names
  <2>4. log.files \in Seq(File)
    BY DEF Open, LogFiles
  <2>5. /\ Append(log.files, Opened(time)) \in Seq(File)
        /\ Len(Append(log.files, Opened(time))) = n + 1
        /\ Append(log.files, Opened(time))[n + 1] = Opened(time)
        /\ Append(log.files, Opened(time)) # <<>>
    BY <2>3, <2>4
  <2>6. /\ r.files = Append(log.files, Opened(time))
        /\ r.lastRoll = time
        /\ r \in LogFiles
    BY <2>1, <2>2, <2>5, PeriodType DEF Open, LogFiles
  <2>7. Opened(time).second = time
    BY DEF Opened
  <2> QED BY <1>1, <2>5, <2>6, <2>7 DEF Goes, Open
<1>2. CASE ~(time > log.lastRoll)
  BY <1>2 DEF RollFile, Goes
<1> QED BY <1>1, <1>2

LEMMA RollIfDueGoes ==
    ASSUME NEW log, Open(log), NEW time \in Nat
    PROVE  Goes(log, RollIfDue(log, time), time)
<1> DEFINE checked == [log EXCEPT !.count = 0]
<1>1. Open(checked) /\ checked.files = log.files /\ checked.lastRoll = log.lastRoll
  <2>1. log \in LogFiles
    BY DEF Open
  <2>2. /\ checked \in LogFiles /\ checked.files = log.files
        /\ checked.lastRoll = log.lastRoll
    BY <2>1 DEF LogFiles
  <2> QED BY <2>2 DEF Open
<1>2. Goes(checked, RollFile(checked, time), time)
  BY <1>1, RollGoes
<1>3. Goes(log, RollFile(checked, time), time)
  BY <1>1, <1>2 DEF Goes
<1>4. Goes(log, log, time) /\ Goes(log, checked, time) /\ Goes(log, RollFile(log, time), time)
  BY <1>1, RollGoes DEF Goes
<1> QED BY <1>3, <1>4 DEF RollIfDue

LEMMA FlushIfDueGoes ==
    ASSUME NEW log, Open(log), NEW time \in Nat
    PROVE  Open(FlushIfDue(log, time)) /\ FlushIfDue(log, time).files = log.files
<1>1. Open(FlushFile(log)) /\ FlushFile(log).files = log.files
  BY FlushGoes
<1>2. /\ Open([FlushFile(log) EXCEPT !.lastFlush = time])
      /\ [FlushFile(log) EXCEPT !.lastFlush = time].files = log.files
  <2> DEFINE f == FlushFile(log)
             g == [f EXCEPT !.lastFlush = time]
  <2>1. f \in LogFiles
    BY <1>1 DEF Open
  <2> HIDE DEF f
  <2>2. g \in LogFiles /\ g.files = f.files /\ g.lastRoll = f.lastRoll
    BY <2>1, SMTT(30) DEF LogFiles
  <2> HIDE DEF g
  <2>3. Open(g) /\ g.files = log.files
    BY <1>1, <2>2 DEF Open, f
  <2> QED BY <2>3 DEF f, g
<1> QED BY <1>2 DEF FlushIfDue

\* A piece is put behind the last one, and then perhaps a new file is begun.
LEMMA AppendGoes ==
    ASSUME NEW log, Open(log), NEW data \in Seq(Nat), NEW time \in Nat
    PROVE  LET n == Len(log.files)
               next == AppendInLock(log, data, time)
               more == [log.files EXCEPT ![n].lines = @ \o data]
           IN  /\ Open(next)
               /\ \/ next.files = more
                  \/ time > log.lastRoll /\ next.files = Append(more, Opened(time))
<1> DEFINE n == Len(log.files)
           more == [log.files EXCEPT ![n].lines = @ \o data]
           added == [log EXCEPT !.files[n].lines = @ \o data, !.count = Counted(log)]
<1>1. log.files \in Seq(File) /\ n \in 1..n /\ log.files[n] \in File
  <2>1. log.files \in Seq(File) /\ log.files # <<>>
    BY DEF Open, LogFiles
  <2> QED BY <2>1
<1>2. /\ [log.files[n] EXCEPT !.lines = @ \o data] \in File
      /\ [log.files[n] EXCEPT !.lines = @ \o data].second = log.files[n].second
  <2>1. log.files[n].lines \in Seq(Nat)
    BY <1>1 DEF File
  <2>2. log.files[n].lines \o data \in Seq(Nat)
    BY <2>1
  <2> HIDE DEF n
  <2> QED BY <1>1, <2>2 DEF File
<1>3. /\ more \in Seq(File) /\ Len(more) = n
      /\ more[n].second = log.files[n].second
  BY <1>1, <1>2
<1>4. Counted(log) \in Int
  BY DEF Counted, Open, LogFiles
<1>5. added.files = more /\ added.lastRoll = log.lastRoll /\ added \in LogFiles
  BY <1>3, <1>4 DEF Open, LogFiles
<1>6. Open(added)
  BY <1>1, <1>3, <1>5 DEF Open
<1>7. Goes(added, RollIfDue(added, time), time)
  BY <1>6, RollIfDueGoes
<1> DEFINE rolled == RollIfDue(added, time)
<1>8. Open(FlushIfDue(rolled, time)) /\ FlushIfDue(rolled, time).files = rolled.files
  BY <1>7, FlushIfDueGoes DEF Goes
<1>9. AppendInLock(log, data, time) = FlushIfDue(rolled, time)
  BY DEF AppendInLock
<1> QED BY <1>5, <1>7, <1>8, <1>9 DEF Goes

\* Two lists of pieces with the same elements are equal.
LEMMA PiecesEqual ==
    ASSUME NEW P \in Seq(Seq(Nat)), NEW Q \in Seq(Seq(Nat)), Len(P) = Len(Q),
           \A i \in 1..Len(P) : P[i] = Q[i]
    PROVE  P = Q
<1> DEFINE S == Seq(Nat)
<1>1. P \in Seq(S) /\ Q \in Seq(S)
  OBVIOUS
<1> HIDE DEF S
<1> QED BY <1>1, SeqEqual

\* Joining pieces is associative.
LEMMA PiecesAssociative ==
    ASSUME NEW P \in Seq(Seq(Nat)), NEW Q \in Seq(Seq(Nat)), NEW R \in Seq(Seq(Nat))
    PROVE  (P \o Q) \o R = P \o (Q \o R)
<1> DEFINE S == Seq(Nat)
<1>1. P \in Seq(S) /\ Q \in Seq(S) /\ R \in Seq(S)
  OBVIOUS
<1> HIDE DEF S
<1> QED BY <1>1, ConcatAssociative, SMTT(30)

\* The last of the pieces is replaced.
LEMMA LastPiece ==
    ASSUME NEW q \in Seq(Seq(Nat)), q # <<>>, NEW e \in Seq(Nat)
    PROVE  \E A \in Seq(Seq(Nat)) :
              /\ q = A \o <<q[Len(q)]>>
              /\ A \o <<e>> \in Seq(Seq(Nat))
              /\ Len(A \o <<e>>) = Len(q)
              /\ (A \o <<e>>)[Len(q)] = e
              /\ \A i \in 1..Len(q) : i # Len(q) => (A \o <<e>>)[i] = q[i]
<1> DEFINE S == Seq(Nat)
           n == Len(q)
           A == SubSeq(q, 1, n - 1)
<1>1. n \in Nat \ {0} /\ q \in Seq(S) /\ Len(q) = n /\ e \in S
  OBVIOUS
<1>2. n - 1 \in Nat /\ \A i \in 1..n : q[i] \in S
  BY <1>1
<1> HIDE DEF S, n
<1>3. A \in Seq(S) /\ Len(A) = n - 1 /\ \A i \in 1..(n - 1) : A[i] = q[i]
  <2>1. \A i \in 1..(n - 1) : q[i] \in S
    BY <1>1, <1>2
  <2>2. 1 \in Int /\ n - 1 \in Int
    BY <1>1
  <2>3. /\ A \in Seq(S) /\ Len(A) = IF 1 <= n - 1 THEN n - 1 - 1 + 1 ELSE 0
        /\ \A i \in 1..(n - 1 - 1 + 1) : A[i] = q[1 + i - 1]
    BY <2>1, <2>2, SubSeqProperties
  <2> QED BY <1>1, <1>2, <2>3
<1> HIDE DEF A
<1>4. \A x \in S : /\ A \o <<x>> \in Seq(S) /\ Len(A \o <<x>>) = n
                   /\ (A \o <<x>>)[n] = x
                   /\ \A i \in 1..n : i # n => (A \o <<x>>)[i] = q[i]
  <2> SUFFICES ASSUME NEW x \in S
               PROVE  /\ A \o <<x>> \in Seq(S) /\ Len(A \o <<x>>) = n
                      /\ (A \o <<x>>)[n] = x
                      /\ \A i \in 1..n : i # n => (A \o <<x>>)[i] = q[i]
    OBVIOUS
  <2> DEFINE T == Append(A, x)
  <2>1. T = A \o <<x>>
    BY <1>3, AppendIsConcat
  <2>2. /\ T \in Seq(S) /\ Len(T) = Len(A) + 1 /\ T[Len(A) + 1] = x
        /\ \A i \in 1..Len(A) : T[i] = A[i]
    BY <1>3, AppendProperties
  <2> HIDE DEF T
  <2>3. Len(T) = n /\ T[n] = x /\ \A i \in 1..n : i # n => T[i] = q[i]
    BY <1>1, <1>3, <2>2
  <2> QED BY <2>1, <2>2, <2>3
<1>5. q[n] \in S
  BY <1>1, <1>2
<1>6. q = A \o <<q[n]>>
  <2> DEFINE T == A \o <<q[n]>>
  <2>1. /\ T \in Seq(S) /\ Len(T) = n /\ T[n] = q[n]
        /\ \A i \in 1..n : i # n => T[i] = q[i]
    BY <1>4, <1>5
  <2> HIDE DEF T
  <2>2. \A i \in 1..n : T[i] = q[i]
    BY <2>1
  <2>3. q = T
    BY <1>1, <2>1, <2>2, SeqEqual
  <2> QED BY <2>3 DEF T
<1> QED BY <1>1, <1>3, <1>4, <1>6 DEF S, n

\* What AppendInLock does to the lines.
LEMMA FilesGrow ==
    ASSUME NEW log, Open(log), Later(log), InOrder(Pieces(log)),
           NEW data \in Seq(Nat), Increasing(data), Below(Written(log), ToSet(data)),
           NEW time \in Nat, NEW next, next = AppendInLock(log, data, time)
    PROVE  /\ Open(next) /\ Later(next) /\ InOrder(Pieces(next))
           /\ Written(next) = Written(log) \cup ToSet(data)
<1> DEFINE n == Len(log.files)
           more == [log.files EXCEPT ![n].lines = @ \o data]
           P == Pieces(log)
           s == P[n]
<1>1. /\ log.files \in Seq(File) /\ n \in Nat /\ n \in 1..n
      /\ \A i \in 1..n : log.files[i] \in File
  <2>1. log.files \in Seq(File) /\ log.files # <<>>
    BY DEF Open, LogFiles
  <2> QED BY <2>1
<1>2. /\ Open(next)
      /\ \/ next.files = more
         \/ time > log.lastRoll /\ next.files = Append(more, Opened(time))
  BY AppendGoes
<1>3. P \in Seq(Seq(Nat)) /\ Len(P) = n /\ \A i \in 1..n : P[i] = log.files[i].lines
  BY PiecesType DEF Open, Pieces
<1>4. P # <<>> /\ s \in Seq(Nat)
  BY <1>1, <1>3
<1>5. PICK e \in Seq(Nat) : e = s \o data
  <2> HIDE DEF s
  <2>1. s \o data \in Seq(Nat)
    BY <1>4
  <2> QED BY <2>1
<1>6. PICK A \in Seq(Seq(Nat)) : /\ P = A \o <<s>>
                                 /\ A \o <<e>> \in Seq(Seq(Nat))
                                 /\ Len(A \o <<e>>) = n
                                 /\ (A \o <<e>>)[n] = e
                                 /\ \A i \in 1..n : i # n => (A \o <<e>>)[i] = P[i]
  <2>1. Len(P) = n
    BY <1>3
  <2> HIDE DEF P, n
  <2>2. P \in Seq(Seq(Nat)) /\ P # <<>> /\ e \in Seq(Nat)
    BY <1>3, <1>4
  <2>3. \E A \in Seq(Seq(Nat)) : /\ P = A \o <<P[Len(P)]>>
                                 /\ A \o <<e>> \in Seq(Seq(Nat))
                                 /\ Len(A \o <<e>>) = Len(P)
                                 /\ (A \o <<e>>)[Len(P)] = e
                                 /\ \A i \in 1..Len(P) :
                                       i # Len(P) => (A \o <<e>>)[i] = P[i]
    BY <2>2, LastPiece
  <2> QED BY <2>1, <2>3
<1> DEFINE M == A \o <<e>>
<1>7. /\ M \in Seq(Seq(Nat)) /\ Len(M) = n /\ M[n] = e
      /\ \A i \in 1..n : i # n => M[i] = P[i]
  BY <1>6
\* The lines of the piece that grew.
<1>8. InOrder(M) /\ LinesOf(M) = Written(log) \cup ToSet(data)
  <2> HIDE DEF s
  <2>1. <<s>> \in Seq(Seq(Nat)) /\ <<e>> \in Seq(Seq(Nat))
    BY <1>4, <1>5
  <2>2. /\ InOrder(A) /\ Increasing(s) /\ Below(LinesOf(A), ToSet(s))
        /\ Written(log) = LinesOf(A) \cup ToSet(s)
    <3>1. InOrder(A \o <<s>>) /\ Written(log) = LinesOf(A \o <<s>>)
      BY <1>6 DEF Written
    <3>2. InOrder(A) /\ InOrder(<<s>>) /\ Below(LinesOf(A), LinesOf(<<s>>))
      BY <1>6, <2>1, <3>1, JoinOrder
    <3>3. Written(log) = LinesOf(A) \cup LinesOf(<<s>>)
      BY <1>6, <2>1, <3>1, JoinLines
    <3>4. LinesOf(<<s>>) = ToSet(s) /\ (InOrder(<<s>>) <=> Increasing(s))
      BY <1>4, OneLine
    <3> QED BY <3>2, <3>3, <3>4
  <2>3. Below(ToSet(s), ToSet(data)) /\ Below(LinesOf(A), ToSet(data))
    BY <2>2 DEF Below
  <2>4. /\ Increasing(e)
        /\ ToSet(e) = ToSet(s) \cup ToSet(data)
    BY <1>4, <1>5, <2>2, <2>3, JoinWithin
  <2>5. Below(LinesOf(A), ToSet(e))
    BY <2>2, <2>3, <2>4 DEF Below
  <2>6. /\ InOrder(<<e>>) /\ LinesOf(<<e>>) = ToSet(e)
    BY <1>5, <2>4, OneLine
  <2>7. InOrder(M)
    BY <1>6, <2>1, <2>2, <2>5, <2>6, JoinOrder
  <2>8. LinesOf(M) = LinesOf(A) \cup ToSet(e)
    BY <1>6, <2>1, <2>6, JoinLines
  <2> QED BY <2>2, <2>4, <2>7, <2>8
<1>9. /\ more \in Seq(File) /\ Len(more) = n
      /\ \A i \in 1..n : more[i].second = log.files[i].second /\ more[i].lines = M[i]
  <2>1. /\ [log.files[n] EXCEPT !.lines = @ \o data] \in File
        /\ [log.files[n] EXCEPT !.lines = @ \o data].second = log.files[n].second
        /\ [log.files[n] EXCEPT !.lines = @ \o data].lines = M[n]
    <3>1. log.files[n] \in File /\ log.files[n].lines = s /\ M[n] \in Seq(Nat)
      BY <1>1, <1>3, <1>5, <1>7
    <3>2. M[n] = log.files[n].lines \o data
      BY <1>5, <1>7, <3>1
    <3> HIDE DEF n, M, s
    <3> QED BY <3>1, <3>2 DEF File
  <2>2. \A i \in 1..n : i # n => more[i] = log.files[i] /\ M[i] = log.files[i].lines
    <3>1. \A i \in 1..n : M[i] = P[i] \/ i = n
      BY <1>7
    <3>2. \A i \in 1..n : i # n => more[i] = log.files[i]
      BY <1>1
    <3> HIDE DEF n, M, more, P
    <3> QED BY <1>3, <3>1, <3>2
  <2>3. /\ more \in Seq(File) /\ Len(more) = n
        /\ more[n] = [log.files[n] EXCEPT !.lines = @ \o data]
    BY <1>1, <2>1
  <2> HIDE DEF n, M, more
  <2> QED BY <2>1, <2>2, <2>3
<1> HIDE DEF more, M, P, s
<1>10. CASE next.files = more
  <2>1. Pieces(next) = M
    <3> DEFINE Q == Pieces(next)
    <3>1. Q \in Seq(Seq(Nat)) /\ Len(Q) = n /\ \A i \in 1..n : Q[i] = more[i].lines
      BY <1>2, <1>9, <1>10, PiecesType DEF Open, Pieces
    <3> HIDE DEF Q, n
    <3>2. \A i \in 1..n : Q[i] = M[i]
      BY <1>9, <3>1
    <3>3. Q = M
      BY <1>7, <3>1, <3>2, PiecesEqual
    <3> QED BY <3>3 DEF Q
  <2>2. Later(next)
    BY <1>9, <1>10 DEF Later
  <2> QED BY <1>2, <1>8, <2>1, <2>2 DEF Written
<1>11. CASE time > log.lastRoll /\ next.files = Append(more, Opened(time))
  <2>1. /\ Len(next.files) = n + 1 /\ next.files[n + 1] = Opened(time)
        /\ \A i \in 1..n : next.files[i] = more[i]
    BY <1>9, <1>11
  <2>2. Opened(time).second = time /\ Opened(time).lines = <<>>
    BY DEF Opened
  <2>3. Pieces(next) = M \o <<<<>>>>
    <3> DEFINE Q == Pieces(next)
               R == M \o <<<<>>>>
    <3>1. /\ Q \in Seq(Seq(Nat)) /\ Len(Q) = n + 1
          /\ \A i \in 1..(n + 1) : Q[i] = next.files[i].lines
      BY <1>2, <2>1, PiecesType DEF Open, Pieces
    <3>2. /\ R \in Seq(Seq(Nat)) /\ Len(R) = n + 1 /\ R[n + 1] = <<>>
          /\ \A i \in 1..n : R[i] = M[i]
      BY <1>1, <1>7
    <3>3. \A i \in 1..(n + 1) : i \in 1..n \/ i = n + 1
      BY <1>1
    <3>4. \A i \in 1..(n + 1) : Q[i] = R[i]
      <4> SUFFICES ASSUME NEW i \in 1..(n + 1) PROVE Q[i] = R[i]
        OBVIOUS
      <4>1. CASE i \in 1..n
        <5>1. Q[i] = more[i].lines /\ R[i] = M[i]
          BY <2>1, <3>1, <3>2, <4>1
        <5> HIDE DEF Q, R
        <5> QED BY <1>9, <4>1, <5>1
      <4>2. CASE i = n + 1
        <5> HIDE DEF Q, R, n
        <5>1. n + 1 \in 1..(n + 1)
          BY <1>1
        <5>2. Q[n + 1] = next.files[n + 1].lines
          BY <3>1, <5>1
        <5> QED BY <2>1, <2>2, <3>2, <4>2, <5>2
      <4> HIDE DEF Q, R
      <4> QED BY <3>3, <4>1, <4>2
    <3> HIDE DEF Q, R
    <3>5. Q = R
      BY <3>1, <3>2, <3>4, SeqEqual
    <3> QED BY <3>5 DEF Q, R
  <2>4. <<<<>>>> \in Seq(Seq(Nat)) /\ <<>> \in Seq(Nat)
    OBVIOUS
  <2>5. InOrder(<<<<>>>>) /\ LinesOf(<<<<>>>>) = {}
    BY <2>4, OneLine
  <2>6. InOrder(Pieces(next)) /\ LinesOf(Pieces(next)) = LinesOf(M)
    <3> DEFINE E == <<<<>>>>
    <3>1. E \in Seq(Seq(Nat)) /\ InOrder(E) /\ LinesOf(E) = {} /\ Pieces(next) = M \o E
      BY <2>3, <2>4, <2>5
    <3> HIDE DEF E
    <3>2. Below(LinesOf(M), LinesOf(E))
      BY <3>1 DEF Below
    <3>3. InOrder(M \o E)
      BY <1>7, <1>8, <3>1, <3>2, JoinOrder
    <3>4. LinesOf(M \o E) = LinesOf(M) \cup LinesOf(E)
      BY <1>7, <3>1, JoinLines
    <3> QED BY <3>1, <3>3, <3>4
  <2>7. Later(next)
    <3>1. \A i \in 1..n : log.files[i].second \in Nat
      BY <1>1 DEF File
    <3>2. \A i \in 1..n : log.files[i].second < time
      <4>1. log.files[n].second < time
        BY <1>1, <1>11, <3>1 DEF Open
      <4>2. \A i \in 1..n : i < n => log.files[i].second < log.files[n].second
        BY <1>1 DEF Later
      <4>3. \A i \in 1..n : i < n \/ i = n
        BY <1>1
      <4>4. log.files[n].second \in Nat
        BY <1>1, <3>1
      <4> SUFFICES ASSUME NEW i \in 1..n, i < n PROVE log.files[i].second < time
        BY <4>1, <4>3
      <4>5. log.files[i].second < log.files[n].second /\ log.files[i].second \in Nat
        BY <3>1, <4>2
      <4> HIDE DEF n
      <4> QED BY <4>1, <4>4, <4>5
    <3>3. \A i \in 1..(n + 1) : i \in 1..n \/ i = n + 1
      BY <1>1
    <3>4. /\ next.files[n + 1].second = time
          /\ \A i \in 1..n : next.files[i].second = log.files[i].second
      BY <1>9, <2>1, <2>2
    <3> SUFFICES ASSUME NEW i \in 1..(n + 1), NEW j \in 1..(n + 1), i < j
                 PROVE  next.files[i].second < next.files[j].second
      BY <2>1 DEF Later
    <3>5. i \in 1..n
      BY <1>1
    <3> QED BY <3>2, <3>3, <3>4, <3>5 DEF Later
  <2> QED BY <1>2, <1>8, <2>6, <2>7 DEF Written
<1> QED BY <1>2, <1>10, <1>11 DEF more

-----------------------------------------------------------------------------
(* The log: the inductive invariant                                         *)

\* What is on its way to the disk, and what is not yet, is in order.
PartsAreOrdered ==
    /\ InOrder(Pieces(output)) /\ InOrder(toWrite)
    /\ InOrder(full) /\ Increasing(current)
    /\ Below(Written(output), LinesOf(toWrite))
    /\ Below(LinesOf(full), ToSet(current))

\* The last swap cuts the log in two.
SwapDivides ==
    /\ atSwap <= appended
    /\ Written(output) \cup LinesOf(toWrite) = 1..atSwap
    /\ LinesOf(full) \cup ToSet(current) = (atSwap + 1)..appended
    /\ pc # "write" => toWrite = <<>>

LogInv == /\ LogTypeOK
          /\ Open(output)
          /\ Later(output)
          /\ PartsAreOrdered
          /\ SwapDivides
          /\ EndsWithTheLastSwap
          /\ BuffersRecycled

LEMMA LogInitInv == LogInit => LogInv
<1> SUFFICES ASSUME LogInit PROVE LogInv
  OBVIOUS
<1>1. PICK g \in Garbage : output = NewLogFile(1, g)
  BY DEF LogInit
<1>2. Opened(1) \in File /\ Opened(1).second = 1 /\ Opened(1).lines = <<>>
  BY DEF Opened, File, Names
<1>3. /\ output.files = <<Opened(1)>> /\ output.flushed = {} /\ output.lastRoll = 1
      /\ output \in LogFiles
  <2>1. <<Opened(1)>> \in Seq(File)
    BY <1>2
  <2>2. g \in Int /\ Period(1) \in Nat
    BY LogAssumption, PeriodType
  <2> QED BY <1>1, <2>1, <2>2 DEF NewLogFile, LogFiles
<1>4. Open(output) /\ Later(output)
  BY <1>2, <1>3 DEF Open, Later
<1>5. Pieces(output) = <<<<>>>>
  BY <1>2, <1>3 DEF Pieces
<1>6. <<>> \in Seq(Nat) /\ <<>> \in Seq(Seq(Nat))
  OBVIOUS
<1>7. InOrder(Pieces(output)) /\ Written(output) = {}
  BY <1>5, <1>6, OneLine DEF Written
<1>8. /\ LinesOf(<<>>) = {} /\ InOrder(<<>>) /\ ToSet(<<>>) = {} /\ Increasing(<<>>)
  BY <1>6, OneLine
<1>9. /\ logging = TRUE /\ current = <<>> /\ hasNext = TRUE /\ full = <<>> /\ pc = "test"
      /\ hasNew1 = TRUE /\ hasNew2 = TRUE /\ toWrite = <<>> /\ spare = 0 /\ now = 1
      /\ appended = 0 /\ atSwap = 0
  BY DEF LogInit
<1>10. LogTypeOK
  <2>1. \A i \in 1..Len(output.files) : output.files[i].lines \in Seq(Nat)
    <3>1. Len(output.files) = 1 /\ output.files[1] = Opened(1)
      BY <1>3
    <3>2. output.files[1].lines \in Seq(Nat) /\ \A i \in 1..1 : i = 1
      BY <1>2, <3>1 DEF File
    <3> QED BY <3>1, <3>2
  <2> QED BY <1>3, <1>6, <1>9, <2>1 DEF LogTypeOK
<1>11. PartsAreOrdered
  BY <1>7, <1>8, <1>9 DEF PartsAreOrdered, Below
<1>12. SwapDivides
  BY <1>7, <1>8, <1>9 DEF SwapDivides
<1>13. EndsWithTheLastSwap /\ BuffersRecycled
  BY <1>9 DEF EndsWithTheLastSwap, BuffersRecycled
<1> QED BY <1>4, <1>10, <1>11, <1>12, <1>13 DEF LogInv

LEMMA OneNumber ==
    ASSUME NEW s \in Seq(Nat), NEW m \in Nat
    PROVE  /\ <<m>> \in Seq(Nat) /\ ToSet(<<m>>) = {m} /\ Increasing(<<m>>)
           /\ Append(s, m) = s \o <<m>> /\ Append(s, m) \in Seq(Nat)
<1>1. /\ <<m>> \in Seq(Nat) /\ Len(<<m>>) = 1 /\ <<m>>[1] = m /\ DOMAIN <<m>> = 1..1
      /\ \A i \in 1..1 : i = 1
  OBVIOUS
<1>2. ToSet(<<m>>) = {m} /\ Increasing(<<m>>)
  BY <1>1 DEF ToSet, Increasing
<1>3. Append(s, m) = s \o <<m>> /\ Append(s, m) \in Seq(Nat)
  OBVIOUS
<1> QED BY <1>1, <1>2, <1>3

\* The current buffer is put behind the full ones.
LEMMA PutBehind ==
    ASSUME NEW P \in Seq(Seq(Nat)), NEW s \in Seq(Nat), InOrder(P), Increasing(s),
           Below(LinesOf(P), ToSet(s))
    PROVE  /\ Append(P, s) \in Seq(Seq(Nat)) /\ Append(P, s) # <<>>
           /\ InOrder(Append(P, s))
           /\ LinesOf(Append(P, s)) = LinesOf(P) \cup ToSet(s)
<1>1. /\ Append(P, s) \in Seq(Seq(Nat)) /\ Append(P, s) # <<>>
      /\ <<s>> \in Seq(Seq(Nat)) /\ Append(P, s) = P \o <<s>>
  BY AppendProperties, AppendIsConcat
<1>2. LinesOf(<<s>>) = ToSet(s) /\ InOrder(<<s>>)
  BY OneLine
<1>3. InOrder(P \o <<s>>) /\ LinesOf(P \o <<s>>) = LinesOf(P) \cup ToSet(s)
  BY <1>1, <1>2, JoinOrder, JoinLines
<1> QED BY <1>1, <1>3

LEMMA HeadThenTail ==
    ASSUME NEW P \in Seq(Seq(Nat)), P # <<>>
    PROVE  /\ Head(P) \in Seq(Nat) /\ Tail(P) \in Seq(Seq(Nat))
           /\ <<Head(P)>> \in Seq(Seq(Nat)) /\ P = <<Head(P)>> \o Tail(P)
<1>1. Head(P) \in Seq(Nat) /\ Tail(P) \in Seq(Seq(Nat))
  OBVIOUS
<1>2. <<Head(P)>> \in Seq(Seq(Nat))
  BY <1>1
<1>3. P = <<Head(P)>> \o Tail(P)
  BY <1>1
<1> QED BY <1>1, <1>2, <1>3

LEMMA LinesType ==
    ASSUME NEW log \in LogFiles
    PROVE  \A i \in 1..Len(log.files) : log.files[i].lines \in Seq(Nat)
<1>1. \A i \in 1..Len(log.files) : log.files[i] \in File
  BY DEF LogFiles
<1> QED BY <1>1 DEF File

LEMMA AppendFitsKeeps == LogInv /\ AppendFits => LogInv'
<1> SUFFICES ASSUME LogInv, AppendFits PROVE LogInv'
  OBVIOUS
<1> DEFINE m == appended + 1
<1>1. /\ appended \in Nat /\ current \in Seq(Nat) /\ full \in Seq(Seq(Nat))
      /\ atSwap \in Nat /\ atSwap <= appended
      /\ LinesOf(full) \cup ToSet(current) = (atSwap + 1)..appended
      /\ Increasing(current) /\ Below(LinesOf(full), ToSet(current))
  BY DEF LogInv, LogTypeOK, PartsAreOrdered, SwapDivides
<1>2. /\ appended' = m /\ current' = Append(current, m)
      /\ UNCHANGED <<logging, hasNext, full, pc, hasNew1, hasNew2, toWrite, spare,
                     output, now, atSwap>>
  BY DEF AppendFits, fileVars
<1>3. /\ <<m>> \in Seq(Nat) /\ ToSet(<<m>>) = {m} /\ Increasing(<<m>>)
      /\ current' = current \o <<m>> /\ current' \in Seq(Nat)
  BY <1>1, <1>2, OneNumber
<1>4. Below(ToSet(current), {m}) /\ Below(LinesOf(full), {m})
  BY <1>1 DEF Below
<1>5. ToSet(current') = ToSet(current) \cup {m} /\ Increasing(current')
  BY <1>1, <1>3, <1>4, JoinWithin
<1>6. Below(LinesOf(full), ToSet(current'))
  BY <1>1, <1>4, <1>5 DEF Below
<1>7. (atSwap + 1)..m = ((atSwap + 1)..appended) \cup {m} /\ atSwap <= m /\ m \in Nat
  BY <1>1
<1>8. LogTypeOK'
  BY <1>2, <1>3, <1>7 DEF LogInv, LogTypeOK
<1>9. PartsAreOrdered'
  BY <1>2, <1>5, <1>6 DEF LogInv, PartsAreOrdered
<1>10. SwapDivides'
  BY <1>1, <1>2, <1>5, <1>7 DEF LogInv, SwapDivides
<1>11. EndsWithTheLastSwap' /\ BuffersRecycled' /\ Open(output)' /\ Later(output)'
  BY <1>2 DEF LogInv, EndsWithTheLastSwap, BuffersRecycled, Wanted, Kept, Later
<1> QED BY <1>8, <1>9, <1>10, <1>11 DEF LogInv

LEMMA AppendNextKeeps == LogInv /\ AppendNext => LogInv'
<1> SUFFICES ASSUME LogInv, AppendNext PROVE LogInv'
  OBVIOUS
<1> DEFINE m == appended + 1
<1>1. /\ appended \in Nat /\ current \in Seq(Nat) /\ full \in Seq(Seq(Nat))
      /\ atSwap \in Nat /\ atSwap <= appended
      /\ LinesOf(full) \cup ToSet(current) = (atSwap + 1)..appended
      /\ InOrder(full) /\ Increasing(current) /\ Below(LinesOf(full), ToSet(current))
  BY DEF LogInv, LogTypeOK, PartsAreOrdered, SwapDivides
<1>2. /\ appended' = m /\ current' = <<m>> /\ full' = Append(full, current)
      /\ hasNext' = FALSE
      /\ UNCHANGED <<logging, pc, hasNew1, hasNew2, toWrite, spare, output, now, atSwap>>
  BY DEF AppendNext, fileVars
<1>3. /\ <<m>> \in Seq(Nat) /\ ToSet(<<m>>) = {m} /\ Increasing(<<m>>)
  BY <1>1, OneNumber
<1>4. /\ full' \in Seq(Seq(Nat)) /\ InOrder(full') /\ full' # <<>>
      /\ LinesOf(full') = (atSwap + 1)..appended
  BY <1>1, <1>2, PutBehind
<1>5. Below((atSwap + 1)..appended, {m})
  BY <1>1 DEF Below
<1>6. (atSwap + 1)..m = ((atSwap + 1)..appended) \cup {m} /\ atSwap <= m /\ m \in Nat
  BY <1>1
<1>7. LogTypeOK'
  BY <1>2, <1>3, <1>4, <1>6 DEF LogInv, LogTypeOK
<1>8. PartsAreOrdered'
  BY <1>2, <1>3, <1>4, <1>5 DEF LogInv, PartsAreOrdered
<1>9. SwapDivides'
  BY <1>2, <1>3, <1>4, <1>6 DEF LogInv, SwapDivides
<1>10. EndsWithTheLastSwap' /\ BuffersRecycled' /\ Open(output)' /\ Later(output)'
  BY <1>2, <1>4 DEF LogInv, EndsWithTheLastSwap, BuffersRecycled, Wanted, Kept, Later
<1> QED BY <1>7, <1>8, <1>9, <1>10 DEF LogInv

LEMMA SwapKeeps == LogInv /\ Swap => LogInv'
<1> SUFFICES ASSUME LogInv, Swap PROVE LogInv'
  OBVIOUS
<1>1. /\ appended \in Nat /\ current \in Seq(Nat) /\ full \in Seq(Seq(Nat))
      /\ atSwap \in Nat /\ atSwap <= appended
      /\ LinesOf(full) \cup ToSet(current) = (atSwap + 1)..appended
      /\ InOrder(full) /\ Increasing(current) /\ Below(LinesOf(full), ToSet(current))
      /\ InOrder(Pieces(output)) /\ hasNew1 \in BOOLEAN /\ hasNew2 \in BOOLEAN
      /\ hasNext \in BOOLEAN
  BY DEF LogInv, LogTypeOK, PartsAreOrdered, SwapDivides
<1>2. /\ pc = "wait" /\ pc' = "write" /\ toWrite' = Append(full, current)
      /\ spare' = Len(full) + 1 /\ full' = <<>> /\ current' = <<>> /\ hasNew1' = FALSE
      /\ hasNext' = TRUE /\ hasNew2' = (hasNew2 /\ hasNext) /\ atSwap' = appended
      /\ UNCHANGED <<logging, output, now, appended>>
  BY DEF Swap, fileVars
<1>3. /\ toWrite' \in Seq(Seq(Nat)) /\ InOrder(toWrite')
      /\ LinesOf(toWrite') = (atSwap + 1)..appended
  BY <1>1, <1>2, PutBehind
<1>4. Written(output) = 1..atSwap
  <2>1. toWrite = <<>> /\ Written(output) \cup LinesOf(toWrite) = 1..atSwap
    BY <1>2 DEF LogInv, SwapDivides
  <2>2. <<>> \in Seq(Nat)
    OBVIOUS
  <2>3. LinesOf(<<>>) = {}
    BY <2>2, OneLine
  <2> QED BY <2>1, <2>3
<1>5. Below(1..atSwap, (atSwap + 1)..appended)
  BY <1>1 DEF Below
<1>6. 1..appended = (1..atSwap) \cup ((atSwap + 1)..appended) /\ (appended + 1)..appended = {}
  BY <1>1
<1>7. <<>> \in Seq(Nat) /\ <<>> \in Seq(Seq(Nat))
  OBVIOUS
<1>8. /\ LinesOf(<<>>) = {} /\ InOrder(<<>>) /\ ToSet(<<>>) = {} /\ Increasing(<<>>)
  BY <1>7, OneLine
<1>9. LogTypeOK'
  <2>1. spare' \in Nat
    BY <1>1, <1>2
  <2> QED BY <1>1, <1>2, <1>3, <1>7, <2>1 DEF LogInv, LogTypeOK
<1>10. PartsAreOrdered'
  BY <1>1, <1>2, <1>3, <1>4, <1>5, <1>8 DEF PartsAreOrdered, Below
<1>11. SwapDivides'
  BY <1>1, <1>2, <1>3, <1>4, <1>6, <1>8 DEF SwapDivides
<1>12. BuffersRecycled'
  <2>1. hasNew2 /\ (hasNext \/ full # <<>>)
    BY <1>1, <1>2 DEF LogInv, BuffersRecycled
  <2>2. full # <<>> => Len(full) >= 1
    BY <1>1
  <2>3. Len(full) \in Nat
    BY <1>1
  <2>4. Wanted' = IF hasNext THEN 1 ELSE 2
    BY <1>1, <1>2, <2>1 DEF Wanted
  <2>5. Kept' = IF Len(full) + 1 > 2 THEN 2 ELSE Len(full) + 1
    BY <1>2 DEF Kept
  <2>6. Wanted' <= Kept'
    BY <2>1, <2>2, <2>3, <2>4, <2>5
  <2> QED BY <1>2, <2>6 DEF BuffersRecycled
<1>13. EndsWithTheLastSwap' /\ Open(output)' /\ Later(output)'
  BY <1>2 DEF LogInv, EndsWithTheLastSwap, Later
<1> QED BY <1>9, <1>10, <1>11, <1>12, <1>13 DEF LogInv

LEMMA WriteOneKeeps == LogInv /\ WriteOne => LogInv'
<1> SUFFICES ASSUME LogInv, WriteOne PROVE LogInv'
  OBVIOUS
<1> DEFINE h == Head(toWrite)
           t == Tail(toWrite)
<1>1. /\ pc = "write" /\ toWrite # <<>> /\ output' = AppendInLock(output, h, now)
      /\ toWrite' = t
      /\ UNCHANGED <<logging, current, hasNext, full, pc, hasNew1, hasNew2, spare,
                     now, appended, atSwap>>
  BY DEF WriteOne
<1>2. /\ toWrite \in Seq(Seq(Nat)) /\ now \in Nat /\ Open(output) /\ Later(output)
      /\ InOrder(toWrite) /\ InOrder(Pieces(output))
      /\ Below(Written(output), LinesOf(toWrite))
      /\ Written(output) \cup LinesOf(toWrite) = 1..atSwap
  BY DEF LogInv, LogTypeOK, PartsAreOrdered, SwapDivides, Later
<1>3. /\ h \in Seq(Nat) /\ t \in Seq(Seq(Nat)) /\ <<h>> \in Seq(Seq(Nat))
      /\ toWrite = <<h>> \o t
  BY <1>1, <1>2, HeadThenTail
<1> HIDE DEF h, t
<1>4. /\ InOrder(t) /\ InOrder(<<h>>) /\ Below(LinesOf(<<h>>), LinesOf(t))
      /\ LinesOf(toWrite) = LinesOf(<<h>>) \cup LinesOf(t)
  BY <1>2, <1>3, JoinOrder, JoinLines
<1>5. LinesOf(<<h>>) = ToSet(h) /\ Increasing(h)
  BY <1>3, <1>4, OneLine
<1>6. Below(Written(output), ToSet(h))
  BY <1>2, <1>4, <1>5 DEF Below
<1>7. /\ Open(output') /\ Later(output') /\ InOrder(Pieces(output'))
      /\ Written(output') = Written(output) \cup ToSet(h)
  BY <1>1, <1>2, <1>3, <1>5, <1>6, FilesGrow
<1>8. Below(Written(output'), LinesOf(t))
  BY <1>2, <1>4, <1>5, <1>7 DEF Below
<1>9. Written(output') \cup LinesOf(t) = 1..atSwap
  BY <1>2, <1>4, <1>5, <1>7
<1>10. LogTypeOK'
  <2>1. output' \in LogFiles
    BY <1>7 DEF Open
  <2>2. output'.flushed \subseteq Nat
    BY <2>1 DEF LogFiles
  <2>3. \A i \in 1..Len(output'.files) : output'.files[i].lines \in Seq(Nat)
    BY <2>1, LinesType
  <2> QED BY <1>1, <1>3, <2>2, <2>3 DEF LogInv, LogTypeOK
<1>11. PartsAreOrdered'
  BY <1>1, <1>4, <1>7, <1>8 DEF LogInv, PartsAreOrdered
<1>12. SwapDivides'
  BY <1>1, <1>9 DEF LogInv, SwapDivides
<1>13. EndsWithTheLastSwap' /\ BuffersRecycled' /\ Later(output)'
  BY <1>1, <1>7 DEF LogInv, EndsWithTheLastSwap, BuffersRecycled, Wanted, Kept,
                    Later
<1> QED BY <1>7, <1>10, <1>11, <1>12, <1>13 DEF LogInv

LEMMA RecycleKeeps == LogInv /\ Recycle => LogInv'
<1> SUFFICES ASSUME LogInv, Recycle PROVE LogInv'
  OBVIOUS
<1>1. /\ pc = "write" /\ toWrite = <<>> /\ pc' = "flush" /\ spare' = 0
      /\ hasNew1' = (hasNew1 \/ Kept > 0) /\ hasNew2' = (hasNew2 \/ Kept >= Wanted)
      /\ UNCHANGED <<logging, current, hasNext, full, toWrite, output, now, appended, atSwap>>
  BY DEF Recycle, fileVars
<1>2. /\ spare \in Nat /\ hasNew1 \in BOOLEAN /\ hasNew2 \in BOOLEAN /\ Wanted <= Kept
      /\ ~hasNext => full # <<>>
  BY <1>1 DEF LogInv, LogTypeOK, BuffersRecycled
<1>3. hasNew1 \/ Kept > 0
  BY <1>2 DEF Kept, Wanted
<1>4. Kept >= Wanted
  BY <1>2 DEF Kept, Wanted
<1>5. hasNew1' = TRUE /\ hasNew2' = TRUE
  BY <1>1, <1>2, <1>3, <1>4
<1>6. BuffersRecycled'
  BY <1>1, <1>2, <1>5 DEF BuffersRecycled
<1>7. LogTypeOK'
  BY <1>1, <1>5 DEF LogInv, LogTypeOK
<1>8. PartsAreOrdered' /\ SwapDivides' /\ EndsWithTheLastSwap' /\ Open(output)'
      /\ Later(output)'
  BY <1>1 DEF LogInv, PartsAreOrdered, SwapDivides, EndsWithTheLastSwap, Later
<1> QED BY <1>6, <1>7, <1>8 DEF LogInv

LEMMA FlushKeeps == LogInv /\ Flush => LogInv'
<1> SUFFICES ASSUME LogInv, Flush PROVE LogInv'
  OBVIOUS
<1>1. /\ pc \in {"flush", "leaving"} /\ pc' = (IF pc = "flush" THEN "test" ELSE "done")
      /\ output' = FlushFile(output)
      /\ UNCHANGED <<logging, current, hasNext, full, hasNew1, hasNew2, toWrite, spare,
                     now, appended, atSwap>>
  BY DEF Flush
<1>2. Open(output') /\ output'.files = output.files
  BY <1>1, FlushGoes DEF LogInv, LogTypeOK
<1>3. output'.flushed = Written(output)
  BY <1>1 DEF FlushFile, LogInv, Open, LogFiles
<1>4. Pieces(output') = Pieces(output) /\ Written(output') = Written(output)
  BY <1>2 DEF Pieces, Written
<1>5. Written(output) = 1..atSwap
  <2>1. toWrite = <<>> /\ Written(output) \cup LinesOf(toWrite) = 1..atSwap
    BY <1>1 DEF LogInv, SwapDivides
  <2>2. <<>> \in Seq(Nat)
    OBVIOUS
  <2>3. LinesOf(<<>>) = {}
    BY <2>2, OneLine
  <2> QED BY <2>1, <2>3
<1>6. LogTypeOK'
  <2>1. output'.flushed \subseteq Nat
    BY <1>2 DEF Open, LogFiles
  <2>2. \A i \in 1..Len(output'.files) : output'.files[i].lines \in Seq(Nat)
    BY <1>2 DEF LogInv, LogTypeOK
  <2> QED BY <1>1, <2>1, <2>2 DEF LogInv, LogTypeOK
<1>7. PartsAreOrdered' /\ SwapDivides' /\ Later(output)'
  BY <1>1, <1>2, <1>4 DEF LogInv, PartsAreOrdered, SwapDivides, Later
<1>8. EndsWithTheLastSwap'
  BY <1>1, <1>3, <1>4, <1>5 DEF EndsWithTheLastSwap
<1>9. BuffersRecycled'
  BY <1>1 DEF LogInv, BuffersRecycled
<1> QED BY <1>2, <1>6, <1>7, <1>8, <1>9 DEF LogInv

LEMMA OtherStepsKeep == LogInv /\ (Stop \/ Test \/ Tick \/ UNCHANGED logVars) => LogInv'
<1> SUFFICES ASSUME LogInv, Stop \/ Test \/ Tick \/ UNCHANGED logVars PROVE LogInv'
  OBVIOUS
<1>1. /\ UNCHANGED <<current, hasNext, full, hasNew1, hasNew2, toWrite, spare, output,
                     appended, atSwap>>
      /\ logging' \in BOOLEAN
      /\ now' \in Nat
      /\ pc' = pc \/ (pc = "test" /\ pc' \in {"wait", "leaving"})
  <2>1. logging \in BOOLEAN /\ now \in Nat
    BY DEF LogInv, LogTypeOK
  <2>2. CASE Stop
    BY <2>1, <2>2 DEF Stop, fileVars
  <2>3. CASE Test
    BY <2>1, <2>3 DEF Test, fileVars
  <2>4. CASE Tick
    <3>1. now' \in {now - 1, now + 1} \cap 1..MaxTime
      BY <2>4 DEF Tick
    <3>2. now' \in Nat
      BY <2>1, <3>1
    <3> QED BY <2>1, <2>4, <3>2 DEF Tick
  <2>5. CASE UNCHANGED logVars
    BY <2>1, <2>5 DEF logVars
  <2> QED BY <2>2, <2>3, <2>4, <2>5
<1>2. LogTypeOK'
  BY <1>1 DEF LogInv, LogTypeOK
<1>3. PartsAreOrdered' /\ SwapDivides' /\ EndsWithTheLastSwap' /\ Open(output)'
      /\ Later(output)'
  BY <1>1 DEF LogInv, PartsAreOrdered, SwapDivides, EndsWithTheLastSwap, Later
<1>4. BuffersRecycled'
  BY <1>1 DEF LogInv, BuffersRecycled, Wanted, Kept
<1> QED BY <1>2, <1>3, <1>4 DEF LogInv

LEMMA LogNextInv == LogInv /\ [LogNext]_logVars => LogInv'
BY AppendFitsKeeps, AppendNextKeeps, SwapKeeps, WriteOneKeeps, RecycleKeeps, FlushKeeps,
   OtherStepsKeep
   DEF LogNext, BackEnd

\* The files and the buffers of the log, from the first line to the last.
THEOREM LogInvariant == LogSpec => []LogInv
<1> QED BY LogInitInv, LogNextInv, PTL DEF LogSpec

\* Openings in later seconds have later names as long as local time goes on.
LEMMA NamesFollowLocalTime ==
    ASSUME Open(output), Later(output)
    PROVE  FilesAreOrdered
<1> SUFFICES ASSUME NEW i \in 1..Len(output.files), NEW j \in 1..Len(output.files), i < j,
                    LocalTimeGoesOn(output.files[i].second, output.files[j].second)
             PROVE  output.files[i].name < output.files[j].name
  BY DEF FilesAreOrdered, Later
<1> DEFINE f == output.files[i]
           g == output.files[j]
<1>1. f \in File /\ g \in File
  BY DEF Open, LogFiles
<1>2. f.second < g.second
  BY DEF Later
<1>3. LocalTimeGoesOn(f.second, g.second)
  OBVIOUS
<1> HIDE DEF f, g
<1>4. /\ f.second \in Nat /\ g.second \in Nat
      /\ f.name = LocalTime(f.second) /\ g.name = LocalTime(g.second)
  BY <1>1 DEF File
<1>5. f.second \in f.second..g.second /\ g.second \in f.second..g.second
  BY <1>2, <1>4
<1>6. LocalTime(f.second) < LocalTime(g.second)
  BY <1>2, <1>3, <1>5 DEF LocalTimeGoesOn
<1>7. f.name < g.name
  BY <1>4, <1>6
<1> QED BY <1>7 DEF f, g

\* Every line is in the files or the buffers once and in order, the names of the
\* files follow it while local time goes on, and stop() loses only what came
\* after the last swap: for any sizes, any clock and any rules of the zone
\* (LogFile.cc:27-59, AsyncLogging.cc:21-45, 58-102).
THEOREM NothingIsLost == LogSpec => []NothingLost
<1>1. LogInv => NothingLost
  <2> SUFFICES ASSUME LogInv PROVE NothingLost
    OBVIOUS
  <2> DEFINE P == Pieces(output)
             A == P \o toWrite
             B == full \o <<current>>
  <2>1. /\ P \in Seq(Seq(Nat)) /\ toWrite \in Seq(Seq(Nat)) /\ full \in Seq(Seq(Nat))
        /\ current \in Seq(Nat) /\ <<current>> \in Seq(Seq(Nat))
        /\ appended \in Nat /\ atSwap \in Nat /\ atSwap <= appended
    BY PiecesType DEF LogInv, LogTypeOK, Open, SwapDivides
  <2> HIDE DEF P
  <2>2. A \in Seq(Seq(Nat)) /\ B \in Seq(Seq(Nat))
    BY <2>1, ConcatProperties
  <2>3. WholeLog = A \o B
    <3>1. WholeLog = (A \o full) \o <<current>>
      BY DEF WholeLog, P
    <3> DEFINE C == <<current>>
    <3>2. full \in Seq(Seq(Nat))
      BY <2>1
    <3>3. C \in Seq(Seq(Nat))
      BY <2>1
    <3>4. A \in Seq(Seq(Nat))
      BY <2>2
    <3> HIDE DEF A, C
    <3>5. (A \o full) \o C = A \o (full \o C)
      BY <3>2, <3>3, <3>4, PiecesAssociative
    <3> QED BY <3>1, <3>5 DEF C
  <2>4. InOrder(A) /\ LinesOf(A) = 1..atSwap
    <3>1. /\ InOrder(P) /\ InOrder(toWrite) /\ Below(LinesOf(P), LinesOf(toWrite))
          /\ LinesOf(P) \cup LinesOf(toWrite) = 1..atSwap
      BY DEF LogInv, PartsAreOrdered, SwapDivides, Written, P
    <3>2. InOrder(P \o toWrite)
      BY <2>1, <3>1, JoinOrder
    <3>3. LinesOf(P \o toWrite) = LinesOf(P) \cup LinesOf(toWrite)
      BY <2>1, JoinLines
    <3> QED BY <3>1, <3>2, <3>3
  <2>5. InOrder(B) /\ LinesOf(B) = (atSwap + 1)..appended
    <3>1. InOrder(<<current>>) /\ LinesOf(<<current>>) = ToSet(current)
      BY <2>1, OneLine DEF LogInv, PartsAreOrdered
    <3>2. /\ InOrder(full) /\ Below(LinesOf(full), ToSet(current))
          /\ LinesOf(full) \cup ToSet(current) = (atSwap + 1)..appended
      BY DEF LogInv, PartsAreOrdered, SwapDivides
    <3>3. InOrder(full \o <<current>>)
      BY <2>1, <3>1, <3>2, JoinOrder
    <3>4. LinesOf(full \o <<current>>) = LinesOf(full) \cup LinesOf(<<current>>)
      BY <2>1, JoinLines
    <3> QED BY <3>1, <3>2, <3>3, <3>4
  <2>6. Below(1..atSwap, (atSwap + 1)..appended)
    BY <2>1 DEF Below
  <2>7. (1..atSwap) \cup ((atSwap + 1)..appended) = 1..appended
    BY <2>1
  <2> HIDE DEF A, B
  <2>8. InOrder(WholeLog)
    BY <2>2, <2>3, <2>4, <2>5, <2>6, JoinOrder
  <2>9. LinesOf(WholeLog) = 1..appended
    BY <2>2, <2>3, <2>4, <2>5, <2>7, JoinLines
  <2>10. FilesAreOrdered
    BY NamesFollowLocalTime DEF LogInv
  <2> QED BY <2>8, <2>9, <2>10 DEF NothingLost, LogInv
<1> QED BY <1>1, LogInvariant, PTL

\* The back end never takes a buffer from an empty vector.
THEOREM BuffersAreRecycled == LogSpec => []BuffersRecycled
<1>1. LogInv => BuffersRecycled
  BY DEF LogInv
<1> QED BY <1>1, LogInvariant, PTL
=============================================================================
