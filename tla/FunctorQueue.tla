----------------------------- MODULE FunctorQueue -----------------------------
(***************************************************************************)
(* What an event loop promises to those who give it work: the functors are *)
(* run one at a time, each exactly once, in the order in which they were   *)
(* queued.  A functor is the number of its place in that order.  How the   *)
(* loop is woken, and that it takes functors in batches, is not said here. *)
(***************************************************************************)
EXTENDS Naturals, Sequences

CONSTANT MaxPosted

VARIABLES queue,   \* the functors not run yet, oldest first
          posted,  \* how many were queued
          ran      \* how many were run

Init == queue = <<>> /\ posted = 0 /\ ran = 0

Post == /\ posted < MaxPosted
        /\ posted' = posted + 1
        /\ queue' = Append(queue, posted + 1)
        /\ UNCHANGED ran

\* The functor that runs is the next one in the order of queueing; its body
\* may queue one more.
Run == /\ queue # <<>>
       /\ Head(queue) = ran + 1
       /\ ran' = ran + 1
       /\ \/ queue' = Tail(queue) /\ UNCHANGED posted
          \/ /\ posted < MaxPosted
             /\ posted' = posted + 1
             /\ queue' = Append(Tail(queue), posted + 1)

Next == Post \/ Run

Spec == Init /\ [][Next]_<<queue, posted, ran>>
=============================================================================
