------------------------------ MODULE TcpServer ------------------------------
(***************************************************************************)
(* The life of the connections of a TcpServer: src/net/TcpServer.cc,       *)
(* TcpConnection.cc, Acceptor.cc, EventLoopThreadPool.cc, Channel.cc and   *)
(* EPollPoller.cc, with the HttpServer callbacks on top.                   *)
(*                                                                         *)
(* Loop 0 is the base loop, which accepts; loops 1..numSub are the I/O     *)
(* loops (none: the base loop does everything).  The loops talk only by    *)
(* functors, so each has a mailbox: EventLoop.tla shows that queueInLoop   *)
(* delivers every functor once and in order.  A functor or a worker task   *)
(* that captured the shared_ptr of a connection keeps its object alive.    *)
(*                                                                         *)
(* The server is never destroyed: main() returns from loop() only by a     *)
(* signal that ends the process.  Output is the subject of TcpOutput.      *)
(***************************************************************************)
EXTENDS Naturals, Sequences

CONSTANTS MaxConns,     \* bound: connections accepted
          MaxSubLoops,  \* the largest thread number given to setThreadNum
          MaxMessages   \* bound: requests a peer sends on one connection

ASSUME BoundsAssumption == /\ MaxConns \in Nat \ {0}
                           /\ MaxSubLoops \in Nat
                           /\ MaxMessages \in Nat

Conns == 1..MaxConns
Base == 0

VARIABLES numSub,       \* numThreads_
          listening,    \* Acceptor::listenning_
          nextConnId,   \* nextConnId_
          next,         \* EventLoopThreadPool::next_
          ledger,       \* connections_
          loopOf,       \* loop_ of each connection
          state,        \* state_ of each connection
          index,        \* index_ of its channel in the poller
          contexts,     \* HttpServer::contexts_
          mail,         \* the functors queued in each loop
          tasks,        \* the worker tasks that hold each connection
          leaving,      \* those of them that have queued their last functor
          toSend,       \* how many requests its peer will still send
          unread,       \* is there data to read from its socket?
          peerClosed,   \* has the peer closed?
          ups, downs    \* ghost: the events reported to the application

vars == <<numSub, listening, nextConnId, next, ledger, loopOf, state, index,
          contexts, mail, tasks, leaving, toSend, unread, peerClosed, ups, downs>>
peerVars == <<toSend, unread, peerClosed>>
held == <<tasks, leaving>>
serverVars == <<numSub, listening, nextConnId, next, loopOf>>

Loops == Base..numSub

Init == /\ numSub \in 0..MaxSubLoops
        /\ listening = FALSE
        /\ nextConnId = 1
        /\ next = 0
        /\ ledger = {}
        /\ loopOf = [c \in Conns |-> Base]
        /\ state = [c \in Conns |-> "none"]
        /\ index = [c \in Conns |-> "new"]
        /\ contexts = {}
        /\ mail = [l \in 0..MaxSubLoops |-> <<>>]
        /\ tasks = [c \in Conns |-> 0]
        /\ leaving = [c \in Conns |-> 0]
        /\ toSend = [c \in Conns |-> MaxMessages]
        /\ unread = [c \in Conns |-> FALSE]
        /\ peerClosed = [c \in Conns |-> FALSE]
        /\ ups = [c \in Conns |-> 0]
        /\ downs = [c \in Conns |-> 0]

-----------------------------------------------------------------------------
Mentions(l, c) == \E i \in 1..Len(mail[l]) : mail[l][i].conn = c

\* Does a shared_ptr to the connection exist?
Referenced(c) == \/ c \in ledger
                 \/ tasks[c] > 0
                 \/ \E l \in Loops : Mentions(l, c)

Accepted(c) == c < nextConnId
Freed(c) == Accepted(c) /\ ~Referenced(c)

Sent(boxes, l, op, c) ==
    [boxes EXCEPT ![l] = Append(@, [op |-> op, conn |-> c])]

Rest(l) == [mail EXCEPT ![l] = Tail(@)]

\* connectionCallback_, i.e. HttpServer::onConnection, when state_ becomes s.
Mut_ConnectionCallback(c, s) ==
    /\ contexts' = contexts \cup {c}
    /\ IF s = "connected"
       THEN ups' = [ups EXCEPT ![c] = @ + 1] /\ UNCHANGED downs
       ELSE downs' = [downs EXCEPT ![c] = @ + 1] /\ UNCHANGED ups

ConnectionCallback(c, s) ==
    IF s = "connected"
    THEN /\ ups' = [ups EXCEPT ![c] = @ + 1]
         /\ contexts' = contexts \cup {c}
         /\ UNCHANGED downs
    ELSE /\ downs' = [downs EXCEPT ![c] = @ + 1]
         /\ contexts' = contexts \ {c}
         /\ UNCHANGED ups

\* Poller: a channel that is told to watch something, or nothing.  It leaves
\* epoll when it watches nothing, and the poller only when it is removed; any
\* update of a channel that is not in epoll puts it there.
UpdateChannel(c, watches) ==
    index' = [index EXCEPT ![c] = IF @ = "added" /\ ~watches THEN "deleted" ELSE "added"]

RemoveChannel(c) == index' = [index EXCEPT ![c] = "new"]

\* connectEstablished: the channel is added to the poller, the application told.
ConnectEstablished(c) ==
    /\ state' = [state EXCEPT ![c] = "connected"]
    /\ UpdateChannel(c, TRUE)
    /\ ConnectionCallback(c, "connected")

\* connectDestroyed: only a connection that nobody closed is reported here.
Mut_ConnectDestroyed(c) ==
    /\ state' = [state EXCEPT ![c] = "disconnected"]
    /\ ConnectionCallback(c, "disconnected")
    /\ RemoveChannel(c)

ConnectDestroyed(c) ==
    /\ IF state[c] = "connected"
       THEN /\ state' = [state EXCEPT ![c] = "disconnected"]
            /\ ConnectionCallback(c, "disconnected")
       ELSE UNCHANGED <<state, contexts, ups, downs>>
    /\ RemoveChannel(c)

\* removeConnectionInLoop with the mailboxes as its caller leaves them; the
\* destruction is always queued, never run inside a channel's handler.
Mut_RemoveForgetsDestroy(c, boxes) ==
    /\ ledger' = ledger \ {c}
    /\ mail' = boxes

Mut_RemoveKeepsLedger(c, boxes) ==
    /\ mail' = Sent(boxes, loopOf[c], "destroy", c)
    /\ UNCHANGED ledger

RemoveConnectionInLoop(c, boxes) ==
    /\ ledger' = ledger \ {c}
    /\ mail' = Sent(boxes, loopOf[c], "destroy", c)

-----------------------------------------------------------------------------
(* The base loop.                                                           *)

Start == /\ ~listening
         /\ listening' = TRUE
         /\ UNCHANGED <<numSub, nextConnId, next, loopOf, ledger, state, index,
                        contexts, mail, held, peerVars, ups, downs>>

GetNextLoop == IF numSub = 0 THEN Base ELSE next + 1

AdvanceNext == IF numSub = 0 THEN next ELSE (next + 1) % numSub

\* Acceptor::handleRead, newConnection and the runInLoop of connectEstablished,
\* which runs at once when the base loop is the I/O loop.
NewConnection ==
    LET c == nextConnId
        l == GetNextLoop
    IN  /\ listening
        /\ c \in Conns
        /\ nextConnId' = c + 1
        /\ next' = AdvanceNext
        /\ ledger' = ledger \cup {c}
        /\ loopOf' = [loopOf EXCEPT ![c] = l]
        /\ IF l = Base
           THEN ConnectEstablished(c) /\ UNCHANGED mail
           ELSE /\ state' = [state EXCEPT ![c] = "connecting"]
                /\ mail' = Sent(mail, l, "establish", c)
                /\ UNCHANGED <<index, contexts, ups, downs>>
        /\ UNCHANGED <<numSub, listening, held, peerVars>>

-----------------------------------------------------------------------------
(* The channel of a connection in its I/O loop.                             *)

Readable(c) == index[c] = "added" /\ (unread[c] \/ peerClosed[c])

\* handleRead with n > 0: onMessage looks the context up with operator[] and
\* gives the request to a worker, whose task holds the connection.
HandleMessage(c) ==
    /\ Readable(c)
    /\ unread[c]
    /\ unread' = [unread EXCEPT ![c] = FALSE]
    /\ contexts' = contexts \cup {c}
    /\ tasks' = [tasks EXCEPT ![c] = @ + 1]
    /\ UNCHANGED <<serverVars, ledger, state, index, mail, leaving, toSend, peerClosed,
                   ups, downs>>

\* handleRead with n = 0, handleClose and the closeCallback_: removeConnection
\* runs removeConnectionInLoop at once only in the base loop.
HandleClose(c) ==
    /\ Readable(c)
    /\ ~unread[c]
    /\ state' = [state EXCEPT ![c] = "disconnected"]
    /\ UpdateChannel(c, FALSE)
    /\ ConnectionCallback(c, "disconnected")
    /\ IF loopOf[c] = Base
       THEN RemoveConnectionInLoop(c, mail)
       ELSE mail' = Sent(mail, Base, "remove", c) /\ UNCHANGED ledger
    /\ UNCHANGED <<serverVars, held, peerVars>>

-----------------------------------------------------------------------------
(* The functors.                                                            *)

NextIs(l, op, c) == mail[l] # <<>> /\ Head(mail[l]) = [op |-> op, conn |-> c]

RunEstablish(l, c) ==
    /\ NextIs(l, "establish", c)
    /\ mail' = Rest(l)
    /\ ConnectEstablished(c)
    /\ UNCHANGED <<serverVars, ledger, held, peerVars>>

RunRemove(l, c) ==
    /\ NextIs(l, "remove", c)
    /\ RemoveConnectionInLoop(c, Rest(l))
    /\ UNCHANGED <<serverVars, state, index, contexts, held, peerVars, ups, downs>>

RunDestroy(l, c) ==
    /\ NextIs(l, "destroy", c)
    /\ mail' = Rest(l)
    /\ ConnectDestroyed(c)
    /\ UNCHANGED <<serverVars, ledger, held, peerVars>>

\* The response of a worker: send, and shutdown() when the request asked to
\* close; both do nothing unless the connection is connected.
RunRespond(l, c) ==
    /\ NextIs(l, "respond", c)
    /\ mail' = Rest(l)
    /\ \/ UNCHANGED state
       \/ /\ state[c] = "connected"
          /\ state' = [state EXCEPT ![c] = "disconnecting"]
    /\ UNCHANGED <<serverVars, ledger, index, contexts, held, peerVars, ups, downs>>

RunFunctor(l) == \E c \in Conns : \/ RunEstablish(l, c)
                                  \/ RunRemove(l, c)
                                  \/ RunDestroy(l, c)
                                  \/ RunRespond(l, c)

-----------------------------------------------------------------------------
(* Workers and peers.                                                       *)

\* A task queues its last functor in the connection's loop, which may run it
\* before the worker drops the shared_ptr the task had captured.
WorkerResponds(c) ==
    /\ tasks[c] > leaving[c]
    /\ leaving' = [leaving EXCEPT ![c] = @ + 1]
    /\ mail' = Sent(mail, loopOf[c], "respond", c)
    /\ UNCHANGED <<serverVars, ledger, state, index, contexts, tasks, peerVars,
                   ups, downs>>

WorkerReleases(c) ==
    /\ leaving[c] > 0
    /\ leaving' = [leaving EXCEPT ![c] = @ - 1]
    /\ tasks' = [tasks EXCEPT ![c] = @ - 1]
    /\ UNCHANGED <<serverVars, ledger, state, index, contexts, mail, peerVars,
                   ups, downs>>

PeerSend(c) ==
    /\ Accepted(c)
    /\ ~peerClosed[c]
    /\ toSend[c] > 0
    /\ toSend' = [toSend EXCEPT ![c] = @ - 1]
    /\ unread' = [unread EXCEPT ![c] = TRUE]
    /\ UNCHANGED <<serverVars, ledger, state, index, contexts, mail, held,
                   peerClosed, ups, downs>>

PeerClose(c) ==
    /\ Accepted(c)
    /\ ~peerClosed[c]
    /\ peerClosed' = [peerClosed EXCEPT ![c] = TRUE]
    /\ UNCHANGED <<serverVars, ledger, state, index, contexts, mail, held,
                   toSend, unread, ups, downs>>

LoopStep(l) == \/ RunFunctor(l)
               \/ \E c \in Conns : /\ loopOf[c] = l
                                   /\ HandleMessage(c) \/ HandleClose(c)

Next == \/ Start
        \/ NewConnection
        \/ \E l \in Loops : LoopStep(l)
        \/ \E c \in Conns : WorkerResponds(c) \/ WorkerReleases(c)
                              \/ PeerSend(c) \/ PeerClose(c)

\* The loops and the workers run; what the peers do is not assumed.
Spec == /\ Init
        /\ [][Next]_vars
        /\ \A l \in 0..MaxSubLoops : WF_vars(l \in Loops /\ LoopStep(l))
        /\ \A c \in Conns : WF_vars(WorkerResponds(c) \/ WorkerReleases(c))

-----------------------------------------------------------------------------
TypeOK ==
    /\ numSub \in 0..MaxSubLoops
    /\ listening \in BOOLEAN
    /\ nextConnId \in 1..(MaxConns + 1)
    /\ next \in Nat /\ (numSub > 0 => next < numSub)
    /\ ledger \subseteq Conns
    /\ loopOf \in [Conns -> 0..MaxSubLoops]
    /\ state \in [Conns -> {"none", "connecting", "connected", "disconnecting",
                            "disconnected"}]
    /\ index \in [Conns -> {"new", "added", "deleted"}]
    /\ contexts \subseteq Conns
    /\ mail \in [0..MaxSubLoops ->
                 Seq([op : {"establish", "remove", "destroy", "respond"},
                      conn : Conns])]
    /\ tasks \in [Conns -> Nat]
    /\ leaving \in [Conns -> Nat]
    /\ toSend \in [Conns -> 0..MaxMessages]
    /\ unread \in [Conns -> BOOLEAN]
    /\ peerClosed \in [Conns -> BOOLEAN]
    /\ ups \in [Conns -> Nat]
    /\ downs \in [Conns -> Nat]

IsUp(c) == ups[c] = 1 /\ downs[c] = 0

\* The poller and the ledger hold raw or strong pointers to a connection for
\* as long as they can be used: a channel the poller knows belongs to an
\* object somebody still owns (the two hops of TcpServer.cc:248-271), and a
\* connection that is up is owned by the ledger, not by a passing functor.
NoDanglingChannel ==
    \A c \in Conns : /\ index[c] # "new" => Referenced(c)
                     /\ IsUp(c) => c \in ledger

\* HttpServer keeps a parsing context exactly for the connections that are up:
\* operator[] in contextFor never brings one back after removeContext
\* (HttpServer.cc:87-106, 441-451).
ContextsMatchConnections ==
    \A c \in Conns : c \in contexts <=> IsUp(c)

\* The server implements ConnLifecycle.
Lifecycle == INSTANCE ConnLifecycle WITH freed <- {c \in Conns : Freed(c)}
RefinesConnLifecycle == Lifecycle!Spec

\* A connection whose peer has gone is given back in the end, whatever was in
\* flight for it: functors in two loops, requests, responses.
ClosedIsFreed == \A c \in Conns : peerClosed[c] ~> Freed(c)
=============================================================================
