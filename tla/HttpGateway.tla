----------------------------- MODULE HttpGateway -----------------------------
(***************************************************************************)
(* Requests and responses: src/http/HttpServer.cc on top of the connection *)
(* (TcpServer), its loop (EventLoop) and the business threads              *)
(* (TaskExecutor).                                                         *)
(*                                                                         *)
(* onMessage runs in the connection's loop.  It answers static and         *)
(* rejected requests at once; for the others it submits a task.  A worker  *)
(* never touches the connection: it queues functors, which send what they  *)
(* carry when the loop runs them.  The functors of a connection are run    *)
(* once and in order (EventLoop), tasks are taken once and in order        *)
(* (TaskExecutor), and what send() accepts arrives in order (TcpOutput).   *)
(*                                                                         *)
(* A functor, like onMessage itself, is a list of calls of send() and      *)
(* shutdown(), each of which does nothing unless the connection is still   *)
(* connected.  Every place that writes to a connection has its own list.   *)
(*                                                                         *)
(* A request reaches the server in two parts, its head and its body, which *)
(* TCP may deliver together or not.  The kinds of requests:                *)
(*   reply    answered inside onMessage: static files, 404                 *)
(*   refused  answered there by an error that always closes: 405, 413      *)
(*   bad      not parsable                                                 *)
(*   json     proxied, answered by one functor                             *)
(*   agent    SSE of the agent, relayed                                    *)
(*   chat     SSE of the model, or of the cache                            *)
(***************************************************************************)
EXTENDS Naturals, Sequences, FiniteSetsExt

CONSTANTS Conns,       \* the connections
          Pipelining,  \* those whose client does not wait for responses
          Workers,     \* the threads of the executor
          MaxRequests, \* bound: requests on a connection
          MaxTotal,    \* bound: requests on all of them
          MaxEvents    \* bound: events an upstream streams for a request, and
                       \* pieces into which a cached answer is cut

ASSUME GatewayAssumption == /\ Pipelining \subseteq Conns
                            /\ MaxRequests \in Nat
                            /\ MaxTotal \in Nat
                            /\ MaxEvents \in Nat

VARIABLES conn,     \* state_ of each connection
          sent,     \* the requests its client has begun to send
          parts,    \* how many parts of them it has sent
          inBuf,    \* how many parts are in inputBuffer_
          unread,   \* how many parts wait in the socket
          ctx,      \* state_ of its HttpContext
          handed,   \* how many requests were given to handleRequest
          mail,     \* the functors queued for it in its loop
          tasks,    \* the executor's queue
          work,     \* what each worker does
          wire      \* ghost: what each handler did on the connection

vars == <<conn, sent, parts, inBuf, unread, ctx, handed, mail, tasks, work, wire>>
clientVars == <<sent, parts>>
poolVars == <<tasks, work>>

Kinds == {"reply", "refused", "bad", "json", "agent", "chat"}
Idle == [at |-> "idle"]

Init == /\ conn = [c \in Conns |-> "connected"]
        /\ sent = [c \in Conns |-> <<>>]
        /\ parts = [c \in Conns |-> 0]
        /\ inBuf = [c \in Conns |-> 0]
        /\ unread = [c \in Conns |-> 0]
        /\ ctx = [c \in Conns |-> "requestLine"]
        /\ handed = [c \in Conns |-> 0]
        /\ mail = [c \in Conns |-> <<>>]
        /\ tasks = <<>>
        /\ work = [w \in Workers |-> Idle]
        /\ wire = [c \in Conns |-> <<>>]

-----------------------------------------------------------------------------
(* What is done on a connection.                                            *)

IfAsked(close) == IF close THEN <<"shutdown">> ELSE <<>>

\* sendResponse, and the functor of a proxied request.
SendResponse(close) == <<"reply">> \o IfAsked(close)
JsonReply(close) == <<"reply">> \o IfAsked(close)

\* The headers and a first status, queued by onMessage for both streams.
StreamHead == <<"head", "event">>

\* What the agent's stream ends with, an error event first when it failed.
Mut_AgentEnds(ok, close) ==
    (IF ok THEN <<>> ELSE <<"event">>) \o IfAsked(close) \o <<"end">>

AgentEnds(ok, close) ==
    (IF ok THEN <<>> ELSE <<"event">>) \o <<"end">> \o IfAsked(close)

\* The event behind the deltas of a model, "done" or "error", or the only one:
\* "message required", "invalid json".
Mut_ChatEnds(close) == <<"event", "end">>
ChatEnds(close) == <<"event", "end">> \o IfAsked(close)

\* An answer from the cache: a status, its pieces and "done" in one functor.
ChatFromCache(pieces, close) ==
    <<"event">> \o [i \in 1..pieces |-> "event"] \o <<"event", "end">> \o IfAsked(close)

\* Calls of send() and shutdown() that a connected connection carries out: none
\* behind the first shutdown().
Performed(ops) ==
    SubSeq(ops, 1, Min({Len(ops)} \cup {k \in 1..Len(ops) : ops[k] = "shutdown"}))

Closes(ops) == \E k \in 1..Len(ops) : ops[k] = "shutdown"

Frames(r, ops) == [req |-> r, ops |-> ops]

Perform(c, r, ops) ==
    IF conn[c] = "connected"
    THEN /\ wire' = [wire EXCEPT ![c] = Append(@, Frames(r, Performed(ops)))]
         /\ conn' = [conn EXCEPT ![c] =
                       IF Closes(ops) THEN "disconnecting" ELSE @]
    ELSE UNCHANGED <<wire, conn>>

Queued(boxes, c, r, ops) == [boxes EXCEPT ![c] = Append(@, Frames(r, ops))]

\* The response is complete behind its final chunk, or its only frame.
Last(op) == op \in {"end", "reply"}
Ends(ops) == \E k \in 1..Len(ops) : Last(ops[k])

Complete(c, r) == \E i \in 1..Len(wire[c]) : wire[c][i].req = r /\ Ends(wire[c][i].ops)

-----------------------------------------------------------------------------
(* Clients.                                                                 *)

\* A new request; a client that does not pipeline waits for the last response.
BeginRequest(c) ==
    /\ conn[c] = "connected"
    /\ Len(sent[c]) < MaxRequests
    /\ MapThenSumSet(LAMBDA d : Len(sent[d]), Conns) < MaxTotal
    /\ parts[c] = 2 * Len(sent[c])
    /\ \A r \in 1..Len(sent[c]) : /\ ~sent[c][r].close
                                  /\ sent[c][r].kind # "bad"
                                  /\ c \in Pipelining \/ Complete(c, r)
    /\ \E k \in Kinds, close \in BOOLEAN :
          sent' = [sent EXCEPT ![c] = Append(@, [kind |-> k, close |-> close])]
    /\ parts' = [parts EXCEPT ![c] = @ + 1]
    /\ unread' = [unread EXCEPT ![c] = @ + 1]
    /\ UNCHANGED <<conn, inBuf, ctx, handed, mail, poolVars, wire>>

EndRequest(c) ==
    /\ parts[c] < 2 * Len(sent[c])
    /\ parts' = [parts EXCEPT ![c] = @ + 1]
    /\ unread' = [unread EXCEPT ![c] = @ + 1]
    /\ UNCHANGED <<conn, sent, inBuf, ctx, handed, mail, poolVars, wire>>

\* The client is gone and handleClose has run: the context is removed.
ClientCloses(c) ==
    /\ conn[c] # "disconnected"
    /\ conn' = [conn EXCEPT ![c] = "disconnected"]
    /\ UNCHANGED <<clientVars, inBuf, unread, ctx, handed, mail, poolVars, wire>>

-----------------------------------------------------------------------------
(* The connection's loop.                                                   *)

\* handleRead has put everything that was unread in the buffer.
Readable(c) == conn[c] # "disconnected" /\ unread[c] > 0
Available(c) == inBuf[c] + unread[c]
NextRequest(c) == sent[c][handed[c] + 1]

\* parseRequest stops where the buffer ends ...
ReadPart(c) ==
    /\ Readable(c)
    /\ ctx[c] = "requestLine" /\ Available(c) = 1
    /\ NextRequest(c).kind # "bad"
    /\ ctx' = [ctx EXCEPT ![c] = "body"]
    /\ inBuf' = [inBuf EXCEPT ![c] = 0]
    /\ unread' = [unread EXCEPT ![c] = 0]
    /\ UNCHANGED <<conn, clientVars, handed, mail, poolVars, wire>>

\* ... or at the end of the first request; a second one stays in the buffer
\* until more bytes arrive.
Needed(c) == IF ctx[c] = "body" THEN 1 ELSE 2

\* handleRequest: answer at once, or queue the head of a stream and submit.
Mut_HandleRequest(c, r, kind, close) ==
    CASE kind = "reply" ->
           Perform(c, r, SendResponse(close)) /\ UNCHANGED <<mail, tasks>>
      [] kind = "refused" ->
           Perform(c, r, SendResponse(TRUE)) /\ UNCHANGED <<mail, tasks>>
      [] kind = "json" ->
           tasks' = Append(tasks, <<c, r>>) /\ UNCHANGED <<mail, wire, conn>>
      [] kind \in {"agent", "chat"} ->
           /\ tasks' = Append(tasks, <<c, r>>)
           /\ Perform(c, r, <<"event">>)
           /\ mail' = Queued(mail, c, r, <<"head">>)

HandleRequest(c, r, kind, close) ==
    CASE kind = "reply" ->
           Perform(c, r, SendResponse(close)) /\ UNCHANGED <<mail, tasks>>
      [] kind = "refused" ->
           Perform(c, r, SendResponse(TRUE)) /\ UNCHANGED <<mail, tasks>>
      [] kind = "json" ->
           tasks' = Append(tasks, <<c, r>>) /\ UNCHANGED <<mail, wire, conn>>
      [] kind \in {"agent", "chat"} ->
           /\ mail' = Queued(mail, c, r, StreamHead)
           /\ tasks' = Append(tasks, <<c, r>>)
           /\ UNCHANGED <<wire, conn>>

Leftover(c) == Available(c) - Needed(c)

\* onMessage resets the context after the request it hands over.
ReadRequest(c) ==
    /\ Readable(c)
    /\ Available(c) >= Needed(c)
    /\ NextRequest(c).kind # "bad"
    /\ inBuf' = [inBuf EXCEPT ![c] = Leftover(c)]
    /\ unread' = [unread EXCEPT ![c] = 0]
    /\ ctx' = [ctx EXCEPT ![c] = "requestLine"]
    /\ handed' = [handed EXCEPT ![c] = @ + 1]
    /\ HandleRequest(c, handed[c] + 1, NextRequest(c).kind, NextRequest(c).close)
    /\ UNCHANGED <<clientVars, work>>

\* A request line that does not parse stays in the buffer and is answered by
\* an error that closes the connection, each time the socket is readable.
ReadBad(c) ==
    /\ Readable(c)
    /\ NextRequest(c).kind = "bad"
    /\ inBuf' = [inBuf EXCEPT ![c] = Available(c)]
    /\ unread' = [unread EXCEPT ![c] = 0]
    /\ Perform(c, handed[c] + 1, SendResponse(TRUE))
    /\ UNCHANGED <<clientVars, ctx, handed, mail, poolVars>>

RunFunctor(c) ==
    LET f == Head(mail[c])
    IN  /\ mail[c] # <<>>
        /\ mail' = [mail EXCEPT ![c] = Tail(@)]
        /\ Perform(c, f.req, f.ops)
        /\ UNCHANGED <<clientVars, inBuf, unread, ctx, handed, poolVars>>

-----------------------------------------------------------------------------
(* The workers.                                                             *)

Take(w) ==
    /\ work[w] = Idle
    /\ tasks # <<>>
    /\ work' = [work EXCEPT ![w] = [at |-> "upstream", conn |-> Head(tasks)[1],
                                    req |-> Head(tasks)[2], events |-> 0]]
    /\ tasks' = Tail(tasks)
    /\ UNCHANGED <<conn, clientVars, inBuf, unread, ctx, handed, mail, wire>>

Served(w) == sent[work[w].conn][work[w].req]

\* Bytes of the agent; a chat's status on a miss, or a delta of the model.
Relay(w) ==
    /\ work[w] # Idle
    /\ Served(w).kind \in {"agent", "chat"}
    /\ work[w].events < MaxEvents
    /\ work' = [work EXCEPT ![w].events = @ + 1]
    /\ mail' = Queued(mail, work[w].conn, work[w].req, <<"event">>)
    /\ UNCHANGED <<conn, clientVars, inBuf, unread, ctx, handed, tasks, wire>>

\* However the upstream ended; the cache is asked before the model.
Endings(w) ==
    CASE Served(w).kind = "json"  -> {JsonReply(Served(w).close)}
      [] Served(w).kind = "agent" -> {AgentEnds(ok, Served(w).close) : ok \in BOOLEAN}
      [] Served(w).kind = "chat"  ->
           {ChatEnds(Served(w).close)} \cup
           (IF work[w].events = 0
            THEN {ChatFromCache(n, Served(w).close) : n \in 0..MaxEvents} ELSE {})

\* Exactly one final functor.
Mut_FinishOnlyOpen(w) ==
    /\ work[w] # Idle
    /\ work' = [work EXCEPT ![w] = Idle]
    /\ IF work[w].events > 0 \/ Served(w).kind = "json"
       THEN \E ops \in Endings(w) :
                mail' = Queued(mail, work[w].conn, work[w].req, ops)
       ELSE UNCHANGED mail
    /\ UNCHANGED <<conn, clientVars, inBuf, unread, ctx, handed, tasks, wire>>

Finish(w) ==
    /\ work[w] # Idle
    /\ work' = [work EXCEPT ![w] = Idle]
    /\ \E ops \in Endings(w) : mail' = Queued(mail, work[w].conn, work[w].req, ops)
    /\ UNCHANGED <<conn, clientVars, inBuf, unread, ctx, handed, tasks, wire>>

-----------------------------------------------------------------------------
LoopStep(c) == ReadPart(c) \/ ReadRequest(c) \/ ReadBad(c) \/ RunFunctor(c)

Next == \/ \E c \in Conns : \/ BeginRequest(c) \/ EndRequest(c) \/ ClientCloses(c)
                            \/ LoopStep(c)
        \/ \E w \in Workers : Take(w) \/ Relay(w) \/ Finish(w)

\* The loop runs its functors and serves its channels in every iteration; a
\* client that began a request ends it; and an upstream call ends: the agent's
\* by its timeouts (AgentClient.cc:42-43), the model's by assumption.
Spec == /\ Init
        /\ [][Next]_vars
        /\ \A c \in Conns : /\ WF_vars(EndRequest(c))
                            /\ WF_vars(ReadPart(c) \/ ReadRequest(c) \/ ReadBad(c))
                            /\ WF_vars(RunFunctor(c))
        /\ \A w \in Workers : WF_vars(Take(w)) /\ WF_vars(Finish(w))

-----------------------------------------------------------------------------
Requests == 1..MaxRequests
Ops == {"head", "event", "end", "reply", "shutdown"}
Handled == [req : Requests, ops : Seq(Ops)]

TypeOK ==
    /\ conn \in [Conns -> {"connected", "disconnecting", "disconnected"}]
    /\ sent \in [Conns -> Seq([kind : Kinds, close : BOOLEAN])]
    /\ parts \in [Conns -> 0..(2 * MaxRequests)]
    /\ inBuf \in [Conns -> 0..(2 * MaxRequests)]
    /\ unread \in [Conns -> 0..(2 * MaxRequests)]
    /\ ctx \in [Conns -> {"requestLine", "body"}]
    /\ handed \in [Conns -> 0..MaxRequests]
    /\ mail \in [Conns -> Seq(Handled)]
    /\ tasks \in Seq(Conns \X Requests)
    /\ work \in [Workers -> {Idle} \cup [at : {"upstream"}, conn : Conns,
                                         req : Requests, events : 0..MaxEvents]]
    /\ wire \in [Conns -> Seq(Handled)]

\* What one handler does: a head or a reply comes first, nothing but shutdown()
\* follows a final frame, and nothing at all follows shutdown().
Opens(op) == op \in {"head", "reply"}
Starts(ops) == Opens(ops[1])

InItself(ops) ==
    /\ ops # <<>>
    /\ \A k \in 2..Len(ops) :
          /\ ~Opens(ops[k])
          /\ Last(ops[k - 1]) => ops[k] = "shutdown"
          /\ ops[k - 1] # "shutdown"

\* The handlers before the j-th that served the same request.
Before(f, j) == {i \in 1..(j - 1) : f[i].req = f[j].req}

\* However the loop and the workers interleave, the frames of a response are
\* one reply, or the head, then events, then one end (HttpServer.cc:186-225,
\* 259-417, and the comment on chunks, 14-16).
WellFormed(f) ==
    \A j \in 1..Len(f) :
        /\ InItself(f[j].ops)
        /\ Before(f, j) = {} <=> Starts(f[j].ops)
        /\ \A i \in Before(f, j) : ~Ends(f[i].ops)

\* A client that waits for its responses reads them one after the other: no
\* frame of a request before the response to the previous one is complete.
OneByOne(f) ==
    \A i \in 2..Len(f) : \/ f[i].req = f[i - 1].req
                         \/ f[i].req = f[i - 1].req + 1 /\ Ends(f[i - 1].ops)

\* What a client reads is whole responses, to each request its own, and in
\* order unless the client pipelines.
ResponsesInOrder ==
    \A c \in Conns : /\ WellFormed(wire[c])
                     /\ c \in Pipelining \/ OneByOne(wire[c])

\* The client asked for the connection to be closed, or the server insists.
IsTheLast(request) == request.close \/ request.kind \in {"refused", "bad"}

\* Somebody still has something to send on the connection.
Expects(c) == \/ mail[c] # <<>>
              \/ \E i \in 1..Len(tasks) : tasks[i][1] = c
              \/ \E w \in Workers : work[w] # Idle /\ work[w].conn = c

\* The server ends a connection with the response to the request that asks for
\* it, and not before it or without it, whichever path wrote that response; and
\* to a client that waits it then owes nothing: every request is answered to the
\* end, and no functor or worker is left whose frames would be dropped
\* (HttpServer.cc:222, 254, 306, 361, 390, 398, 411, 425).
ClosesWhenAnswered ==
    \A c \in Conns :
        /\ conn[c] = "connected" =>
              \A r \in 1..Len(sent[c]) : IsTheLast(sent[c][r]) => ~Complete(c, r)
        /\ conn[c] = "disconnecting" =>
              /\ \E r \in 1..Len(sent[c]) : IsTheLast(sent[c][r]) /\ Complete(c, r)
              /\ c \notin Pipelining => /\ \A r \in 1..Len(sent[c]) : Complete(c, r)
                                        /\ ~Expects(c)

\* Every request of a client that does not pipeline is answered to the end,
\* in whatever parts it arrived, unless the connection ends first.
SentIsAnswered ==
    \A c \in Conns \ Pipelining, r \in Requests :
        (Len(sent[c]) >= r) ~> (Complete(c, r) \/ conn[c] # "connected")
=============================================================================
