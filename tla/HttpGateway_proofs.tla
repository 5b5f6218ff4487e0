-------------------------- MODULE HttpGateway_proofs --------------------------
(***************************************************************************)
(* Responses are whole and in order, and the server closes a connection    *)
(* with the last of them and then owes nothing, for any number of          *)
(* connections, workers, requests and events.                              *)
(*                                                                         *)
(* What the handlers of a connected client have sent, followed by what     *)
(* they will send, makes one line of handlers.  The line is always well    *)
(* formed, also when what is queued will be dropped because the connection *)
(* ends first, and the handlers in it that close are the ones that end the *)
(* response to a request that asks for it.  Who may extend the line of a   *)
(* request is decided by who holds it: the parser, the executor's queue or *)
(* one worker, and never two of them.                                      *)
(***************************************************************************)
EXTENDS HttpGateway, SequenceTheorems, TLAPS

Asked == [kind : Kinds, close : BOOLEAN]
Jobs == [at : {"upstream"}, conn : Conns, req : Requests, events : 0..MaxEvents]

-----------------------------------------------------------------------------
(* The inductive invariant                                                  *)

Line(c) == wire[c] \o mail[c]

Has(f, r) == \E i \in 1..Len(f) : f[i].req = r
Done(f, r) == \E i \in 1..Len(f) : f[i].req = r /\ Ends(f[i].ops)
Ascending(f) == \A i, j \in 1..Len(f) : i < j => f[i].req <= f[j].req

\* The handlers that close, of a line that serves the requests s: those that
\* end the response to a request after which the connection is to be closed.
Marked(f, s) ==
    \A i \in 1..Len(f) :
        Closes(f[i].ops) <=> Ends(f[i].ops) /\ IsTheLast(s[f[i].req])
NoneCloses(f) == \A i \in 1..Len(f) : ~Closes(f[i].ops)

Queues(c, r) == \E i \in 1..Len(tasks) : tasks[i] = <<c, r>>
Serves(w, c, r) == work[w] # Idle /\ work[w].conn = c /\ work[w].req = r
Pending(c, r) == Queues(c, r) \/ \E w \in Workers : Serves(w, c, r)

\* The parts of the requests are with the client, in the socket, in the buffer,
\* or handed over.
PartsAreKept ==
    \A c \in Conns :
        /\ parts[c] = 2 * handed[c] + (IF ctx[c] = "body" THEN 1 ELSE 0)
                        + inBuf[c] + unread[c]
        /\ parts[c] <= 2 * Len(sent[c])
        /\ 2 * Len(sent[c]) <= parts[c] + 1
        /\ Len(sent[c]) <= MaxRequests

\* A request is in the queue or with a worker, once.
HeldOnce ==
    /\ \A i, j \in 1..Len(tasks) : tasks[i] = tasks[j] => i = j
    /\ \A w \in Workers, c \in Conns, r \in Requests :
          Serves(w, c, r) => /\ ~Queues(c, r)
                             /\ \A v \in Workers : Serves(v, c, r) => v = w

Proxied == {"json", "agent", "chat"}

PendingIsHanded ==
    \A c \in Conns, r \in Requests :
        Pending(c, r) => r <= handed[c] /\ sent[c][r].kind \in Proxied

\* The response to a request that is held: a stream has begun, nothing has ended.
Owed(c, r) == /\ Has(Line(c), r) <=> sent[c][r].kind # "json"
              /\ ~Done(Line(c), r)

LineOK(c) ==
    /\ WellFormed(Line(c))
    /\ Marked(Line(c), sent[c])
    /\ NoneCloses(wire[c])
    /\ \A r \in Requests : Has(Line(c), r) => r <= handed[c]
    /\ \A r \in Requests : Pending(c, r) => Owed(c, r)
    /\ c \notin Pipelining => OneByOne(Line(c)) /\ Ascending(Line(c))

LinesHold == \A c \in Conns : conn[c] = "connected" => LineOK(c)

\* A client that does not pipeline has at most one request that is open.
ClientsWait ==
    \A c \in Conns \ Pipelining : \A r \in 1..(Len(sent[c]) - 1) : Complete(c, r)

\* Behind shutdown() a client that waits gets nothing and is owed nothing, and
\* no further request of its is handed over.
Answered(c) ==
    conn[c] = "disconnecting" =>
        /\ \E r \in 1..Len(sent[c]) : IsTheLast(sent[c][r]) /\ Complete(c, r)
        /\ c \notin Pipelining =>
              /\ \A r \in 1..Len(sent[c]) :
                    /\ Complete(c, r)
                    /\ r <= handed[c] \/ sent[c][r].kind = "bad"
              /\ mail[c] = <<>>
              /\ \A r \in Requests : ~Pending(c, r)

AllAnswered == \A c \in Conns : Answered(c)

IInv == /\ TypeOK
        /\ PartsAreKept
        /\ HeldOnce
        /\ PendingIsHanded
        /\ LinesHold
        /\ ClientsWait
        /\ ResponsesInOrder
        /\ AllAnswered

-----------------------------------------------------------------------------
(* What one handler does                                                    *)

LEMMA FramesType ==
    ASSUME NEW r \in Requests, NEW ops \in Seq(Ops)
    PROVE  /\ Frames(r, ops) \in Handled
           /\ Frames(r, ops).req = r /\ Frames(r, ops).ops = ops
<1>1. Frames(r, ops) = [req |-> r, ops |-> ops]
  BY DEF Frames
<1> QED BY <1>1 DEF Handled

\* A list of one call, and of two.
LEMMA OneCall ==
    ASSUME NEW S, NEW x \in S
    PROVE  \E s \in Seq(S) : s = <<x>> /\ Len(s) = 1 /\ s[1] = x /\ s # <<>>
<1>1. <<x>> \in Seq(S) /\ Len(<<x>>) = 1 /\ <<x>>[1] = x
  OBVIOUS
<1>2. <<x>> # <<>>
  BY <1>1, EmptySeq
<1> QED BY <1>1, <1>2

LEMMA TwoCalls ==
    ASSUME NEW S, NEW x \in S, NEW y \in S
    PROVE  \E s \in Seq(S) : /\ s = <<x, y>> /\ Len(s) = 2 /\ s[1] = x /\ s[2] = y
                             /\ s # <<>> /\ s = <<x>> \o <<y>>
<1>1. PICK a \in Seq(S), b \in Seq(S) :
        /\ a = <<x>> /\ Len(a) = 1 /\ a[1] = x
        /\ b = <<y>> /\ Len(b) = 1 /\ b[1] = y
  BY OneCall
<1>2. PICK s \in Seq(S) : s = <<x, y>> /\ Len(s) = 2 /\ s[1] = x /\ s[2] = y /\ s # <<>>
  <2>1. <<x, y>> \in Seq(S) /\ Len(<<x, y>>) = 2 /\ <<x, y>>[1] = x /\ <<x, y>>[2] = y
    OBVIOUS
  <2>2. <<x, y>> # <<>>
    BY <2>1, EmptySeq
  <2> QED BY <2>1, <2>2
<1>3. /\ a \o b \in Seq(S) /\ Len(a \o b) = Len(a) + Len(b)
      /\ \A k \in 1..(Len(a) + Len(b)) :
            (a \o b)[k] = IF k <= Len(a) THEN a[k] ELSE b[k - Len(a)]
  BY ConcatProperties
<1>4. PICK c \in Seq(S) : c = a \o b
  BY <1>3
<1>5. Len(c) = Len(s) /\ \A k \in 1..Len(c) : c[k] = s[k]
  <2>1. Len(c) = 2 /\ c[1] = x /\ c[2] = y
    BY <1>1, <1>3, <1>4
  <2>2. \A k \in 1..2 : k = 1 \/ k = 2
    OBVIOUS
  <2> QED BY <1>2, <2>1, <2>2
<1>6. c = s
  BY <1>5, SeqEqual
<1> QED BY <1>1, <1>2, <1>4, <1>6

LEMMA Calls == /\ "head" \in Ops /\ "event" \in Ops /\ "end" \in Ops
               /\ "reply" \in Ops /\ "shutdown" \in Ops
BY DEF Ops

\* Nothing of a handler is lost on a connection that is connected.
LEMMA AllIsPerformed ==
    ASSUME NEW ops \in Seq(Ops), InItself(ops)
    PROVE  Performed(ops) = ops
<1>1. PICK n \in Nat \ {0} : n = Len(ops)
  BY LenProperties, EmptySeq DEF InItself
<1>2. ASSUME NEW k \in 1..Len(ops), ops[k] = "shutdown" PROVE k = n
  <2> SUFFICES ASSUME k # n PROVE FALSE
    OBVIOUS
  <2>1. k + 1 \in 2..Len(ops) /\ (k + 1) - 1 = k
    BY <1>1
  <2> QED BY <1>2, <2>1 DEF InItself
<1>3. {Len(ops)} \cup {k \in 1..Len(ops) : ops[k] = "shutdown"} = {n}
  BY <1>1, <1>2
<1>4. Min({n}) = n
  BY DEF Min
<1>5. SubSeq(ops, 1, Len(ops)) = ops
  BY SubSeqFull
<1> QED BY <1>1, <1>3, <1>4, <1>5 DEF Performed

\* Events, and behind them the end of the stream.
LEMMA EventsAndEnd ==
    ASSUME NEW b \in Seq({"event"})
    PROVE  /\ b \o <<"end">> \in Seq(Ops)
           /\ InItself(b \o <<"end">>) /\ ~Starts(b \o <<"end">>)
           /\ ~Closes(b \o <<"end">>) /\ Ends(b \o <<"end">>)
<1>1. PICK e \in Seq(Ops) : e = <<"end">> /\ Len(e) = 1 /\ e[1] = "end"
  BY Calls, OneCall
<1>2. b \in Seq(Ops) /\ Len(b) \in Nat /\ \A k \in 1..Len(b) : b[k] = "event"
  <2>1. \A k \in 1..Len(b) : b[k] \in {"event"}
    BY ElementOfSeq
  <2> QED BY <2>1, LenProperties DEF Ops
<1>3. /\ b \o e \in Seq(Ops) /\ Len(b \o e) = Len(b) + Len(e)
      /\ \A k \in 1..(Len(b) + Len(e)) :
            (b \o e)[k] = IF k <= Len(b) THEN b[k] ELSE e[k - Len(b)]
  BY <1>2, ConcatProperties
<1>4. PICK o \in Seq(Ops) : o = b \o e
  BY <1>3
<1>5. PICK n \in Nat : n = Len(b)
  BY <1>2
<1>6. /\ Len(o) = n + 1 /\ o[n + 1] = "end"
      /\ \A k \in 1..n : o[k] = "event"
  BY <1>1, <1>2, <1>3, <1>4, <1>5
<1>7. InItself(o) /\ ~Starts(o) /\ ~Closes(o) /\ Ends(o)
  <2>1. o # <<>>
    BY <1>6, EmptySeq
  <2>2. \A k \in 1..(n + 1) : o[k] \in {"event", "end"} /\ (k # n + 1 => o[k] = "event")
    BY <1>6
  <2>3. InItself(o)
    BY <1>6, <2>1, <2>2 DEF InItself, Opens, Last
  <2>4. 1 \in 1..(n + 1) /\ n + 1 \in 1..(n + 1)
    OBVIOUS
  <2> QED BY <1>6, <2>2, <2>3, <2>4 DEF Starts, Opens, Closes, Ends, Last
<1> QED BY <1>1, <1>4, <1>7

\* A handler that ends a response may end the connection too.
LEMMA ThenShutdown ==
    ASSUME NEW b \in Seq(Ops), InItself(b), Ends(b), ~Closes(b), NEW close \in BOOLEAN
    PROVE  /\ b \o IfAsked(close) \in Seq(Ops)
           /\ InItself(b \o IfAsked(close))
           /\ Starts(b \o IfAsked(close)) <=> Starts(b)
           /\ Ends(b \o IfAsked(close))
           /\ Closes(b \o IfAsked(close)) <=> close
<1>1. CASE ~close
  <2>1. b \o IfAsked(close) = b
    BY <1>1, ConcatEmptySeq DEF IfAsked
  <2> QED BY <1>1, <2>1
<1>2. CASE close
  <2>1. PICK e \in Seq(Ops) : e = <<"shutdown">> /\ Len(e) = 1 /\ e[1] = "shutdown"
    BY Calls, OneCall
  <2>2. IfAsked(close) = e
    BY <1>2, <2>1 DEF IfAsked
  <2>3. /\ b \o e \in Seq(Ops) /\ Len(b \o e) = Len(b) + Len(e)
        /\ \A k \in 1..(Len(b) + Len(e)) :
              (b \o e)[k] = IF k <= Len(b) THEN b[k] ELSE e[k - Len(b)]
    BY ConcatProperties
  <2>4. PICK o \in Seq(Ops) : o = b \o e
    BY <2>3
  <2>5. PICK n \in Nat \ {0} : n = Len(b)
    BY LenProperties, EmptySeq DEF InItself
  <2>6. /\ Len(o) = n + 1 /\ o[n + 1] = "shutdown" /\ o # <<>>
        /\ \A k \in 1..n : o[k] = b[k]
    BY <2>1, <2>3, <2>4, <2>5, EmptySeq
  <2>7. \A k \in 1..n : b[k] # "shutdown"
    BY <2>5 DEF Closes
  <2>8. PICK m \in 1..n : Last(b[m])
    BY <2>5 DEF Ends
  <2>9. InItself(o)
    <3> SUFFICES ASSUME NEW k \in 2..(n + 1)
                 PROVE  /\ ~Opens(o[k])
                        /\ Last(o[k - 1]) => o[k] = "shutdown"
                        /\ o[k - 1] # "shutdown"
      BY <2>6 DEF InItself
    <3>1. k - 1 \in 1..n /\ o[k - 1] = b[k - 1] /\ o[k - 1] # "shutdown"
      BY <2>6, <2>7
    <3>2. CASE k = n + 1
      BY <2>6, <3>1, <3>2 DEF Opens
    <3>3. CASE k # n + 1
      <4>1. k \in 2..n /\ k \in 1..n /\ o[k] = b[k]
        BY <2>6, <3>3
      <4> QED BY <2>5, <3>1, <4>1 DEF InItself
    <3> QED BY <3>2, <3>3
  <2>10. o[1] = b[1] /\ o[m] = b[m] /\ m \in 1..Len(o) /\ n + 1 \in 1..Len(o)
    BY <2>6
  <2> QED BY <1>2, <2>2, <2>4, <2>6, <2>8, <2>9, <2>10 DEF Starts, Ends, Closes
<1> QED BY <1>1, <1>2

\* One event, and the head of a stream with its status, neither end nor close.
LEMMA EventShape ==
    /\ <<"event">> \in Seq(Ops) /\ InItself(<<"event">>) /\ ~Starts(<<"event">>)
    /\ ~Ends(<<"event">>) /\ ~Closes(<<"event">>)
<1>1. PICK o \in Seq(Ops) : o = <<"event">> /\ Len(o) = 1 /\ o[1] = "event" /\ o # <<>>
  BY Calls, OneCall
<1>2. InItself(o) /\ ~Starts(o) /\ ~Ends(o) /\ ~Closes(o)
  BY <1>1 DEF InItself, Starts, Opens, Ends, Last, Closes
<1> QED BY <1>1, <1>2

LEMMA HeadShape ==
    /\ StreamHead \in Seq(Ops) /\ InItself(StreamHead) /\ Starts(StreamHead)
    /\ ~Ends(StreamHead) /\ ~Closes(StreamHead)
<1>1. PICK o \in Seq(Ops) : /\ o = StreamHead /\ Len(o) = 2 /\ o[1] = "head"
                            /\ o[2] = "event" /\ o # <<>>
  BY Calls, TwoCalls DEF StreamHead
<1>2. InItself(o) /\ Starts(o) /\ ~Ends(o) /\ ~Closes(o)
  BY <1>1 DEF InItself, Starts, Opens, Ends, Last, Closes
<1> QED BY <1>1, <1>2

\* A response in one frame.
LEMMA ReplyShape ==
    ASSUME NEW ops, NEW close \in BOOLEAN, ops \in {SendResponse(close), JsonReply(close)}
    PROVE  /\ ops \in Seq(Ops) /\ InItself(ops) /\ Starts(ops)
           /\ Ends(ops) /\ (Closes(ops) <=> close)
<1>1. PICK b \in Seq(Ops) : b = <<"reply">> /\ Len(b) = 1 /\ b[1] = "reply" /\ b # <<>>
  BY Calls, OneCall
<1>2. InItself(b) /\ Starts(b) /\ Ends(b) /\ ~Closes(b)
  BY <1>1 DEF InItself, Starts, Opens, Ends, Last, Closes
<1>3. ops = b \o IfAsked(close)
  BY <1>1 DEF SendResponse, JsonReply
<1> QED BY <1>2, <1>3, ThenShutdown

\* The end of a stream, however the upstream ended or the cache answered.
LEMMA StreamEndShape ==
    ASSUME NEW ops, NEW close \in BOOLEAN, NEW ok \in BOOLEAN, NEW n \in Nat,
           ops \in {AgentEnds(ok, close), ChatEnds(close), ChatFromCache(n, close)}
    PROVE  /\ ops \in Seq(Ops) /\ InItself(ops) /\ ~Starts(ops)
           /\ Ends(ops) /\ (Closes(ops) <=> close)
<1>1. PICK v \in Seq({"event"}), e \in Seq(Ops) : v = <<"event">> /\ e = <<"end">>
  BY Calls, OneCall
<1>2. v \o e = <<"event", "end">> /\ v \in Seq(Ops)
  BY <1>1, Calls, OneCall, TwoCalls
<1>3. PICK b \in Seq({"event"}) : ops = (b \o e) \o IfAsked(close)
  <2>1. CASE ops = AgentEnds(ok, close)
    <3>1. PICK b \in Seq({"event"}) : b = IF ok THEN <<>> ELSE <<"event">>
      BY <1>1, EmptySeq
    <3> QED BY <1>1, <2>1, <3>1 DEF AgentEnds
  <2>2. CASE ops = ChatEnds(close)
    BY <1>1, <1>2, <2>2 DEF ChatEnds
  <2>3. CASE ops = ChatFromCache(n, close)
    <3>1. PICK m \in Seq({"event"}) : m = [k \in 1..n |-> "event"]
      <4>1. [k \in 1..n |-> "event"] \in [1..n -> {"event"}]
        OBVIOUS
      <4>2. [1..n -> {"event"}] \subseteq Seq({"event"})
        BY SeqDef
      <4> QED BY <4>1, <4>2
    <3>2. v \o m \in Seq({"event"}) /\ v \o m \in Seq(Ops)
      <4>1. m \in Seq(Ops)
        BY Calls, SeqMonotonic
      <4> QED BY <1>2, <4>1, ConcatProperties
    <3>3. PICK u \in Seq({"event"}) : u = v \o m /\ u \in Seq(Ops)
      BY <3>2
    <3>4. ops = (u \o (v \o e)) \o IfAsked(close)
      BY <1>1, <1>2, <2>3, <3>1, <3>3 DEF ChatFromCache
    <3>5. u \o (v \o e) = (u \o v) \o e
      <4>1. u \in Seq(Ops) /\ v \in Seq(Ops) /\ e \in Seq(Ops)
        BY <1>1, <1>2, <3>3
      <4> QED BY <4>1, ConcatAssociative, SMTT(30)
    <3>6. u \o v \in Seq({"event"})
      BY ConcatProperties
    <3> QED BY <3>4, <3>5, <3>6
  <2> QED BY <2>1, <2>2, <2>3
<1>4. /\ b \o e \in Seq(Ops) /\ InItself(b \o e) /\ ~Starts(b \o e)
      /\ ~Closes(b \o e) /\ Ends(b \o e)
  BY <1>1, EventsAndEnd
<1>5. PICK k \in Seq(Ops) : k = b \o e
  BY <1>4
<1>6. ops = k \o IfAsked(close) /\ InItself(k) /\ ~Starts(k) /\ ~Closes(k) /\ Ends(k)
  BY <1>1, <1>3, <1>4, <1>5
<1> QED BY <1>6, ThenShutdown

-----------------------------------------------------------------------------
(* Lines of handlers                                                        *)

\* The j-th handler of f has its place there.
Fits(f, j) ==
    /\ InItself(f[j].ops)
    /\ Before(f, j) = {} <=> Starts(f[j].ops)
    /\ \A i \in Before(f, j) : ~Ends(f[i].ops)

LEMMA AllFit == \A f : WellFormed(f) <=> \A j \in 1..Len(f) : Fits(f, j)
BY DEF WellFormed, Fits

\* A frame queued behind the queue is behind the line.
LEMMA BehindTheLine ==
    ASSUME NEW f \in Seq(Handled), NEW g \in Seq(Handled), NEW x \in Handled
    PROVE  f \o Append(g, x) = Append(f \o g, x)
<1>1. <<x>> \in Seq(Handled) /\ f \o g \in Seq(Handled)
  BY ConcatProperties
<1>2. Append(f \o g, x) = (f \o g) \o <<x>> /\ Append(g, x) = g \o <<x>>
  BY <1>1, AppendIsConcat
<1> QED BY <1>1, <1>2, ConcatAssociative

\* A frame that the loop sends moves from the queue to the wire.
LEMMA AcrossTheLine ==
    ASSUME NEW f \in Seq(Handled), NEW g \in Seq(Handled), g # <<>>
    PROVE  /\ Head(g) \in Handled
           /\ Tail(g) \in Seq(Handled)
           /\ Append(f, Head(g)) \o Tail(g) = f \o g
<1>1. PICK x \in Handled, t \in Seq(Handled) : x = Head(g) /\ t = Tail(g)
  BY HeadTailProperties
<1>2. /\ Len(t) = Len(g) - 1 /\ x = g[1] /\ Len(g) \in Nat
      /\ \A i \in 1..Len(t) : t[i] = g[i + 1]
  BY <1>1, HeadTailProperties, LenProperties
<1>3. <<x>> \in Seq(Handled) /\ Len(<<x>>) = 1 /\ <<x>>[1] = x
  OBVIOUS
<1>4. PICK y \in Seq(Handled) : y = <<x>>
  BY <1>3
<1>5. /\ y \o t \in Seq(Handled) /\ Len(y \o t) = Len(y) + Len(t)
      /\ \A i \in 1..(Len(y) + Len(t)) :
            (y \o t)[i] = IF i <= Len(y) THEN y[i] ELSE t[i - Len(y)]
  BY ConcatProperties
<1>6. PICK k \in Seq(Handled) : k = y \o t
  BY <1>5
<1>7. Len(k) = Len(g) /\ \A i \in 1..Len(g) : k[i] = g[i]
  BY <1>2, <1>3, <1>4, <1>5, <1>6
<1>8. y \o t = g
  BY <1>6, <1>7, SeqEqual
<1>9. Append(f, x) = f \o y
  BY <1>4, AppendIsConcat
<1>10. (f \o y) \o t = f \o (y \o t)
  BY ConcatAssociative, SMTT(40)
<1> QED BY <1>1, <1>8, <1>9, <1>10

\* What has been sent is the beginning of the line.
LEMMA WireIsPrefix ==
    ASSUME NEW f \in Seq(Handled), NEW g \in Seq(Handled)
    PROVE  /\ WellFormed(f \o g) => WellFormed(f)
           /\ OneByOne(f \o g) => OneByOne(f)
<1>1. /\ f \o g \in Seq(Handled) /\ Len(f \o g) = Len(f) + Len(g)
      /\ \A i \in 1..(Len(f) + Len(g)) :
            (f \o g)[i] = IF i <= Len(f) THEN f[i] ELSE g[i - Len(f)]
  BY ConcatProperties
<1>2. PICK k \in Seq(Handled) : k = f \o g
  BY <1>1
<1>3. Len(f) \in Nat /\ Len(g) \in Nat /\ Len(k) = Len(f) + Len(g)
  BY <1>1, <1>2, LenProperties
<1>4. \A i \in 1..Len(f) : k[i] = f[i]
  BY <1>1, <1>2, <1>3
<1>5. ASSUME NEW j \in 1..Len(f) PROVE Before(f, j) = Before(k, j)
  <2>1. \A i \in 1..(j - 1) : i \in 1..Len(f)
    BY <1>3
  <2>2. f[j] = k[j] /\ \A i \in 1..(j - 1) : f[i] = k[i]
    BY <1>4, <2>1
  <2> QED BY <2>2 DEF Before
<1>6. ASSUME WellFormed(k) PROVE WellFormed(f)
  <2> SUFFICES ASSUME NEW j \in 1..Len(f) PROVE Fits(f, j)
    BY AllFit
  <2>1. j \in 1..Len(k)
    BY <1>3
  <2>2. \A i \in Before(f, j) : i \in 1..Len(f)
    BY <1>3 DEF Before
  <2>3. Fits(k, j)
    BY <1>6, <2>1, AllFit
  <2> QED BY <1>4, <1>5, <2>2, <2>3 DEF Fits
<1>7. ASSUME OneByOne(k) PROVE OneByOne(f)
  <2> SUFFICES ASSUME NEW i \in 2..Len(f)
               PROVE  \/ f[i].req = f[i - 1].req
                      \/ f[i].req = f[i - 1].req + 1 /\ Ends(f[i - 1].ops)
    BY DEF OneByOne
  <2>1. /\ i \in 2..Len(k) /\ i \in 1..Len(f) /\ i - 1 \in 1..Len(f)
    BY <1>3
  <2>2. k[i] = f[i] /\ k[i - 1] = f[i - 1]
    BY <1>4, <2>1
  <2>3. \/ k[i].req = k[i - 1].req
        \/ k[i].req = k[i - 1].req + 1 /\ Ends(k[i - 1].ops)
    BY <1>7, <2>1 DEF OneByOne
  <2> QED BY <2>2, <2>3
<1> QED BY <1>2, <1>6, <1>7

\* The first frame of a response may go in anywhere, ...
LEMMA FirstFrameFits ==
    ASSUME NEW f \in Seq(Handled), NEW g \in Seq(Handled), NEW x \in Handled,
           WellFormed(f \o g), ~Has(f \o g, x.req), InItself(x.ops), Starts(x.ops)
    PROVE  WellFormed(Append(f, x) \o g)
<1>1. /\ f \o g \in Seq(Handled) /\ Len(f \o g) = Len(f) + Len(g)
      /\ \A i \in 1..(Len(f) + Len(g)) :
            (f \o g)[i] = IF i <= Len(f) THEN f[i] ELSE g[i - Len(f)]
  BY ConcatProperties
<1>2. PICK k \in Seq(Handled) : k = f \o g
  BY <1>1
<1>3. PICK e \in Seq(Handled) : e = Append(f, x)
  BY AppendProperties
<1>4. /\ Len(e) = Len(f) + 1 /\ e[Len(f) + 1] = x
      /\ \A i \in 1..Len(f) : e[i] = f[i]
  BY <1>3, AppendProperties
<1>5. /\ e \o g \in Seq(Handled) /\ Len(e \o g) = Len(e) + Len(g)
      /\ \A i \in 1..(Len(e) + Len(g)) :
            (e \o g)[i] = IF i <= Len(e) THEN e[i] ELSE g[i - Len(e)]
  BY ConcatProperties
<1>6. PICK h \in Seq(Handled) : h = e \o g
  BY <1>5
<1>7. PICK n \in Nat, m \in Nat : n = Len(f) /\ m = Len(g)
  BY LenProperties
<1>8. /\ Len(k) = n + m /\ Len(h) = n + m + 1
      /\ \A i \in 1..n : h[i] = k[i]
      /\ h[n + 1] = x
      /\ \A i \in (n + 1)..(n + m) : h[i + 1] = k[i]
  <2>1. \A i \in 1..n : h[i] = k[i]
    BY <1>1, <1>2, <1>4, <1>5, <1>6, <1>7
  <2>2. \A i \in (n + 1)..(n + m) : h[i + 1] = k[i]
    <3> SUFFICES ASSUME NEW i \in (n + 1)..(n + m) PROVE h[i + 1] = k[i]
      OBVIOUS
    <3>1. h[i + 1] = g[(i + 1) - (n + 1)]
      BY <1>4, <1>5, <1>6, <1>7
    <3>2. k[i] = g[i - n]
      BY <1>1, <1>2, <1>7
    <3>3. (i + 1) - (n + 1) = i - n
      OBVIOUS
    <3> QED BY <3>1, <3>2, <3>3
  <2> QED BY <2>1, <2>2, <1>1, <1>2, <1>4, <1>5, <1>6, <1>7
<1>9. WellFormed(k) /\ \A i \in 1..(n + m) : k[i].req # x.req
  BY <1>2, <1>8 DEF Has
<1>10. WellFormed(h)
  <2> SUFFICES ASSUME NEW j \in 1..(n + m + 1) PROVE Fits(h, j)
    BY <1>8, AllFit
  <2>1. CASE j = n + 1
    <3>1. Before(h, j) = {}
      BY <1>8, <1>9, <2>1 DEF Before
    <3> QED BY <1>8, <2>1, <3>1 DEF Fits
  <2>2. CASE j <= n
    <3>1. /\ Before(h, j) = Before(k, j) /\ h[j] = k[j] /\ j \in 1..Len(k)
          /\ \A i \in Before(k, j) : h[i] = k[i]
      BY <1>8, <2>2 DEF Before
    <3>2. Fits(k, j)
      BY <1>9, <3>1, AllFit
    <3> QED BY <3>1, <3>2 DEF Fits
  <2>3. CASE j > n + 1
    <3>1. j - 1 \in (n + 1)..(n + m) /\ (j - 1) + 1 = j
      BY <2>3
    <3>2. h[j] = k[j - 1] /\ j - 1 \in 1..Len(k)
      BY <1>8, <3>1
    <3>3. ASSUME NEW i \in Before(h, j)
          PROVE  \E l \in Before(k, j - 1) : k[l] = h[i]
      <4>1. i \in 1..(j - 1) /\ h[i].req = k[j - 1].req
        BY <3>2, <3>3 DEF Before
      <4>2. i # n + 1
        BY <1>8, <1>9, <3>2, <4>1
      <4>3. CASE i <= n
        <5>1. h[i] = k[i] /\ i \in 1..((j - 1) - 1)
          BY <1>8, <2>3, <4>1, <4>3
        <5> QED BY <4>1, <5>1 DEF Before
      <4>4. CASE i > n + 1
        <5>1. i - 1 \in (n + 1)..(n + m) /\ (i - 1) + 1 = i /\ i - 1 \in 1..((j - 1) - 1)
          BY <4>1, <4>4
        <5>2. h[i] = k[i - 1]
          BY <1>8, <5>1
        <5> QED BY <4>1, <5>1, <5>2 DEF Before
      <4> QED BY <4>1, <4>2, <4>3, <4>4
    <3>4. ASSUME NEW l \in Before(k, j - 1) PROVE Before(h, j) # {}
      <4>1. l \in 1..((j - 1) - 1) /\ k[l].req = h[j].req
        BY <3>2, <3>4 DEF Before
      <4>2. CASE l <= n
        <5>1. h[l] = k[l] /\ l \in 1..(j - 1)
          BY <1>8, <4>1, <4>2
        <5> QED BY <4>1, <5>1 DEF Before
      <4>3. CASE l > n
        <5>1. l \in (n + 1)..(n + m) /\ l + 1 \in 1..(j - 1)
          BY <4>1, <4>3
        <5>2. h[l + 1] = k[l]
          BY <1>8, <5>1
        <5> QED BY <4>1, <5>1, <5>2 DEF Before
      <4> QED BY <4>1, <4>2, <4>3
    <3>5. Fits(k, j - 1)
      BY <1>9, <3>2, AllFit
    <3>6. Before(h, j) = {} <=> Before(k, j - 1) = {}
      BY <3>3, <3>4
    <3>7. \A i \in Before(h, j) : ~Ends(h[i].ops)
      BY <3>3, <3>5 DEF Fits
    <3> QED BY <3>2, <3>5, <3>6, <3>7 DEF Fits
  <2> QED BY <2>1, <2>2, <2>3
<1> QED BY <1>3, <1>6, <1>10

\* ... the others behind the line, while the response is open.
LEMMA NextFrameFits ==
    ASSUME NEW f \in Seq(Handled), NEW x \in Handled, WellFormed(f),
           Has(f, x.req), ~Done(f, x.req), InItself(x.ops), ~Starts(x.ops)
    PROVE  WellFormed(Append(f, x))
<1>1. PICK h \in Seq(Handled) : h = Append(f, x)
  BY AppendProperties
<1>2. /\ Len(h) = Len(f) + 1 /\ h[Len(f) + 1] = x /\ Len(f) \in Nat
      /\ \A i \in 1..Len(f) : h[i] = f[i]
  BY <1>1, AppendProperties, LenProperties
<1>3. ASSUME NEW j \in 1..Len(h) PROVE Fits(h, j)
  <2>1. CASE j <= Len(f)
    <3>1. /\ Before(h, j) = Before(f, j) /\ h[j] = f[j] /\ j \in 1..Len(f)
          /\ \A i \in Before(f, j) : h[i] = f[i]
      BY <1>2, <2>1 DEF Before
    <3>2. Fits(f, j)
      BY <3>1, AllFit
    <3> QED BY <3>1, <3>2 DEF Fits
  <2>2. CASE j = Len(f) + 1
    <3>1. Before(h, j) = {i \in 1..Len(f) : f[i].req = x.req}
      BY <1>2, <2>2 DEF Before
    <3> QED BY <1>2, <2>2, <3>1 DEF Has, Done, Fits
  <2> QED BY <1>2, <2>1, <2>2
<1> QED BY <1>1, <1>3, AllFit

\* A client that waits reads the frame behind those of its earlier requests.
LEMMA NextFrameIsInOrder ==
    ASSUME NEW f \in Seq(Handled), NEW x \in Handled, WellFormed(f),
           OneByOne(f), Ascending(f),
           \A i \in 1..Len(f) : f[i].req <= x.req,
           x.req = 1 \/ Done(f, x.req - 1)
    PROVE  OneByOne(Append(f, x)) /\ Ascending(Append(f, x))
<1>1. PICK h \in Seq(Handled) : h = Append(f, x)
  BY AppendProperties
<1>2. /\ Len(h) = Len(f) + 1 /\ h[Len(f) + 1] = x /\ Len(f) \in Nat
      /\ \A i \in 1..Len(f) : h[i] = f[i]
  BY <1>1, AppendProperties, LenProperties
<1>3. /\ \A i \in 1..Len(f) : f[i].req \in Nat \ {0}
      /\ x.req \in Nat \ {0}
  <2>1. \A i \in 1..Len(f) : f[i] \in Handled
    BY ElementOfSeq
  <2> QED BY <2>1, GatewayAssumption DEF Handled, Requests
<1>4. Ascending(h)
  <2> SUFFICES ASSUME NEW i \in 1..Len(h), NEW j \in 1..Len(h), i < j
               PROVE  h[i].req <= h[j].req
    BY DEF Ascending
  <2>1. i \in 1..Len(f) /\ h[i] = f[i]
    BY <1>2
  <2>2. CASE j = Len(f) + 1
    BY <1>2, <2>1, <2>2
  <2>3. CASE j \in 1..Len(f)
    BY <1>2, <2>1, <2>3 DEF Ascending
  <2> QED BY <1>2, <2>2, <2>3
<1>5. ASSUME NEW i \in 2..Len(h)
      PROVE  \/ h[i].req = h[i - 1].req
             \/ h[i].req = h[i - 1].req + 1 /\ Ends(h[i - 1].ops)
  <2>1. CASE i <= Len(f)
    <3>1. i \in 2..Len(f) /\ h[i] = f[i] /\ h[i - 1] = f[i - 1]
      BY <1>2, <2>1
    <3> QED BY <3>1 DEF OneByOne
  <2>2. CASE i = Len(f) + 1 /\ f[i - 1].req # x.req
    <3> DEFINE l == Len(f)
    <3>1. l \in 1..Len(f) /\ l = i - 1 /\ h[i] = x /\ h[i - 1] = f[l]
      BY <1>2, <2>2
    <3>2. f[l].req < x.req /\ x.req # 1
      BY <1>3, <2>2, <3>1
    <3>3. PICK d \in 1..Len(f) : f[d].req = x.req - 1 /\ Ends(f[d].ops)
      BY <3>2 DEF Done
    <3>4. f[d].req <= f[l].req
      BY <1>2, <1>3, <3>1, <3>3 DEF Ascending
    <3>5. f[l].req = x.req - 1
      BY <1>3, <3>1, <3>2, <3>3, <3>4
    <3>6. d = l
      <4> SUFFICES ASSUME d # l PROVE FALSE
        OBVIOUS
      <4>1. d \in Before(f, l)
        BY <1>2, <3>1, <3>3, <3>5 DEF Before
      <4>2. Fits(f, l)
        BY <3>1, AllFit
      <4> QED BY <3>3, <4>1, <4>2 DEF Fits
    <3> QED BY <1>3, <3>1, <3>3, <3>5, <3>6
  <2>3. CASE i = Len(f) + 1 /\ f[i - 1].req = x.req
    <3>1. h[i] = x /\ h[i - 1] = f[i - 1]
      BY <1>2, <2>3
    <3> QED BY <2>3, <3>1
  <2> QED BY <1>2, <2>1, <2>2, <2>3
<1> QED BY <1>1, <1>4, <1>5 DEF OneByOne

\* What a frame adds to a line, behind it or in it.
LEMMA FrameIsAdded ==
    ASSUME NEW f \in Seq(Handled), NEW g \in Seq(Handled), NEW x \in Handled
    PROVE  /\ Append(f, x) \o g \in Seq(Handled)
           /\ \A r : Has(Append(f, x) \o g, r) <=> Has(f \o g, r) \/ r = x.req
           /\ \A r : Done(Append(f, x) \o g, r) <=>
                        Done(f \o g, r) \/ (r = x.req /\ Ends(x.ops))
           /\ \A s : /\ Marked(f \o g, s)
                     /\ Closes(x.ops) <=> Ends(x.ops) /\ IsTheLast(s[x.req])
                     => Marked(Append(f, x) \o g, s)
<1>1. /\ f \o g \in Seq(Handled) /\ Len(f \o g) = Len(f) + Len(g)
      /\ \A i \in 1..(Len(f) + Len(g)) :
            (f \o g)[i] = IF i <= Len(f) THEN f[i] ELSE g[i - Len(f)]
  BY ConcatProperties
<1>2. PICK k \in Seq(Handled) : k = f \o g
  BY <1>1
<1>3. PICK e \in Seq(Handled) : e = Append(f, x)
  BY AppendProperties
<1>4. /\ Len(e) = Len(f) + 1 /\ e[Len(f) + 1] = x
      /\ \A i \in 1..Len(f) : e[i] = f[i]
  BY <1>3, AppendProperties
<1>5. /\ e \o g \in Seq(Handled) /\ Len(e \o g) = Len(e) + Len(g)
      /\ \A i \in 1..(Len(e) + Len(g)) :
            (e \o g)[i] = IF i <= Len(e) THEN e[i] ELSE g[i - Len(e)]
  BY ConcatProperties
<1>6. PICK h \in Seq(Handled) : h = e \o g
  BY <1>5
<1>7. PICK n \in Nat, m \in Nat : n = Len(f) /\ m = Len(g)
  BY LenProperties
<1>8. /\ Len(k) = n + m /\ Len(h) = n + m + 1
      /\ h[n + 1] = x
      /\ \A i \in 1..n : k[i] = f[i] /\ h[i] = f[i]
  BY <1>1, <1>2, <1>4, <1>5, <1>6, <1>7
<1>9. \A i \in (n + 1)..(n + m) : k[i] = g[i - n]
  BY <1>1, <1>2, <1>7
<1>10. \A i \in (n + 2)..(n + m + 1) : h[i] = g[i - (n + 1)]
  BY <1>4, <1>5, <1>6, <1>7
<1>11. ASSUME NEW i \in 1..Len(k) PROVE \E j \in 1..Len(h) : h[j] = k[i]
  <2>1. CASE i <= n
    BY <1>8, <2>1
  <2>2. CASE i > n
    <3>1. /\ i \in (n + 1)..(n + m) /\ i + 1 \in (n + 2)..(n + m + 1)
          /\ (i + 1) - (n + 1) = i - n /\ i + 1 \in 1..Len(h)
      BY <1>8, <2>2
    <3> QED BY <1>9, <1>10, <3>1
  <2> QED BY <1>8, <2>1, <2>2
<1>12. ASSUME NEW j \in 1..Len(h), j # n + 1 PROVE \E i \in 1..Len(k) : h[j] = k[i]
  <2>1. CASE j <= n
    BY <1>8, <2>1
  <2>2. CASE j > n + 1
    <3>1. /\ j \in (n + 2)..(n + m + 1) /\ j - 1 \in (n + 1)..(n + m)
          /\ (j - 1) - n = j - (n + 1) /\ j - 1 \in 1..Len(k)
      BY <1>8, <2>2
    <3> QED BY <1>9, <1>10, <3>1
  <2> QED BY <1>8, <1>12, <2>1, <2>2
<1>13. n + 1 \in 1..Len(h)
  BY <1>8
<1>14. \A r : Has(h, r) <=> Has(k, r) \/ r = x.req
  BY <1>8, <1>11, <1>12, <1>13, SMTT(30) DEF Has
<1>15. ASSUME NEW r
       PROVE  Done(h, r) <=> Done(k, r) \/ (r = x.req /\ Ends(x.ops))
  <2>1. ASSUME NEW i \in 1..Len(k), k[i].req = r, Ends(k[i].ops) PROVE Done(h, r)
    BY <1>11, <2>1, Zenon DEF Done
  <2>2. ASSUME r = x.req, Ends(x.ops) PROVE Done(h, r)
    BY <1>8, <1>13, <2>2, Zenon DEF Done
  <2>3. ASSUME NEW j \in 1..Len(h), h[j].req = r, Ends(h[j].ops)
        PROVE  Done(k, r) \/ (r = x.req /\ Ends(x.ops))
    <3>1. CASE j = n + 1
      BY <1>8, <2>3, <3>1
    <3>2. CASE j # n + 1
      <4>1. PICK i \in 1..Len(k) : h[j] = k[i]
        BY <1>12, <3>2
      <4> QED BY <2>3, <4>1, Zenon DEF Done
    <3> QED BY <3>1, <3>2
  <2> QED BY <2>1, <2>2, <2>3, Zenon DEF Done
<1>16. ASSUME NEW s, Marked(k, s), Closes(x.ops) <=> Ends(x.ops) /\ IsTheLast(s[x.req])
       PROVE  Marked(h, s)
  <2> SUFFICES ASSUME NEW j \in 1..Len(h)
               PROVE  Closes(h[j].ops) <=> Ends(h[j].ops) /\ IsTheLast(s[h[j].req])
    BY DEF Marked
  <2>1. CASE j = n + 1
    BY <1>8, <1>16, <2>1
  <2>2. CASE j # n + 1
    <3>1. PICK i \in 1..Len(k) : h[j] = k[i]
      BY <1>12, <2>2
    <3> QED BY <1>16, <3>1 DEF Marked
  <2> QED BY <2>1, <2>2
<1> QED BY <1>2, <1>3, <1>6, <1>14, <1>15, <1>16

\* A frame that continues its response, or begins one, behind the line.
LEMMA LineGrows ==
    ASSUME NEW f \in Seq(Handled), NEW x \in Handled, WellFormed(f), InItself(x.ops),
           \/ ~Has(f, x.req) /\ Starts(x.ops)
           \/ Has(f, x.req) /\ ~Done(f, x.req) /\ ~Starts(x.ops)
    PROVE  /\ Append(f, x) \in Seq(Handled)
           /\ WellFormed(Append(f, x))
           /\ \A r : Has(Append(f, x), r) <=> Has(f, r) \/ r = x.req
           /\ \A r : Done(Append(f, x), r) <=>
                        Done(f, r) \/ (r = x.req /\ Ends(x.ops))
           /\ \A s : /\ Marked(f, s)
                     /\ Closes(x.ops) <=> Ends(x.ops) /\ IsTheLast(s[x.req])
                     => Marked(Append(f, x), s)
<1>1. PICK g \in Seq(Handled) : g = <<>>
  BY EmptySeq
<1>2. Append(f, x) \in Seq(Handled)
  BY AppendProperties
<1>3. f \o g = f /\ Append(f, x) \o g = Append(f, x)
  BY <1>1, <1>2, ConcatEmptySeq
<1>4. ASSUME ~Has(f, x.req), Starts(x.ops)
      PROVE  WellFormed(Append(f, x))
  <2>1. WellFormed(f \o g) /\ ~Has(f \o g, x.req)
    BY <1>3, <1>4
  <2>2. WellFormed(Append(f, x) \o g)
    BY <1>4, <2>1, FirstFrameFits
  <2> QED BY <1>3, <2>2
<1>5. ASSUME Has(f, x.req), ~Done(f, x.req), ~Starts(x.ops)
      PROVE  WellFormed(Append(f, x))
  BY <1>5, NextFrameFits
<1>6. \A r : Has(Append(f, x) \o g, r) <=> Has(f \o g, r) \/ r = x.req
  BY FrameIsAdded
<1>7. \A r : Done(Append(f, x) \o g, r) <=>
                Done(f \o g, r) \/ (r = x.req /\ Ends(x.ops))
  BY FrameIsAdded
<1>8. WellFormed(Append(f, x))
  BY <1>4, <1>5
<1>9. \A s : /\ Marked(f \o g, s)
             /\ Closes(x.ops) <=> Ends(x.ops) /\ IsTheLast(s[x.req])
             => Marked(Append(f, x) \o g, s)
  BY FrameIsAdded
<1> QED BY <1>2, <1>3, <1>6, <1>7, <1>8, <1>9, Zenon

-----------------------------------------------------------------------------
(* What the invariant says of one connection                                *)

LEMMA Typing ==
    ASSUME TypeOK
    PROVE  /\ MaxRequests \in Nat /\ MaxEvents \in Nat
           /\ Idle \notin Jobs
           /\ tasks \in Seq(Conns \X Requests)
           /\ work \in [Workers -> {Idle} \cup Jobs]
           /\ \A c \in Conns : /\ wire[c] \in Seq(Handled)
                               /\ mail[c] \in Seq(Handled)
                               /\ Line(c) \in Seq(Handled)
                               /\ sent[c] \in Seq(Asked)
                               /\ handed[c] \in Nat /\ parts[c] \in Nat
                               /\ inBuf[c] \in Nat /\ unread[c] \in Nat
<1>1. \A c \in Conns : wire[c] \in Seq(Handled) /\ mail[c] \in Seq(Handled)
  BY DEF TypeOK
<1>2. \A c \in Conns : Line(c) \in Seq(Handled)
  BY <1>1, ConcatProperties DEF Line
<1>3. Idle \notin Jobs
  BY DEF Idle, Jobs
<1>4. MaxRequests \in Nat /\ MaxEvents \in Nat
  BY GatewayAssumption
<1>5. /\ tasks \in Seq(Conns \X Requests)
      /\ work \in [Workers -> {Idle} \cup Jobs]
  BY DEF TypeOK, Jobs
<1>6. ASSUME NEW c \in Conns
      PROVE  /\ sent[c] \in Seq(Asked)
             /\ handed[c] \in Nat /\ parts[c] \in Nat
             /\ inBuf[c] \in Nat /\ unread[c] \in Nat
  <2>1. sent[c] \in Seq(Asked)
    BY DEF TypeOK, Asked
  <2>2. \A m \in Nat : \A n \in 0..m : n \in Nat
    OBVIOUS
  <2>3. 2 * MaxRequests \in Nat
    BY <1>4
  <2>4. /\ handed[c] \in 0..MaxRequests /\ parts[c] \in 0..(2 * MaxRequests)
        /\ inBuf[c] \in 0..(2 * MaxRequests) /\ unread[c] \in 0..(2 * MaxRequests)
    BY DEF TypeOK
  <2> QED BY <1>4, <2>1, <2>2, <2>3, <2>4
<1> QED BY <1>1, <1>2, <1>3, <1>4, <1>5, <1>6

\* What was handed over was sent, and there is a request where the parser is.
LEMMA HandedWasSent ==
    ASSUME TypeOK, PartsAreKept, NEW c \in Conns
    PROVE  /\ Len(sent[c]) \in 0..MaxRequests
           /\ handed[c] <= Len(sent[c])
           /\ Readable(c) => handed[c] + 1 \in 1..Len(sent[c])
<1>1. /\ handed[c] \in Nat /\ parts[c] \in Nat /\ inBuf[c] \in Nat
      /\ unread[c] \in Nat /\ Len(sent[c]) \in Nat /\ MaxRequests \in Nat
  BY Typing, LenProperties
<1>2. PICK h \in Nat, p \in Nat, i \in Nat, u \in Nat, l \in Nat :
        h = handed[c] /\ p = parts[c] /\ i = inBuf[c] /\ u = unread[c] /\ l = Len(sent[c])
  BY <1>1
<1>3. PICK b \in {0, 1} : p = 2 * h + b + i + u
  BY <1>2 DEF PartsAreKept
<1>4. p <= 2 * l /\ l <= MaxRequests
  BY <1>2 DEF PartsAreKept
<1>5. /\ l \in 0..MaxRequests /\ h <= l
      /\ u > 0 => h + 1 \in 1..l
  BY <1>1, <1>3, <1>4
<1> QED BY <1>2, <1>5 DEF Readable

\* What is complete on the wire is done in the line.
LEMMA CompleteIsDone ==
    ASSUME TypeOK, NEW c \in Conns, NEW r, Complete(c, r)
    PROVE  Done(Line(c), r) /\ Has(Line(c), r)
<1>1. wire[c] \in Seq(Handled) /\ mail[c] \in Seq(Handled)
  BY Typing
<1>2. PICK f \in Seq(Handled), g \in Seq(Handled) : f = wire[c] /\ g = mail[c]
  BY <1>1
<1>3. /\ f \o g \in Seq(Handled) /\ Len(f \o g) = Len(f) + Len(g)
      /\ \A i \in 1..(Len(f) + Len(g)) :
            (f \o g)[i] = IF i <= Len(f) THEN f[i] ELSE g[i - Len(f)]
  BY ConcatProperties
<1>4. Len(f) \in Nat /\ Len(g) \in Nat
  BY LenProperties
<1>5. \A i \in 1..Len(f) : i \in 1..Len(f \o g) /\ (f \o g)[i] = f[i]
  BY <1>3, <1>4
<1> QED BY <1>2, <1>5 DEF Complete, Done, Has, Line

LEMMA CompleteOnWire ==
    \A c, r : /\ Complete(c, r) <=> Done(wire[c], r)
              /\ Complete(c, r)' <=> Done(wire'[c], r)
BY DEF Complete, Done, Ends, Last

\* Nothing is queued behind responses that are all complete on the wire.
LEMMA NothingBehind ==
    ASSUME NEW f \in Seq(Handled), NEW g \in Seq(Handled), WellFormed(f \o g),
           \A q \in Requests : Has(f \o g, q) => Done(f, q)
    PROVE  g = <<>>
<1> SUFFICES ASSUME g # <<>> PROVE FALSE
  OBVIOUS
<1>1. /\ f \o g \in Seq(Handled) /\ Len(f \o g) = Len(f) + Len(g)
      /\ \A i \in 1..(Len(f) + Len(g)) :
            (f \o g)[i] = IF i <= Len(f) THEN f[i] ELSE g[i - Len(f)]
  BY ConcatProperties
<1>2. PICK k \in Seq(Handled) : k = f \o g
  BY <1>1
<1>3. Len(f) \in Nat /\ Len(g) \in Nat /\ Len(g) # 0
  BY LenProperties, EmptySeq
<1>4. /\ Len(f) + 1 \in 1..Len(k)
      /\ \A i \in 1..Len(f) : k[i] = f[i]
  BY <1>1, <1>2, <1>3
<1>5. PICK q \in Requests : q = k[Len(f) + 1].req
  <2>1. k[Len(f) + 1] \in Handled
    BY <1>4, ElementOfSeq
  <2> QED BY <2>1 DEF Handled
<1>6. Done(f, q)
  BY <1>2, <1>4, <1>5 DEF Has
<1>7. PICK i \in 1..Len(f) : f[i].req = q /\ Ends(f[i].ops)
  BY <1>6 DEF Done
<1>8. i \in Before(k, Len(f) + 1)
  BY <1>3, <1>4, <1>5, <1>7 DEF Before
<1>9. Fits(k, Len(f) + 1)
  BY <1>2, <1>4, AllFit
<1> QED BY <1>4, <1>7, <1>8, <1>9 DEF Fits

\* While a client waits, nothing is queued for it when its request is parsed.
LEMMA NoBacklog ==
    ASSUME IInv, NEW c \in Conns, c \notin Pipelining, conn[c] = "connected",
           Readable(c)
    PROVE  mail[c] = <<>>
<1>1. wire[c] \in Seq(Handled) /\ mail[c] \in Seq(Handled) /\ LineOK(c)
  BY Typing DEF IInv, LinesHold
<1>2. PICK f \in Seq(Handled), g \in Seq(Handled) : f = wire[c] /\ g = mail[c]
  BY <1>1
<1>3. Line(c) = f \o g
  BY <1>2 DEF Line
<1>4. ASSUME NEW q \in Requests, Has(f \o g, q) PROVE Done(f, q)
  <2>1. q <= handed[c]
    BY <1>1, <1>3, <1>4 DEF LineOK
  <2>2. handed[c] + 1 \in 1..Len(sent[c]) /\ Len(sent[c]) \in 0..MaxRequests
    BY HandedWasSent DEF IInv
  <2>3. handed[c] \in Nat /\ MaxRequests \in Nat
    BY Typing DEF IInv
  <2>4. q \in 1..(Len(sent[c]) - 1)
    BY <2>1, <2>2, <2>3 DEF Requests
  <2>5. Complete(c, q)
    BY <2>4 DEF IInv, ClientsWait
  <2> QED BY <1>2, <2>5, CompleteOnWire
<1>5. WellFormed(f \o g)
  BY <1>1, <1>3 DEF LineOK
<1>6. g = <<>>
  BY <1>4, <1>5, NothingBehind
<1> QED BY <1>2, <1>6

\* The request that is parsed or answered for a client that waits is its latest.
LEMMA InTurn ==
    ASSUME IInv, NEW c \in Conns, c \notin Pipelining, conn[c] = "connected",
           NEW r \in Requests,
           Pending(c, r) \/ (Readable(c) /\ r = handed[c] + 1)
    PROVE  /\ r = Len(sent[c])
           /\ \A q \in Requests : Has(Line(c), q) => q <= r
           /\ r = 1 \/ Done(Line(c), r - 1)
<1>1. /\ Len(sent[c]) \in Nat /\ handed[c] \in Nat /\ handed[c] <= Len(sent[c])
      /\ Readable(c) => handed[c] + 1 <= Len(sent[c])
      /\ r \in Nat \ {0}
  BY HandedWasSent, Typing DEF IInv, Requests
<1>2. LineOK(c)
  BY DEF IInv, LinesHold
<1>3. r <= Len(sent[c])
  BY <1>1 DEF IInv, PendingIsHanded
<1>4. r = Len(sent[c])
  <2> SUFFICES ASSUME r < Len(sent[c]) PROVE FALSE
    BY <1>1, <1>3
  <2>1. Complete(c, r)
    BY <1>1 DEF IInv, ClientsWait
  <2>2. Done(Line(c), r) /\ Has(Line(c), r)
    BY <2>1, CompleteIsDone DEF IInv
  <2>3. ~Pending(c, r)
    BY <1>2, <2>2 DEF LineOK, Owed
  <2>4. r <= handed[c]
    BY <1>2, <2>2 DEF LineOK
  <2> QED BY <1>1, <2>3, <2>4
<1>5. ASSUME r # 1 PROVE Done(Line(c), r - 1)
  <2>1. r - 1 \in 1..(Len(sent[c]) - 1)
    <3>1. r - 1 \in 1..(r - 1)
      BY <1>1, <1>5
    <3> QED BY <1>4, <3>1
  <2>2. Complete(c, r - 1)
    BY <2>1 DEF IInv, ClientsWait
  <2> QED BY <2>2, CompleteIsDone DEF IInv
<1>6. ASSUME NEW q \in Requests, Has(Line(c), q) PROVE q <= r
  BY <1>1, <1>2, <1>4, <1>6 DEF LineOK, Requests
<1> QED BY <1>4, <1>5, <1>6

-----------------------------------------------------------------------------
(* Who holds a request                                                      *)

\* A request that is handed over is behind all others in the queue.
LEMMA TasksGrow ==
    ASSUME TypeOK, HeldOnce, NEW c \in Conns, NEW r \in Requests, ~Pending(c, r),
           tasks' = Append(tasks, <<c, r>>), work' = work
    PROVE  /\ tasks' \in Seq(Conns \X Requests)
           /\ HeldOnce'
           /\ \A d \in Conns, q \in Requests :
                 Pending(d, q)' <=> Pending(d, q) \/ (d = c /\ q = r)
<1>1. PICK t \in Seq(Conns \X Requests) : t = tasks
  BY Typing
<1>2. PICK x \in Conns \X Requests : x = <<c, r>>
  OBVIOUS
<1>3. /\ Append(t, x) \in Seq(Conns \X Requests) /\ Len(Append(t, x)) = Len(t) + 1
      /\ \A i \in 1..Len(t) : Append(t, x)[i] = t[i]
      /\ Append(t, x)[Len(t) + 1] = x
  BY AppendProperties
<1>4. PICK s \in Seq(Conns \X Requests) : s = Append(t, x)
  BY <1>3
<1>5. tasks' = s
  BY <1>1, <1>2, <1>4
<1>6. /\ Len(t) \in Nat /\ Len(s) = Len(t) + 1 /\ s[Len(t) + 1] = x
      /\ \A i \in 1..Len(t) : s[i] = t[i]
  BY <1>3, <1>4, LenProperties
<1>7. \A i \in 1..Len(t) : t[i] # x
  BY <1>1, <1>2 DEF Pending, Queues
<1>8. ASSUME NEW d \in Conns, NEW q \in Requests
      PROVE  Queues(d, q)' <=> Queues(d, q) \/ (d = c /\ q = r)
  <2>1. Queues(d, q)' <=> \E i \in 1..Len(s) : s[i] = <<d, q>>
    BY <1>5 DEF Queues
  <2>2. Queues(d, q) <=> \E i \in 1..Len(t) : t[i] = <<d, q>>
    BY <1>1 DEF Queues
  <2>3. \A i \in 1..Len(s) : i \in 1..Len(t) \/ i = Len(t) + 1
    BY <1>6
  <2>4. /\ \A i \in 1..Len(t) : i \in 1..Len(s)
        /\ Len(t) + 1 \in 1..Len(s)
    BY <1>6
  <2>5. x = <<d, q>> <=> d = c /\ q = r
    BY <1>2
  <2> QED BY <1>6, <2>1, <2>2, <2>3, <2>4, <2>5
<1>9. \A w \in Workers, d \in Conns, q \in Requests : Serves(w, d, q)' <=> Serves(w, d, q)
  BY DEF Serves
<1>10. ASSUME NEW i \in 1..Len(s), NEW j \in 1..Len(s), s[i] = s[j] PROVE i = j
  <2>1. \A k, l \in 1..Len(t) : t[k] = t[l] => k = l
    BY <1>1 DEF HeldOnce
  <2>2. \A k \in 1..Len(s) : k \in 1..Len(t) \/ k = Len(t) + 1
    BY <1>6
  <2> QED BY <1>6, <1>7, <1>10, <2>1, <2>2
<1>11. HeldOnce'
  <2>1. \A i, j \in 1..Len(tasks') : tasks'[i] = tasks'[j] => i = j
    BY <1>5, <1>10
  <2>2. ASSUME NEW w \in Workers, NEW d \in Conns, NEW q \in Requests, Serves(w, d, q)'
        PROVE  /\ ~Queues(d, q)'
               /\ \A v \in Workers : Serves(v, d, q)' => v = w
    BY <1>8, <1>9, <2>2 DEF HeldOnce, Pending
  <2> QED BY <2>1, <2>2 DEF HeldOnce
<1> QED BY <1>5, <1>8, <1>9, <1>11 DEF Pending

\* Taking a task moves it from the queue to the worker.
LEMMA TaskMoves ==
    ASSUME TypeOK, HeldOnce, NEW w \in Workers, Take(w)
    PROVE  /\ tasks' \in Seq(Conns \X Requests)
           /\ work' \in [Workers -> {Idle} \cup Jobs]
           /\ HeldOnce'
           /\ \A d \in Conns, q \in Requests : Pending(d, q)' => Pending(d, q)
<1>1. PICK t \in Seq(Conns \X Requests) : t = tasks
  BY Typing
<1>2. t # <<>> /\ tasks' = Tail(t)
  BY <1>1 DEF Take
<1>3. PICK s \in Seq(Conns \X Requests), x \in Conns \X Requests : s = Tail(t) /\ x = Head(t)
  BY <1>2, HeadTailProperties
<1>4. /\ Len(t) \in Nat \ {0} /\ Len(s) = Len(t) - 1 /\ x = t[1]
      /\ \A i \in 1..Len(s) : s[i] = t[i + 1]
  BY <1>2, <1>3, HeadTailProperties, LenProperties, EmptySeq
<1>5. PICK c \in Conns, r \in Requests : x = <<c, r>>
  OBVIOUS
<1>6. PICK k \in Jobs : k = [at |-> "upstream", conn |-> c, req |-> r, events |-> 0]
  <2>1. 0 \in 0..MaxEvents
    BY Typing
  <2> QED BY <2>1 DEF Jobs
<1>7. work' = [work EXCEPT ![w] = k]
  <2>1. Head(tasks)[1] = c /\ Head(tasks)[2] = r
    BY <1>1, <1>3, <1>5
  <2>2. work' = [work EXCEPT ![w] = [at |-> "upstream", conn |-> Head(tasks)[1],
                                     req |-> Head(tasks)[2], events |-> 0]]
    BY DEF Take
  <2> QED BY <1>6, <2>1, <2>2
<1>8. /\ work' \in [Workers -> {Idle} \cup Jobs]
      /\ work'[w] = k /\ k # Idle /\ k.conn = c /\ k.req = r
      /\ \A v \in Workers : v # w => work'[v] = work[v]
      /\ work[w] = Idle
  BY <1>6, <1>7, Typing DEF Take
<1>9. /\ 1 \in 1..Len(t)
      /\ \A i \in 1..Len(s) : i + 1 \in 1..Len(t) /\ i + 1 # 1
      /\ \A i \in 1..Len(t) : i # 1 => i - 1 \in 1..Len(s) /\ (i - 1) + 1 = i
  BY <1>4
<1>10. \A i, j \in 1..Len(t) : t[i] = t[j] => i = j
  BY <1>1 DEF HeldOnce
<1>11. ASSUME NEW d \in Conns, NEW q \in Requests
       PROVE  Queues(d, q)' <=> Queues(d, q) /\ ~(d = c /\ q = r)
  <2>1. Queues(d, q)' <=> \E i \in 1..Len(s) : s[i] = <<d, q>>
    BY <1>2, <1>3 DEF Queues
  <2>2. Queues(d, q) <=> \E i \in 1..Len(t) : t[i] = <<d, q>>
    BY <1>1 DEF Queues
  <2>3. x = <<d, q>> <=> d = c /\ q = r
    BY <1>5
  <2>4. ASSUME NEW i \in 1..Len(s), s[i] = <<d, q>>
        PROVE  Queues(d, q) /\ ~(d = c /\ q = r)
    <3>1. t[i + 1] = <<d, q>> /\ i + 1 \in 1..Len(t) /\ i + 1 # 1
      BY <1>4, <1>9, <2>4
    <3>2. t[i + 1] # t[1]
      BY <1>9, <1>10, <3>1
    <3> QED BY <1>4, <2>2, <2>3, <3>1, <3>2
  <2>5. ASSUME NEW i \in 1..Len(t), t[i] = <<d, q>>, ~(d = c /\ q = r)
        PROVE  \E j \in 1..Len(s) : s[j] = <<d, q>>
    <3>1. i # 1
      BY <1>4, <2>3, <2>5
    <3>2. i - 1 \in 1..Len(s) /\ (i - 1) + 1 = i
      BY <1>9, <3>1
    <3>3. s[i - 1] = t[i]
      BY <1>4, <3>2
    <3> QED BY <2>5, <3>2, <3>3
  <2> QED BY <2>1, <2>2, <2>4, <2>5
<1>12. Queues(c, r)
  BY <1>1, <1>4, <1>5, <1>9 DEF Queues
<1>13. ASSUME NEW v \in Workers, NEW d \in Conns, NEW q \in Requests
       PROVE  /\ v = w => (Serves(v, d, q)' <=> d = c /\ q = r)
              /\ v # w => (Serves(v, d, q)' <=> Serves(v, d, q))
  BY <1>8 DEF Serves
<1>14. \A i, j \in 1..Len(s) : s[i] = s[j] => i = j
  <2> SUFFICES ASSUME NEW i \in 1..Len(s), NEW j \in 1..Len(s), s[i] = s[j]
               PROVE  i = j
    OBVIOUS
  <2>1. i + 1 = j + 1
    BY <1>4, <1>9, <1>10
  <2> QED BY <2>1
<1>15. HeldOnce'
  <2>1. \A i, j \in 1..Len(tasks') : tasks'[i] = tasks'[j] => i = j
    BY <1>2, <1>3, <1>14
  <2>2. ASSUME NEW v \in Workers, NEW d \in Conns, NEW q \in Requests, Serves(v, d, q)'
        PROVE  /\ ~Queues(d, q)'
               /\ \A u \in Workers : Serves(u, d, q)' => u = v
    <3>1. CASE v = w
      BY <1>11, <1>12, <1>13, <2>2, <3>1 DEF HeldOnce
    <3>2. CASE v # w
      BY <1>11, <1>12, <1>13, <2>2, <3>2 DEF HeldOnce
    <3> QED BY <3>1, <3>2
  <2> QED BY <2>1, <2>2 DEF HeldOnce
<1> QED BY <1>2, <1>3, <1>8, <1>11, <1>12, <1>13, <1>15 DEF Pending

\* A worker that is done holds nothing; one that goes on holds what it held.
LEMMA JobEnds ==
    ASSUME TypeOK, HeldOnce, NEW w \in Workers, work[w] # Idle, tasks' = tasks,
           NEW c \in Conns, NEW r \in Requests, Serves(w, c, r),
           work' = [work EXCEPT ![w] = Idle]
    PROVE  /\ work' \in [Workers -> {Idle} \cup Jobs]
           /\ HeldOnce'
           /\ \A d \in Conns, q \in Requests :
                 Pending(d, q)' => Pending(d, q) /\ ~(d = c /\ q = r)
<1>1. /\ work' \in [Workers -> {Idle} \cup Jobs] /\ work'[w] = Idle
      /\ \A v \in Workers : v # w => work'[v] = work[v]
  BY Typing
<1>2. \A d \in Conns, q \in Requests : Queues(d, q)' <=> Queues(d, q)
  BY DEF Queues
<1>3. \A v \in Workers, d \in Conns, q \in Requests :
         Serves(v, d, q)' <=> v # w /\ Serves(v, d, q)
  BY <1>1 DEF Serves
<1>4. HeldOnce'
  BY <1>2, <1>3 DEF HeldOnce
<1> QED BY <1>1, <1>2, <1>3, <1>4 DEF Pending, HeldOnce

LEMMA JobGoesOn ==
    ASSUME TypeOK, HeldOnce, NEW w \in Workers, work[w] # Idle, tasks' = tasks,
           work[w].events < MaxEvents,
           work' = [work EXCEPT ![w].events = @ + 1]
    PROVE  /\ work' \in [Workers -> {Idle} \cup Jobs]
           /\ HeldOnce'
           /\ \A d \in Conns, q \in Requests : Pending(d, q)' <=> Pending(d, q)
<1>1. PICK c \in Conns, r \in Requests, e \in 0..MaxEvents :
        work[w] = [at |-> "upstream", conn |-> c, req |-> r, events |-> e]
  BY Typing DEF Jobs
<1>2. PICK k \in Jobs : k = [at |-> "upstream", conn |-> c, req |-> r, events |-> e + 1]
  <2>1. e + 1 \in 0..MaxEvents
    BY <1>1, Typing
  <2> QED BY <2>1 DEF Jobs
<1>3. work' = [work EXCEPT ![w] = k]
  <2>1. PICK j \in Jobs : j = work[w]
    BY Typing
  <2>2. [j EXCEPT !.events = j.events + 1] = k
    BY <1>1, <1>2, <2>1
  <2>3. work' = [work EXCEPT ![w] = [j EXCEPT !.events = j.events + 1]]
    BY <2>1
  <2> QED BY <2>2, <2>3
<1>4. /\ work' \in [Workers -> {Idle} \cup Jobs] /\ work'[w] = k
      /\ k # Idle /\ k.conn = c /\ k.req = r
      /\ work[w].conn = c /\ work[w].req = r
      /\ \A v \in Workers : v # w => work'[v] = work[v]
  BY <1>1, <1>2, <1>3, Typing
<1>5. \A d \in Conns, q \in Requests : Queues(d, q)' <=> Queues(d, q)
  BY DEF Queues
<1>6. \A v \in Workers, d \in Conns, q \in Requests :
         Serves(v, d, q)' <=> Serves(v, d, q)
  BY <1>4 DEF Serves
<1>7. HeldOnce'
  BY <1>5, <1>6 DEF HeldOnce
<1> QED BY <1>4, <1>5, <1>6, <1>7 DEF Pending

-----------------------------------------------------------------------------
(* A step of one connection                                                 *)

\* The part of the invariant that speaks of c.
ConnInv(c) ==
    /\ parts[c] = 2 * handed[c] + (IF ctx[c] = "body" THEN 1 ELSE 0)
                    + inBuf[c] + unread[c]
    /\ parts[c] <= 2 * Len(sent[c])
    /\ 2 * Len(sent[c]) <= parts[c] + 1
    /\ Len(sent[c]) <= MaxRequests
    /\ \A r \in Requests :
          Pending(c, r) => r <= handed[c] /\ sent[c][r].kind \in Proxied
    /\ conn[c] = "connected" => LineOK(c)
    /\ c \notin Pipelining => \A r \in 1..(Len(sent[c]) - 1) : Complete(c, r)
    /\ WellFormed(wire[c])
    /\ c \in Pipelining \/ OneByOne(wire[c])
    /\ Answered(c)

LEMMA InvOfEach ==
    ASSUME IInv, NEW c \in Conns
    PROVE  ConnInv(c)
BY DEF IInv, ConnInv, PartsAreKept, PendingIsHanded, LinesHold, ClientsWait,
       ResponsesInOrder, AllAnswered

LEMMA InvFromEach ==
    ASSUME TypeOK', HeldOnce', \A c \in Conns : ConnInv(c)'
    PROVE  IInv'
BY DEF IInv, ConnInv, PartsAreKept, PendingIsHanded, LinesHold, ClientsWait,
       ResponsesInOrder, AllAnswered

\* The invariant of c in the next state, from what it says of that state.
LEMMA LineFrom ==
    ASSUME NEW c \in Conns,
           WellFormed(Line(c)'), Marked(Line(c)', sent'[c]), NoneCloses(wire'[c]),
           \A r \in Requests : Has(Line(c)', r) => r <= handed'[c],
           \A r \in Requests :
              Pending(c, r)' => /\ Has(Line(c)', r) <=> sent'[c][r].kind # "json"
                                /\ ~Done(Line(c)', r),
           c \notin Pipelining => OneByOne(Line(c)') /\ Ascending(Line(c)')
    PROVE  LineOK(c)'
<1>1. WellFormed(Line(c))'
  BY DEF WellFormed, Before, InItself, Starts, Opens, Ends, Last
<1>2. Marked(Line(c), sent[c])'
  BY DEF Marked, Closes, Ends, Last, IsTheLast
<1>3. NoneCloses(wire[c])'
  BY DEF NoneCloses, Closes
<1>4. \A r : /\ Has(Line(c), r)' <=> Has(Line(c)', r)
             /\ Done(Line(c), r)' <=> Done(Line(c)', r)
  BY DEF Has, Done, Ends, Last
<1>5. c \notin Pipelining => OneByOne(Line(c))' /\ Ascending(Line(c))'
  BY DEF OneByOne, Ascending, Ends, Last
<1> QED BY <1>1, <1>2, <1>3, <1>4, <1>5 DEF LineOK, Owed

LEMMA ConnFrom ==
    ASSUME NEW c \in Conns,
           parts'[c] = 2 * handed'[c] + (IF ctx'[c] = "body" THEN 1 ELSE 0)
                         + inBuf'[c] + unread'[c],
           parts'[c] <= 2 * Len(sent'[c]), 2 * Len(sent'[c]) <= parts'[c] + 1,
           Len(sent'[c]) <= MaxRequests,
           \A r \in Requests :
              Pending(c, r)' => r <= handed'[c] /\ sent'[c][r].kind \in Proxied,
           conn'[c] = "connected" => LineOK(c)',
           c \notin Pipelining => \A r \in 1..(Len(sent'[c]) - 1) : Complete(c, r)',
           WellFormed(wire'[c]), c \in Pipelining \/ OneByOne(wire'[c]),
           Answered(c)'
    PROVE  ConnInv(c)'
<1>1. WellFormed(wire[c])'
  BY DEF WellFormed, Before, InItself, Starts, Opens, Ends, Last
<1>2. c \in Pipelining \/ OneByOne(wire[c])'
  BY DEF OneByOne, Ends, Last
<1> QED BY <1>1, <1>2 DEF ConnInv, Proxied

\* The line of c may stay while requests leave the hands that held them.
LEMMA LineStays ==
    ASSUME IInv, NEW c \in Conns, conn[c] = "connected",
           Line(c)' = Line(c), handed'[c] = handed[c], NoneCloses(wire'[c]),
           \A r \in Requests : Pending(c, r)' => Pending(c, r),
           \A r \in Requests : r <= handed[c] => sent'[c][r] = sent[c][r]
    PROVE  LineOK(c)'
<1>1. LineOK(c)
  BY DEF IInv, LinesHold
<1>2. /\ WellFormed(Line(c)')
      /\ c \notin Pipelining => OneByOne(Line(c)') /\ Ascending(Line(c)')
  BY <1>1 DEF LineOK
<1>3. \A r \in Requests : Has(Line(c)', r) => r <= handed'[c]
  BY <1>1 DEF LineOK
<1>4. ASSUME NEW r \in Requests, Pending(c, r)'
      PROVE  /\ Has(Line(c)', r) <=> sent'[c][r].kind # "json"
             /\ ~Done(Line(c)', r)
  <2>1. Pending(c, r) /\ sent'[c][r] = sent[c][r]
    BY <1>4 DEF IInv, PendingIsHanded
  <2> QED BY <1>1, <2>1 DEF LineOK, Owed
<1>5. Marked(Line(c)', sent'[c])
  <2>1. PICK f \in Seq(Handled) : f = Line(c)
    BY Typing DEF IInv
  <2>2. Marked(f, sent[c])
    BY <1>1, <2>1 DEF LineOK
  <2>3. ASSUME NEW i \in 1..Len(f) PROVE sent'[c][f[i].req] = sent[c][f[i].req]
    <3>1. f[i].req \in Requests
      <4>1. f[i] \in Handled
        BY ElementOfSeq
      <4> QED BY <4>1 DEF Handled
    <3>2. Has(f, f[i].req)
      BY DEF Has
    <3> QED BY <1>1, <2>1, <3>1, <3>2 DEF LineOK
  <2>4. Marked(f, sent'[c])
    BY <2>2, <2>3 DEF Marked
  <2> QED BY <2>1, <2>4
<1> QED BY <1>2, <1>3, <1>4, <1>5, LineFrom

\* Behind shutdown() only the counts of c change.
LEMMA StaysAnswered ==
    ASSUME IInv, NEW c \in Conns,
           conn'[c] = "disconnecting" =>
              /\ conn[c] = "disconnecting"
              /\ sent'[c] = sent[c] /\ wire'[c] = wire[c]
              /\ c \notin Pipelining =>
                    /\ mail'[c] = mail[c]
                    /\ handed'[c] \in {handed[c], handed[c] + 1}
                    /\ \A r \in Requests : Pending(c, r)' => Pending(c, r)
    PROVE  Answered(c)'
<1> SUFFICES ASSUME conn'[c] = "disconnecting" PROVE Answered(c)'
  BY DEF Answered
<1>1. /\ \E r \in 1..Len(sent[c]) : IsTheLast(sent[c][r]) /\ Complete(c, r)
      /\ c \notin Pipelining =>
            /\ \A r \in 1..Len(sent[c]) :
                  /\ Complete(c, r)
                  /\ r <= handed[c] \/ sent[c][r].kind = "bad"
            /\ mail[c] = <<>>
            /\ \A r \in Requests : ~Pending(c, r)
  BY DEF IInv, AllAnswered, Answered
<1>2. \A r : Complete(c, r)' <=> Complete(c, r)
  BY CompleteOnWire
<1>3. \E r \in 1..Len(sent'[c]) : IsTheLast(sent[c][r])' /\ Complete(c, r)'
  BY <1>1, <1>2 DEF IsTheLast
<1>4. ASSUME c \notin Pipelining, NEW r \in 1..Len(sent'[c])
      PROVE  /\ Complete(c, r)'
             /\ r <= handed'[c] \/ sent'[c][r].kind = "bad"
  <2>1. Len(sent[c]) \in Nat /\ handed[c] \in Nat
    BY Typing, LenProperties DEF IInv
  <2>2. /\ r \in 1..Len(sent[c]) /\ r \in Nat
        /\ r <= handed[c] => r <= handed'[c]
    BY <1>4, <2>1
  <2> QED BY <1>1, <1>2, <1>4, <2>2
<1>5. c \notin Pipelining => mail'[c] = <<>> /\ \A r \in Requests : ~Pending(c, r)'
  BY <1>1
<1> QED BY <1>3, <1>4, <1>5 DEF Answered

\* What happens to one connection leaves the others as they are.
OthersSame(c) ==
    \A d \in Conns \ {c} :
        /\ conn'[d] = conn[d] /\ sent'[d] = sent[d] /\ parts'[d] = parts[d]
        /\ inBuf'[d] = inBuf[d] /\ unread'[d] = unread[d] /\ ctx'[d] = ctx[d]
        /\ handed'[d] = handed[d] /\ mail'[d] = mail[d] /\ wire'[d] = wire[d]

LEMMA OthersStay ==
    ASSUME IInv, NEW c \in Conns, OthersSame(c),
           NEW d \in Conns, d # c,
           \A r \in Requests : Pending(d, r)' => Pending(d, r)
    PROVE  ConnInv(d)'
<1>1. /\ conn'[d] = conn[d] /\ sent'[d] = sent[d] /\ parts'[d] = parts[d]
      /\ inBuf'[d] = inBuf[d] /\ unread'[d] = unread[d] /\ ctx'[d] = ctx[d]
      /\ handed'[d] = handed[d] /\ mail'[d] = mail[d] /\ wire'[d] = wire[d]
  BY DEF OthersSame
<1>2. ConnInv(d)
  BY InvOfEach
<1>3. Line(d)' = Line(d)
  BY <1>1 DEF Line
<1>4. conn'[d] = "connected" => LineOK(d)'
  <2>1. conn[d] = "connected" => NoneCloses(wire'[d])
    BY <1>1, <1>2 DEF ConnInv, LineOK
  <2> QED BY <1>1, <1>3, <2>1, LineStays
<1>5. \A r : Complete(d, r)' <=> Complete(d, r)
  BY <1>1, CompleteOnWire
<1>6. \A r \in Requests :
         Pending(d, r)' => r <= handed'[d] /\ sent'[d][r].kind \in Proxied
  BY <1>1, <1>2 DEF ConnInv
<1>7. /\ parts'[d] = 2 * handed'[d] + (IF ctx'[d] = "body" THEN 1 ELSE 0)
                       + inBuf'[d] + unread'[d]
      /\ parts'[d] <= 2 * Len(sent'[d])
      /\ 2 * Len(sent'[d]) <= parts'[d] + 1
      /\ Len(sent'[d]) <= MaxRequests
  BY <1>1, <1>2 DEF ConnInv
<1>8. /\ WellFormed(wire'[d])
      /\ d \in Pipelining \/ OneByOne(wire'[d])
  BY <1>1, <1>2 DEF ConnInv
<1>9. d \notin Pipelining => \A r \in 1..(Len(sent'[d]) - 1) : Complete(d, r)'
  BY <1>1, <1>2, <1>5 DEF ConnInv
<1>10. Answered(d)'
  BY <1>1, StaysAnswered
<1> QED BY <1>4, <1>6, <1>7, <1>8, <1>9, <1>10, ConnFrom

\* The client and the parser move parts on, and never make more of them.
LEMMA PartsFit ==
    ASSUME NEW M \in Nat, NEW l \in Nat, NEW p \in Nat, NEW h \in Nat,
           NEW b \in {0, 1}, NEW i \in Nat, NEW u \in Nat,
           p = 2 * h + b + i + u, p <= 2 * l, l <= M
    PROVE  /\ p \in 0..(2 * M) /\ i \in 0..(2 * M) /\ u \in 0..(2 * M)
           /\ h \in 0..M /\ h <= l
OBVIOUS

\* The counts of c as plain numbers.
LEMMA Counts ==
    ASSUME IInv, NEW c \in Conns
    PROVE  \E h, l, p, i, u \in Nat, b \in {0, 1} :
              /\ h = handed[c] /\ l = Len(sent[c]) /\ p = parts[c]
              /\ i = inBuf[c] /\ u = unread[c]
              /\ b = (IF ctx[c] = "body" THEN 1 ELSE 0)
              /\ p = 2 * h + b + i + u /\ p <= 2 * l /\ 2 * l <= p + 1
              /\ l <= MaxRequests
<1>1. /\ handed[c] \in Nat /\ Len(sent[c]) \in Nat /\ parts[c] \in Nat
      /\ inBuf[c] \in Nat /\ unread[c] \in Nat
  BY Typing, LenProperties DEF IInv
<1>2. PICK h \in Nat, l \in Nat, p \in Nat, i \in Nat, u \in Nat, b \in {0, 1} :
        /\ h = handed[c] /\ l = Len(sent[c]) /\ p = parts[c]
        /\ i = inBuf[c] /\ u = unread[c]
        /\ b = (IF ctx[c] = "body" THEN 1 ELSE 0)
  <2>1. (IF ctx[c] = "body" THEN 1 ELSE 0) \in {0, 1}
    OBVIOUS
  <2>2. PICK b \in {0, 1} : b = (IF ctx[c] = "body" THEN 1 ELSE 0)
    BY <2>1
  <2> QED BY <1>1, <2>2
<1>3. /\ p = 2 * h + b + i + u /\ p <= 2 * l /\ 2 * l <= p + 1
      /\ l <= MaxRequests
  BY <1>2 DEF IInv, PartsAreKept
<1> QED BY <1>2, <1>3

LEMMA BeginRequestKeeps ==
    ASSUME IInv, NEW c \in Conns, BeginRequest(c)
    PROVE  IInv'
<1>1. PICK k \in Kinds, close \in BOOLEAN :
        sent' = [sent EXCEPT ![c] = Append(@, [kind |-> k, close |-> close])]
  BY DEF BeginRequest
<1>2. PICK x \in Asked : x = [kind |-> k, close |-> close]
  BY DEF Asked
<1>3. /\ sent[c] \in Seq(Asked)
      /\ Append(sent[c], x) \in Seq(Asked)
      /\ Len(Append(sent[c], x)) = Len(sent[c]) + 1
      /\ \A r \in 1..Len(sent[c]) : Append(sent[c], x)[r] = sent[c][r]
  BY Typing, AppendProperties DEF IInv
<1>4. /\ parts' = [parts EXCEPT ![c] = @ + 1]
      /\ unread' = [unread EXCEPT ![c] = @ + 1]
      /\ parts[c] = 2 * Len(sent[c]) /\ Len(sent[c]) < MaxRequests
      /\ conn[c] = "connected"
      /\ UNCHANGED <<conn, inBuf, ctx, handed, mail, tasks, work, wire>>
  BY DEF BeginRequest, poolVars
<1>5. TypeOK
  BY DEF IInv
<1>6. /\ sent' \in [Conns -> Seq(Asked)] /\ sent'[c] = Append(sent[c], x)
      /\ parts'[c] = parts[c] + 1 /\ unread'[c] = unread[c] + 1
      /\ OthersSame(c)
  BY <1>1, <1>2, <1>3, <1>4, <1>5 DEF TypeOK, OthersSame, Asked
<1>7. PICK h \in Nat, l \in Nat, p \in Nat, i \in Nat, u \in Nat, b \in {0, 1} :
        /\ h = handed[c] /\ l = Len(sent[c]) /\ p = parts[c]
        /\ i = inBuf[c] /\ u = unread[c]
        /\ b = (IF ctx[c] = "body" THEN 1 ELSE 0)
        /\ p = 2 * h + b + i + u /\ p <= 2 * l /\ 2 * l <= p + 1
        /\ l <= MaxRequests
  BY Counts
<1>8. /\ l + 1 \in Nat /\ p + 1 \in Nat /\ u + 1 \in Nat /\ MaxRequests \in Nat
      /\ p + 1 = 2 * h + b + i + (u + 1) /\ p + 1 <= 2 * (l + 1)
      /\ 2 * (l + 1) <= (p + 1) + 1 /\ l + 1 <= MaxRequests /\ h <= l
  <2>1. p = 2 * l /\ l < MaxRequests /\ MaxRequests \in Nat
    BY <1>4, <1>5, <1>7, Typing
  <2>2. p = 2 * h + b + i + u
    BY <1>7
  <2> QED BY <2>1, <2>2
<1>9. p + 1 \in 0..(2 * MaxRequests) /\ u + 1 \in 0..(2 * MaxRequests)
  BY <1>8, PartsFit
<1>10. TypeOK'
  <2>1. /\ parts' \in [Conns -> 0..(2 * MaxRequests)]
        /\ unread' \in [Conns -> 0..(2 * MaxRequests)]
    BY <1>4, <1>5, <1>7, <1>9 DEF TypeOK
  <2> QED BY <1>4, <1>5, <1>6, <2>1 DEF TypeOK, Asked
<1>11. \A d \in Conns, r \in Requests : Pending(d, r)' <=> Pending(d, r)
  BY <1>4 DEF Pending, Queues, Serves
<1>12. HeldOnce'
  BY <1>4 DEF IInv, HeldOnce, Queues, Serves
<1>13. ConnInv(c)
  BY InvOfEach
<1>14. \A r \in Requests : r <= handed[c] => sent'[c][r] = sent[c][r]
  <2> SUFFICES ASSUME NEW r \in Requests, r <= handed[c]
               PROVE  sent'[c][r] = sent[c][r]
    OBVIOUS
  <2>1. r \in 1..Len(sent[c])
    BY <1>7, <1>8 DEF Requests
  <2> QED BY <1>3, <1>6, <2>1
<1>15. LineOK(c)'
  <2>1. Line(c)' = Line(c) /\ handed'[c] = handed[c]
    BY <1>4 DEF Line
  <2>2. NoneCloses(wire'[c])
    BY <1>4, <1>13 DEF ConnInv, LineOK
  <2> QED BY <1>4, <1>11, <1>14, <2>1, <2>2, LineStays
<1>16. \A r : Complete(c, r)' <=> Complete(c, r)
  BY <1>4, CompleteOnWire
<1>17. ConnInv(c)'
  <2>1. /\ parts'[c] = 2 * handed'[c] + (IF ctx'[c] = "body" THEN 1 ELSE 0)
                         + inBuf'[c] + unread'[c]
        /\ parts'[c] <= 2 * Len(sent'[c])
        /\ 2 * Len(sent'[c]) <= parts'[c] + 1
        /\ Len(sent'[c]) <= MaxRequests
    BY <1>3, <1>4, <1>6, <1>7, <1>8
  <2>2. \A r \in Requests :
           Pending(c, r)' => r <= handed'[c] /\ sent'[c][r].kind \in Proxied
    BY <1>4, <1>11, <1>13, <1>14 DEF ConnInv
  <2>3. ASSUME c \notin Pipelining, NEW r \in 1..(Len(sent'[c]) - 1)
        PROVE  Complete(c, r)'
    <3>1. r \in 1..Len(sent[c])
      BY <1>3, <1>6, <1>7, <2>3
    <3> QED BY <1>16, <2>3, <3>1 DEF BeginRequest
  <2>4. /\ WellFormed(wire'[c])
        /\ c \in Pipelining \/ OneByOne(wire'[c])
    BY <1>4, <1>13 DEF ConnInv
  <2>5. Answered(c)'
    BY <1>4 DEF Answered
  <2> QED BY <1>15, <2>1, <2>2, <2>3, <2>4, <2>5, ConnFrom
<1>18. \A d \in Conns : ConnInv(d)'
  BY <1>6, <1>11, <1>17, OthersStay
<1> QED BY <1>10, <1>12, <1>18, InvFromEach

\* Steps that only move parts, or end the connection.
LEMMA PartsMove ==
    ASSUME IInv, NEW c \in Conns, TypeOK', OthersSame(c),
           UNCHANGED <<sent, handed, mail, tasks, work, wire>>,
           conn'[c] \in {conn[c], "disconnected"},
           parts'[c] = 2 * handed[c] + (IF ctx'[c] = "body" THEN 1 ELSE 0)
                         + inBuf'[c] + unread'[c],
           parts'[c] <= 2 * Len(sent[c]), 2 * Len(sent[c]) <= parts'[c] + 1
    PROVE  IInv'
<1>1. \A d \in Conns, r \in Requests : Pending(d, r)' <=> Pending(d, r)
  BY DEF Pending, Queues, Serves
<1>2. HeldOnce'
  BY DEF IInv, HeldOnce, Queues, Serves
<1>3. ConnInv(c)
  BY InvOfEach
<1>4. conn'[c] = "connected" => LineOK(c)'
  <2>1. conn[c] = "connected" => NoneCloses(wire'[c])
    BY <1>3 DEF ConnInv, LineOK
  <2>2. Line(c)' = Line(c)
    BY DEF Line
  <2> QED BY <1>1, <2>1, <2>2, LineStays
<1>5. \A r : Complete(c, r)' <=> Complete(c, r)
  BY CompleteOnWire
<1>6. ConnInv(c)'
  <2>1. \A r \in Requests :
           Pending(c, r)' => r <= handed'[c] /\ sent'[c][r].kind \in Proxied
    BY <1>1, <1>3 DEF ConnInv
  <2>2. c \notin Pipelining => \A r \in 1..(Len(sent'[c]) - 1) : Complete(c, r)'
    BY <1>3, <1>5 DEF ConnInv
  <2>3. /\ WellFormed(wire'[c])
        /\ c \in Pipelining \/ OneByOne(wire'[c])
    BY <1>3 DEF ConnInv
  <2>4. Len(sent'[c]) <= MaxRequests
    BY <1>3 DEF ConnInv
  <2>5. Answered(c)'
    BY <1>1, StaysAnswered
  <2>6. /\ parts'[c] = 2 * handed'[c] + (IF ctx'[c] = "body" THEN 1 ELSE 0)
                         + inBuf'[c] + unread'[c]
        /\ parts'[c] <= 2 * Len(sent'[c]) /\ 2 * Len(sent'[c]) <= parts'[c] + 1
    OBVIOUS
  <2> QED BY <1>4, <2>1, <2>2, <2>3, <2>4, <2>5, <2>6, ConnFrom
<1>7. \A d \in Conns : ConnInv(d)'
  BY <1>1, <1>6, OthersStay
<1> QED BY <1>2, <1>7, InvFromEach

LEMMA EndRequestKeeps ==
    ASSUME IInv, NEW c \in Conns, EndRequest(c)
    PROVE  IInv'
<1>1. /\ parts' = [parts EXCEPT ![c] = @ + 1]
      /\ unread' = [unread EXCEPT ![c] = @ + 1]
      /\ parts[c] < 2 * Len(sent[c])
      /\ UNCHANGED <<conn, sent, inBuf, ctx, handed, mail, tasks, work, wire>>
  BY DEF EndRequest, poolVars
<1>2. TypeOK
  BY DEF IInv
<1>3. /\ parts'[c] = parts[c] + 1 /\ unread'[c] = unread[c] + 1
      /\ OthersSame(c)
  BY <1>1, <1>2 DEF TypeOK, OthersSame
<1>4. PICK h \in Nat, l \in Nat, p \in Nat, i \in Nat, u \in Nat, b \in {0, 1} :
        /\ h = handed[c] /\ l = Len(sent[c]) /\ p = parts[c]
        /\ i = inBuf[c] /\ u = unread[c]
        /\ b = (IF ctx[c] = "body" THEN 1 ELSE 0)
        /\ p = 2 * h + b + i + u /\ p <= 2 * l /\ 2 * l <= p + 1
        /\ l <= MaxRequests
  BY Counts
<1>5. /\ p + 1 \in Nat /\ u + 1 \in Nat /\ MaxRequests \in Nat
      /\ p + 1 = 2 * h + b + i + (u + 1) /\ p + 1 <= 2 * l
      /\ 2 * l <= (p + 1) + 1 /\ l <= MaxRequests
  <2>1. p < 2 * l /\ MaxRequests \in Nat /\ l <= MaxRequests
    BY <1>1, <1>2, <1>4, Typing
  <2>2. p = 2 * h + b + i + u /\ 2 * l <= p + 1
    BY <1>4
  <2> QED BY <2>1, <2>2
<1>6. p + 1 \in 0..(2 * MaxRequests) /\ u + 1 \in 0..(2 * MaxRequests)
  BY <1>5, PartsFit
<1>7. TypeOK'
  <2>1. /\ parts' \in [Conns -> 0..(2 * MaxRequests)]
        /\ unread' \in [Conns -> 0..(2 * MaxRequests)]
    BY <1>1, <1>2, <1>4, <1>6 DEF TypeOK
  <2> QED BY <1>1, <1>2, <2>1 DEF TypeOK
<1>8. /\ parts'[c] = 2 * handed[c] + (IF ctx'[c] = "body" THEN 1 ELSE 0)
                       + inBuf'[c] + unread'[c]
      /\ parts'[c] <= 2 * Len(sent[c]) /\ 2 * Len(sent[c]) <= parts'[c] + 1
  BY <1>1, <1>3, <1>4, <1>5
<1> QED BY <1>1, <1>3, <1>7, <1>8, PartsMove

LEMMA ClientClosesKeeps ==
    ASSUME IInv, NEW c \in Conns, ClientCloses(c)
    PROVE  IInv'
<1>1. /\ conn' = [conn EXCEPT ![c] = "disconnected"]
      /\ UNCHANGED <<sent, parts, inBuf, unread, ctx, handed, mail, tasks, work, wire>>
  BY DEF ClientCloses, poolVars, clientVars
<1>2. TypeOK
  BY DEF IInv
<1>3. conn'[c] = "disconnected" /\ OthersSame(c)
  BY <1>1, <1>2 DEF TypeOK, OthersSame
<1>4. TypeOK'
  <2>1. conn' \in [Conns -> {"connected", "disconnecting", "disconnected"}]
    BY <1>1, <1>2 DEF TypeOK
  <2> QED BY <1>1, <1>2, <2>1 DEF TypeOK
<1>5. ConnInv(c)
  BY InvOfEach
<1>6. /\ parts'[c] = 2 * handed[c] + (IF ctx'[c] = "body" THEN 1 ELSE 0)
                       + inBuf'[c] + unread'[c]
      /\ parts'[c] <= 2 * Len(sent[c]) /\ 2 * Len(sent[c]) <= parts'[c] + 1
  BY <1>1, <1>5 DEF ConnInv
<1> QED BY <1>1, <1>3, <1>4, <1>6, PartsMove

LEMMA ReadPartKeeps ==
    ASSUME IInv, NEW c \in Conns, ReadPart(c)
    PROVE  IInv'
<1>1. /\ ctx' = [ctx EXCEPT ![c] = "body"]
      /\ inBuf' = [inBuf EXCEPT ![c] = 0]
      /\ unread' = [unread EXCEPT ![c] = 0]
      /\ ctx[c] = "requestLine" /\ inBuf[c] + unread[c] = 1
      /\ UNCHANGED <<conn, sent, parts, handed, mail, tasks, work, wire>>
  BY DEF ReadPart, poolVars, clientVars, Available
<1>2. TypeOK
  BY DEF IInv
<1>3. /\ ctx'[c] = "body" /\ inBuf'[c] = 0 /\ unread'[c] = 0
      /\ OthersSame(c)
  BY <1>1, <1>2 DEF TypeOK, OthersSame
<1>4. TypeOK'
  <2>1. 0 \in 0..(2 * MaxRequests)
    BY <1>2, Typing
  <2>2. /\ inBuf' \in [Conns -> 0..(2 * MaxRequests)]
        /\ unread' \in [Conns -> 0..(2 * MaxRequests)]
        /\ ctx' \in [Conns -> {"requestLine", "body"}]
    BY <1>1, <1>2, <2>1 DEF TypeOK
  <2> QED BY <1>1, <1>2, <2>2 DEF TypeOK
<1>5. PICK h \in Nat, l \in Nat, p \in Nat, i \in Nat, u \in Nat, b \in {0, 1} :
        /\ h = handed[c] /\ l = Len(sent[c]) /\ p = parts[c]
        /\ i = inBuf[c] /\ u = unread[c]
        /\ b = (IF ctx[c] = "body" THEN 1 ELSE 0)
        /\ p = 2 * h + b + i + u /\ p <= 2 * l /\ 2 * l <= p + 1
        /\ l <= MaxRequests
  BY Counts
<1>6. p = 2 * h + 1 + 0 + 0
  <2>1. b = 0 /\ i + u = 1
    BY <1>1, <1>5
  <2>2. p = 2 * h + b + i + u
    BY <1>5
  <2> QED BY <2>1, <2>2
<1>7. /\ parts'[c] = 2 * handed[c] + (IF ctx'[c] = "body" THEN 1 ELSE 0)
                       + inBuf'[c] + unread'[c]
      /\ parts'[c] <= 2 * Len(sent[c]) /\ 2 * Len(sent[c]) <= parts'[c] + 1
  BY <1>1, <1>3, <1>5, <1>6
<1> QED BY <1>1, <1>3, <1>4, <1>7, PartsMove

-----------------------------------------------------------------------------
(* The loop sends                                                           *)

\* What the calls of a handler do.
LEMMA PerformDoes ==
    ASSUME IInv, NEW c \in Conns, NEW r \in Requests, NEW ops \in Seq(Ops),
           Perform(c, r, ops), conn[c] = "connected" => InItself(ops)
    PROVE  /\ conn' \in [Conns -> {"connected", "disconnecting", "disconnected"}]
           /\ wire' \in [Conns -> Seq(Handled)]
           /\ \A d \in Conns \ {c} : conn'[d] = conn[d] /\ wire'[d] = wire[d]
           /\ conn[c] = "connected" =>
                 /\ wire'[c] = Append(wire[c], Frames(r, ops))
                 /\ conn'[c] = IF Closes(ops) THEN "disconnecting" ELSE "connected"
           /\ conn[c] # "connected" => wire'[c] = wire[c] /\ conn'[c] = conn[c]
           /\ conn'[c] = "connected" => NoneCloses(wire'[c])
           /\ \A q : Complete(c, q) => Complete(c, q)'
           /\ conn[c] = "connected" /\ Ends(ops) => Complete(c, r)'
<1>1. ConnInv(c) /\ TypeOK
  BY InvOfEach DEF IInv
<1>2. /\ conn \in [Conns -> {"connected", "disconnecting", "disconnected"}]
      /\ wire \in [Conns -> Seq(Handled)] /\ wire[c] \in Seq(Handled)
  BY <1>1 DEF TypeOK
<1>3. CASE conn[c] # "connected"
  <2>1. conn' = conn /\ wire' = wire
    BY <1>3 DEF Perform
  <2> QED BY <1>2, <1>3, <2>1, CompleteOnWire
<1>4. CASE conn[c] = "connected"
  <2>1. PICK x \in Handled : x = Frames(r, ops) /\ x.req = r /\ x.ops = ops
    BY FramesType
  <2>2. PICK f \in Seq(Handled) : f = wire[c]
    BY <1>2
  <2>3. PICK e \in Seq(Handled) : e = Append(f, x)
    BY AppendProperties
  <2>4. /\ Len(e) = Len(f) + 1 /\ e[Len(f) + 1] = x /\ Len(f) \in Nat
        /\ \A i \in 1..Len(f) : e[i] = f[i]
    BY <2>3, AppendProperties, LenProperties
  <2>5. /\ wire' = [wire EXCEPT ![c] = e]
        /\ conn' = [conn EXCEPT ![c] =
                      IF Closes(ops) THEN "disconnecting" ELSE "connected"]
    <3>1. Performed(ops) = ops
      BY <1>4, AllIsPerformed
    <3> QED BY <1>4, <2>1, <2>2, <2>3, <3>1 DEF Perform
  <2>6. /\ wire' \in [Conns -> Seq(Handled)] /\ wire'[c] = e
        /\ conn' \in [Conns -> {"connected", "disconnecting", "disconnected"}]
        /\ \A d \in Conns \ {c} : conn'[d] = conn[d] /\ wire'[d] = wire[d]
        /\ conn'[c] = IF Closes(ops) THEN "disconnecting" ELSE "connected"
    BY <1>2, <2>5
  <2>7. \A q : Done(f, q) => Done(e, q)
    <3> SUFFICES ASSUME NEW q, Done(f, q) PROVE Done(e, q)
      OBVIOUS
    <3>1. PICK i \in 1..Len(f) : f[i].req = q /\ Ends(f[i].ops)
      BY DEF Done
    <3>2. i \in 1..Len(e) /\ e[i] = f[i]
      BY <2>4, <3>1
    <3> QED BY <3>1, <3>2 DEF Done
  <2>8. Ends(ops) => Done(e, r)
    <3>1. Len(f) + 1 \in 1..Len(e)
      BY <2>4
    <3> QED BY <2>1, <2>4, <3>1 DEF Done
  <2>9. ASSUME ~Closes(ops) PROVE NoneCloses(e)
    <3> SUFFICES ASSUME NEW i \in 1..Len(e) PROVE ~Closes(e[i].ops)
      BY DEF NoneCloses
    <3>1. CASE i = Len(f) + 1
      BY <2>1, <2>4, <2>9, <3>1
    <3>2. CASE i # Len(f) + 1
      <4>1. i \in 1..Len(f) /\ e[i] = f[i]
        BY <2>4, <3>2
      <4>2. NoneCloses(f)
        BY <1>1, <1>4, <2>2 DEF ConnInv, LineOK
      <4> QED BY <4>1, <4>2 DEF NoneCloses
    <3> QED BY <3>1, <3>2
  <2>10. /\ \A q : Complete(c, q) => Complete(c, q)'
         /\ Ends(ops) => Complete(c, r)'
    BY <2>2, <2>6, <2>7, <2>8, CompleteOnWire
  <2> QED BY <1>4, <2>1, <2>2, <2>3, <2>6, <2>9, <2>10
<1> QED BY <1>3, <1>4

\* The response that closes is the last one, and the others are complete: of a
\* client that waits the request is its latest.
LEMMA ClosesBehindAll ==
    ASSUME IInv, NEW c \in Conns, NEW r \in 1..Len(sent[c]), sent'[c] = sent[c],
           IsTheLast(sent[c][r]), Complete(c, r)',
           \A q : Complete(c, q) => Complete(c, q)',
           c \notin Pipelining =>
              /\ r = Len(sent[c])
              /\ handed'[c] \in {handed[c], handed[c] + 1}
              /\ r <= handed'[c] \/ (r = handed[c] + 1 /\ sent[c][r].kind = "bad")
              /\ mail'[c] = <<>>
              /\ \A q \in Requests : ~Pending(c, q)'
    PROVE  Answered(c)'
<1>1. \E q \in 1..Len(sent'[c]) : IsTheLast(sent[c][q])' /\ Complete(c, q)'
  <2>1. IsTheLast(sent[c][r])'
    BY DEF IsTheLast
  <2> QED BY <2>1
<1>2. ASSUME c \notin Pipelining, NEW q \in 1..Len(sent'[c])
      PROVE  /\ Complete(c, q)'
             /\ q <= handed'[c] \/ sent'[c][q].kind = "bad"
  <2>1. PICK n \in Nat, h \in Nat : n = Len(sent[c]) /\ h = handed[c]
    BY Typing, LenProperties DEF IInv
  <2>2. q \in 1..n /\ r = n
    BY <1>2, <2>1
  <2>3. CASE q = r
    BY <1>2, <2>1, <2>3
  <2>4. CASE q # r
    <3>1. q \in 1..(n - 1)
      BY <2>2, <2>4
    <3>2. Complete(c, q)
      BY <1>2, <2>1, <3>1 DEF IInv, ClientsWait
    <3>3. q <= handed'[c]
      <4>1. r <= handed'[c] \/ r = h + 1
        BY <1>2, <2>1
      <4>2. handed'[c] = h \/ handed'[c] = h + 1
        BY <1>2, <2>1
      <4> QED BY <2>2, <3>1, <4>1, <4>2
    <3> QED BY <3>2, <3>3
  <2> QED BY <2>3, <2>4
<1> QED BY <1>1, <1>2 DEF Answered

\* A client that waits is owed nothing but the response to its latest request.
LEMMA NothingElseIsOwed ==
    ASSUME IInv, NEW c \in Conns, c \notin Pipelining, conn[c] = "connected",
           NEW q \in Requests, Pending(c, q)
    PROVE  q = Len(sent[c]) /\ ~Done(Line(c), q) /\ q <= handed[c]
<1>1. q = Len(sent[c])
  BY InTurn
<1>2. ~Done(Line(c), q)
  BY DEF IInv, LinesHold, LineOK, Owed
<1> QED BY <1>1, <1>2 DEF IInv, PendingIsHanded

\* A reply that onMessage sends itself, ahead of what is queued.
LEMMA ReplyFits ==
    ASSUME IInv, NEW c \in Conns, Readable(c), NEW ops \in Seq(Ops),
           InItself(ops), Starts(ops), Ends(ops),
           Closes(ops) <=> IsTheLast(sent[c][handed[c] + 1]),
           Perform(c, handed[c] + 1, ops), mail' = mail, sent' = sent
    PROVE  /\ handed[c] + 1 \in Requests
           /\ WellFormed(wire'[c])
           /\ c \in Pipelining \/ OneByOne(wire'[c])
           /\ conn'[c] = "connected" =>
                 /\ WellFormed(Line(c)')
                 /\ Marked(Line(c)', sent'[c])
                 /\ \A q : Has(Line(c)', q) <=> Has(Line(c), q) \/ q = handed[c] + 1
                 /\ \A q : Done(Line(c)', q) <=> Done(Line(c), q) \/ q = handed[c] + 1
                 /\ c \notin Pipelining => OneByOne(Line(c)') /\ Ascending(Line(c)')
<1> DEFINE r == handed[c] + 1
<1>1. r \in Requests
  <2>1. /\ Len(sent[c]) \in 0..MaxRequests /\ MaxRequests \in Nat
        /\ r \in 1..Len(sent[c])
    BY HandedWasSent, Typing DEF IInv
  <2> HIDE DEF r
  <2> QED BY <2>1 DEF Requests
<1>2. ConnInv(c) /\ TypeOK
  BY InvOfEach DEF IInv
<1>3. CASE conn[c] # "connected"
  <2>1. wire'[c] = wire[c] /\ conn'[c] # "connected"
    BY <1>1, <1>3, PerformDoes
  <2> QED BY <1>1, <1>2, <2>1 DEF ConnInv
<1>4. CASE conn[c] = "connected"
  <2>1. PICK x \in Handled : x = Frames(r, ops) /\ x.req = r /\ x.ops = ops
    BY <1>1, FramesType
  <2>2. wire'[c] = Append(wire[c], x)
    BY <1>1, <1>4, <2>1, PerformDoes
  <2>3. PICK f \in Seq(Handled), g \in Seq(Handled) : f = wire[c] /\ g = mail[c]
    BY <1>2, Typing
  <2>4. LineOK(c) /\ Line(c) = f \o g
    BY <1>2, <1>4, <2>3 DEF ConnInv, Line
  <2>5. ~Has(f \o g, r) /\ WellFormed(f \o g) /\ f \o g \in Seq(Handled)
    <3>1. handed[c] \in Nat
      BY <1>2, Typing
    <3>2. ~(r <= handed[c])
      BY <3>1
    <3> HIDE DEF r
    <3> QED BY <1>1, <2>4, <3>2, ConcatProperties DEF LineOK
  <2>6. Line(c)' = Append(f, x) \o g /\ wire'[c] = Append(f, x)
    BY <2>2, <2>3 DEF Line
  <2>7. /\ WellFormed(Append(f, x) \o g)
        /\ \A q : Has(Append(f, x) \o g, q) <=> Has(f \o g, q) \/ q = r
        /\ \A q : Done(Append(f, x) \o g, q) <=> Done(f \o g, q) \/ q = r
        /\ Marked(Append(f, x) \o g, sent[c])
    <3>1. WellFormed(Append(f, x) \o g)
      BY <2>1, <2>5, FirstFrameFits
    <3>2. /\ \A q : Has(Append(f, x) \o g, q) <=> Has(f \o g, q) \/ q = x.req
          /\ \A q : Done(Append(f, x) \o g, q) <=>
                       Done(f \o g, q) \/ (q = x.req /\ Ends(x.ops))
          /\ \A s : /\ Marked(f \o g, s)
                    /\ Closes(x.ops) <=> Ends(x.ops) /\ IsTheLast(s[x.req])
                    => Marked(Append(f, x) \o g, s)
      BY FrameIsAdded
    <3>3. /\ Ends(x.ops) /\ x.req = r
          /\ Closes(x.ops) <=> Ends(x.ops) /\ IsTheLast(sent[c][x.req])
      BY <2>1
    <3>4. Marked(f \o g, sent[c])
      BY <2>4 DEF LineOK
    <3> QED BY <3>1, <3>2, <3>3, <3>4
  <2>8. Append(f, x) \in Seq(Handled)
    BY AppendProperties
  <2>9. WellFormed(Append(f, x))
    BY <2>7, <2>8, WireIsPrefix
  <2>10. ASSUME c \notin Pipelining
         PROVE  /\ OneByOne(Append(f, x)) /\ OneByOne(Append(f, x) \o g)
                /\ Ascending(Append(f, x) \o g)
    <3>1. g = <<>>
      BY <1>4, <2>3, <2>10, NoBacklog
    <3>2. f \o g = f /\ Append(f, x) \o g = Append(f, x)
      BY <2>8, <3>1, ConcatEmptySeq
    <3>3. WellFormed(f) /\ OneByOne(f) /\ Ascending(f)
      BY <2>4, <2>10, <3>2 DEF LineOK
    <3>4. /\ \A q \in Requests : Has(f, q) => q <= r
          /\ r = 1 \/ Done(f, r - 1)
      BY <1>1, <1>4, <2>4, <2>10, <3>2, InTurn
    <3>5. ASSUME NEW i \in 1..Len(f) PROVE f[i].req <= r
      <4>1. f[i] \in Handled
        BY ElementOfSeq
      <4>2. f[i].req \in Requests /\ Has(f, f[i].req)
        BY <4>1 DEF Handled, Has
      <4> QED BY <3>4, <4>2
    <3> HIDE DEF r
    <3>6. OneByOne(Append(f, x)) /\ Ascending(Append(f, x))
      BY <2>1, <3>3, <3>4, <3>5, NextFrameIsInOrder
    <3> QED BY <3>2, <3>6
  <2> HIDE DEF r
  <2>11. /\ WellFormed(wire'[c])
         /\ c \in Pipelining \/ OneByOne(wire'[c])
    BY <2>6, <2>9, <2>10
  <2>12. /\ WellFormed(Line(c)')
         /\ \A q : Has(Line(c)', q) <=> Has(Line(c), q) \/ q = r
         /\ \A q : Done(Line(c)', q) <=> Done(Line(c), q) \/ q = r
         /\ Marked(Line(c)', sent'[c])
         /\ c \notin Pipelining => OneByOne(Line(c)') /\ Ascending(Line(c)')
    BY <2>4, <2>6, <2>7, <2>10
  <2> QED BY <1>1, <2>11, <2>12 DEF r
<1> QED BY <1>3, <1>4

\* ... and when it closes the connection, the client is owed nothing.
LEMMA ReplyAnswers ==
    ASSUME IInv, NEW c \in Conns, Readable(c), NEW ops \in Seq(Ops),
           InItself(ops), Ends(ops),
           Closes(ops) <=> IsTheLast(sent[c][handed[c] + 1]),
           Perform(c, handed[c] + 1, ops), mail' = mail, sent' = sent,
           UNCHANGED <<tasks, work>>,
           \/ handed'[c] = handed[c] + 1
           \/ handed'[c] = handed[c] /\ sent[c][handed[c] + 1].kind = "bad"
    PROVE  Answered(c)'
<1>1. PICK h \in Nat, r \in Nat : h = handed[c] /\ r = handed[c] + 1
  BY Typing DEF IInv
<1>2. r \in 1..Len(sent[c]) /\ r \in Requests /\ Len(sent[c]) \in Nat /\ r = h + 1
  <2>1. /\ Len(sent[c]) \in 0..MaxRequests /\ MaxRequests \in Nat
        /\ r \in 1..Len(sent[c])
    BY <1>1, HandedWasSent, Typing DEF IInv
  <2> QED BY <1>1, <2>1 DEF Requests
<1>3. \A q \in Requests : Pending(c, q)' <=> Pending(c, q)
  BY DEF Pending, Queues, Serves
<1>4. Perform(c, r, ops)
  BY <1>1
<1>5. CASE conn[c] # "connected"
  <2>1. wire'[c] = wire[c] /\ conn'[c] = conn[c]
    BY <1>2, <1>4, <1>5, PerformDoes
  <2> QED BY <1>3, <2>1, StaysAnswered
<1>6. CASE conn[c] = "connected" /\ ~Closes(ops)
  <2>1. conn'[c] = "connected"
    BY <1>2, <1>4, <1>6, PerformDoes
  <2> QED BY <2>1 DEF Answered
<1>7. CASE conn[c] = "connected" /\ Closes(ops)
  <2>1. /\ Complete(c, r)'
        /\ \A q : Complete(c, q) => Complete(c, q)'
    BY <1>2, <1>4, <1>7, PerformDoes
  <2>2. IsTheLast(sent[c][r])
    BY <1>1, <1>7
  <2>3. ASSUME c \notin Pipelining
        PROVE  /\ r = Len(sent[c])
               /\ handed'[c] \in {handed[c], handed[c] + 1}
               /\ r <= handed'[c] \/ (r = handed[c] + 1 /\ sent[c][r].kind = "bad")
               /\ mail'[c] = <<>>
               /\ \A q \in Requests : ~Pending(c, q)'
    <3>1. r = Len(sent[c])
      BY <1>1, <1>2, <1>7, <2>3, InTurn
    <3>2. mail'[c] = <<>>
      BY <1>7, <2>3, NoBacklog
    <3>3. ASSUME NEW q \in Requests, Pending(c, q) PROVE FALSE
      <4>1. q = r /\ q <= h
        BY <1>1, <1>7, <2>3, <3>1, <3>3, NothingElseIsOwed
      <4> QED BY <1>2, <4>1
    <3>4. r <= handed'[c] \/ (r = handed[c] + 1 /\ sent[c][r].kind = "bad")
      BY <1>1
    <3> QED BY <1>3, <3>1, <3>2, <3>3, <3>4
  <2> QED BY <1>2, <2>1, <2>2, <2>3, ClosesBehindAll
<1> QED BY <1>5, <1>6, <1>7

LEMMA ReadBadKeeps ==
    ASSUME IInv, NEW c \in Conns, ReadBad(c)
    PROVE  IInv'
<1>1. /\ inBuf' = [inBuf EXCEPT ![c] = inBuf[c] + unread[c]]
      /\ unread' = [unread EXCEPT ![c] = 0]
      /\ Perform(c, handed[c] + 1, SendResponse(TRUE)) /\ Readable(c)
      /\ sent[c][handed[c] + 1].kind = "bad"
      /\ UNCHANGED <<sent, parts, ctx, handed, mail, tasks, work>>
  BY DEF ReadBad, poolVars, clientVars, Available, NextRequest
<1>2. TypeOK /\ ConnInv(c)
  BY InvOfEach DEF IInv
<1>3. PICK ops \in Seq(Ops) : /\ ops = SendResponse(TRUE) /\ InItself(ops)
                              /\ Starts(ops) /\ Ends(ops) /\ Closes(ops)
  BY ReplyShape
<1>4. Closes(ops) <=> IsTheLast(sent[c][handed[c] + 1])
  BY <1>1, <1>3 DEF IsTheLast
<1>5. /\ handed[c] + 1 \in Requests
      /\ WellFormed(wire'[c]) /\ (c \in Pipelining \/ OneByOne(wire'[c]))
  BY <1>1, <1>3, <1>4, ReplyFits
<1>6. /\ conn' \in [Conns -> {"connected", "disconnecting", "disconnected"}]
      /\ wire' \in [Conns -> Seq(Handled)]
      /\ \A d \in Conns \ {c} : conn'[d] = conn[d] /\ wire'[d] = wire[d]
      /\ \A q : Complete(c, q) => Complete(c, q)'
      /\ conn'[c] # "connected"
  BY <1>1, <1>3, <1>5, PerformDoes
<1>7. Answered(c)'
  BY <1>1, <1>3, <1>4, ReplyAnswers
<1>8. /\ inBuf'[c] = inBuf[c] + unread[c] /\ unread'[c] = 0
      /\ OthersSame(c)
  BY <1>1, <1>2, <1>6 DEF TypeOK, OthersSame
<1>9. PICK h \in Nat, l \in Nat, p \in Nat, i \in Nat, u \in Nat, b \in {0, 1} :
        /\ h = handed[c] /\ l = Len(sent[c]) /\ p = parts[c]
        /\ i = inBuf[c] /\ u = unread[c]
        /\ b = (IF ctx[c] = "body" THEN 1 ELSE 0)
        /\ p = 2 * h + b + i + u /\ p <= 2 * l /\ 2 * l <= p + 1
        /\ l <= MaxRequests
  BY Counts
<1>10. /\ i + u \in Nat /\ 0 \in Nat /\ MaxRequests \in Nat
      /\ p = 2 * h + b + (i + u) + 0 /\ p <= 2 * l /\ l <= MaxRequests
  <2>1. MaxRequests \in Nat
    BY <1>2, Typing
  <2>2. p = 2 * h + b + i + u /\ p <= 2 * l /\ l <= MaxRequests
    BY <1>9
  <2> QED BY <2>1, <2>2
<1>11. i + u \in 0..(2 * MaxRequests) /\ 0 \in 0..(2 * MaxRequests)
  BY <1>10, PartsFit
<1>12. TypeOK'
  <2>1. /\ inBuf' \in [Conns -> 0..(2 * MaxRequests)]
        /\ unread' \in [Conns -> 0..(2 * MaxRequests)]
    BY <1>1, <1>2, <1>9, <1>11 DEF TypeOK
  <2> QED BY <1>1, <1>2, <1>6, <2>1 DEF TypeOK
<1>13. \A d \in Conns, r \in Requests : Pending(d, r)' <=> Pending(d, r)
  BY <1>1 DEF Pending, Queues, Serves
<1>14. HeldOnce'
  BY <1>1 DEF IInv, HeldOnce, Queues, Serves
<1>15. ConnInv(c)'
  <2>1. /\ parts'[c] = 2 * handed'[c] + (IF ctx'[c] = "body" THEN 1 ELSE 0)
                         + inBuf'[c] + unread'[c]
        /\ parts'[c] <= 2 * Len(sent'[c])
        /\ 2 * Len(sent'[c]) <= parts'[c] + 1
        /\ Len(sent'[c]) <= MaxRequests
    BY <1>1, <1>8, <1>9, <1>10
  <2>2. \A r \in Requests :
           Pending(c, r)' => r <= handed'[c] /\ sent'[c][r].kind \in Proxied
    BY <1>1, <1>2, <1>13 DEF ConnInv
  <2>3. c \notin Pipelining => \A r \in 1..(Len(sent'[c]) - 1) : Complete(c, r)'
    BY <1>1, <1>2, <1>6 DEF ConnInv
  <2> QED BY <1>5, <1>6, <1>7, <2>1, <2>2, <2>3, ConnFrom
<1>16. \A d \in Conns : ConnInv(d)'
  BY <1>8, <1>13, <1>15, OthersStay
<1> QED BY <1>12, <1>14, <1>16, InvFromEach

\* What the parser does to the counts when it hands a request over.
LEMMA ParserMovesOn ==
    ASSUME IInv, NEW c \in Conns, ReadRequest(c)
    PROVE  /\ inBuf' \in [Conns -> 0..(2 * MaxRequests)]
           /\ unread' \in [Conns -> 0..(2 * MaxRequests)]
           /\ ctx' \in [Conns -> {"requestLine", "body"}]
           /\ handed' \in [Conns -> 0..MaxRequests]
           /\ handed'[c] = handed[c] + 1 /\ handed[c] \in Nat
           /\ handed[c] + 1 \in Requests
           /\ handed[c] + 1 \in 1..Len(sent[c])
           /\ parts' = parts /\ sent' = sent /\ work' = work
           /\ parts[c] = 2 * handed'[c] + (IF ctx'[c] = "body" THEN 1 ELSE 0)
                           + inBuf'[c] + unread'[c]
           /\ \A d \in Conns \ {c} :
                 /\ inBuf'[d] = inBuf[d] /\ unread'[d] = unread[d]
                 /\ ctx'[d] = ctx[d] /\ handed'[d] = handed[d]
<1>1. /\ inBuf' = [inBuf EXCEPT ![c] = Leftover(c)]
      /\ unread' = [unread EXCEPT ![c] = 0]
      /\ ctx' = [ctx EXCEPT ![c] = "requestLine"]
      /\ handed' = [handed EXCEPT ![c] = @ + 1]
      /\ Readable(c) /\ Available(c) >= Needed(c)
      /\ UNCHANGED <<sent, parts, work>>
  BY DEF ReadRequest, clientVars
<1>2. TypeOK
  BY DEF IInv
<1>3. PICK h \in Nat, l \in Nat, p \in Nat, i \in Nat, u \in Nat, b \in {0, 1} :
        /\ h = handed[c] /\ l = Len(sent[c]) /\ p = parts[c]
        /\ i = inBuf[c] /\ u = unread[c]
        /\ b = (IF ctx[c] = "body" THEN 1 ELSE 0)
        /\ p = 2 * h + b + i + u /\ p <= 2 * l /\ 2 * l <= p + 1
        /\ l <= MaxRequests
  BY Counts
<1>4. Needed(c) = 2 - b /\ Available(c) = i + u
  BY <1>3 DEF Needed, Available
<1>5. PICK k \in Nat : k = Leftover(c) /\ k = i + u - (2 - b)
  BY <1>1, <1>4 DEF Leftover
<1>6. /\ h + 1 \in Nat /\ 0 \in {0, 1} /\ 0 \in Nat /\ MaxRequests \in Nat
      /\ p = 2 * (h + 1) + 0 + k + 0 /\ p <= 2 * l /\ l <= MaxRequests
  <2>1. MaxRequests \in Nat
    BY <1>2, Typing
  <2>2. p = 2 * h + b + i + u /\ p <= 2 * l /\ l <= MaxRequests
    BY <1>3
  <2> QED BY <1>5, <2>1, <2>2
<1>7. /\ k \in 0..(2 * MaxRequests) /\ 0 \in 0..(2 * MaxRequests)
      /\ h + 1 \in 0..MaxRequests /\ h + 1 <= l
  BY <1>6, PartsFit
<1>8. /\ inBuf'[c] = k /\ unread'[c] = 0 /\ ctx'[c] = "requestLine"
      /\ handed'[c] = h + 1
  BY <1>1, <1>2, <1>3, <1>5 DEF TypeOK
<1>9. /\ inBuf' \in [Conns -> 0..(2 * MaxRequests)]
      /\ unread' \in [Conns -> 0..(2 * MaxRequests)]
      /\ ctx' \in [Conns -> {"requestLine", "body"}]
      /\ handed' \in [Conns -> 0..MaxRequests]
  BY <1>1, <1>2, <1>3, <1>5, <1>7 DEF TypeOK
<1>10. /\ h + 1 \in 1..l /\ h + 1 \in Requests
  BY <1>6, <1>7 DEF Requests
<1>11. \A d \in Conns \ {c} :
          /\ inBuf'[d] = inBuf[d] /\ unread'[d] = unread[d]
          /\ ctx'[d] = ctx[d] /\ handed'[d] = handed[d]
  BY <1>1, <1>2 DEF TypeOK
<1> QED BY <1>1, <1>3, <1>6, <1>8, <1>9, <1>10, <1>11

\* A functor that is queued for c carries the next frame of its line.
LEMMA QueuedDoes ==
    ASSUME IInv, NEW c \in Conns, NEW r \in Requests, NEW ops \in Seq(Ops),
           mail' = Queued(mail, c, r, ops), wire' = wire
    PROVE  /\ mail' \in [Conns -> Seq(Handled)]
           /\ \A d \in Conns \ {c} : mail'[d] = mail[d]
           /\ Line(c)' = Append(Line(c), Frames(r, ops))
<1>1. TypeOK
  BY DEF IInv
<1>2. wire[c] \in Seq(Handled) /\ mail[c] \in Seq(Handled)
  BY <1>1, Typing
<1>3. PICK x \in Handled : x = Frames(r, ops)
  BY FramesType
<1>4. Append(mail[c], x) \in Seq(Handled)
  BY <1>2, AppendProperties
<1>5. mail' = [mail EXCEPT ![c] = Append(mail[c], x)]
  BY <1>3 DEF Queued
<1>6. mail \in [Conns -> Seq(Handled)]
  BY <1>1 DEF TypeOK
<1>7. /\ mail' \in [Conns -> Seq(Handled)] /\ mail'[c] = Append(mail[c], x)
      /\ \A d \in Conns \ {c} : mail'[d] = mail[d]
  BY <1>4, <1>5, <1>6
<1>8. wire[c] \o Append(mail[c], x) = Append(wire[c] \o mail[c], x)
  BY <1>2, BehindTheLine
<1> QED BY <1>3, <1>7, <1>8 DEF Line

LEMMA QueuedFits ==
    ASSUME IInv, NEW c \in Conns, NEW r \in Requests, NEW ops \in Seq(Ops),
           mail' = Queued(mail, c, r, ops), wire' = wire, conn[c] = "connected",
           InItself(ops), Closes(ops) <=> Ends(ops) /\ IsTheLast(sent[c][r]),
           Pending(c, r) \/ (Readable(c) /\ r = handed[c] + 1),
           \/ ~Has(Line(c), r) /\ Starts(ops)
           \/ Has(Line(c), r) /\ ~Done(Line(c), r) /\ ~Starts(ops)
    PROVE  /\ WellFormed(Line(c)')
           /\ Marked(Line(c)', sent[c])
           /\ \A q : Has(Line(c)', q) <=> Has(Line(c), q) \/ q = r
           /\ \A q : Done(Line(c)', q) <=> Done(Line(c), q) \/ (q = r /\ Ends(ops))
           /\ c \notin Pipelining => OneByOne(Line(c)') /\ Ascending(Line(c)')
<1>1. PICK x \in Handled : x = Frames(r, ops) /\ x.req = r /\ x.ops = ops
  BY FramesType
<1>2. PICK k \in Seq(Handled) : k = Line(c)
  BY Typing DEF IInv
<1>3. Line(c)' = Append(k, x)
  BY <1>1, <1>2, QueuedDoes
<1>4. LineOK(c)
  BY DEF IInv, LinesHold
<1>5. /\ WellFormed(Append(k, x))
      /\ \A q : Has(Append(k, x), q) <=> Has(k, q) \/ q = x.req
      /\ \A q : Done(Append(k, x), q) <=> Done(k, q) \/ (q = x.req /\ Ends(x.ops))
      /\ Marked(Append(k, x), sent[c])
  <2>1. WellFormed(k) /\ Marked(k, sent[c]) /\ InItself(x.ops)
    BY <1>1, <1>2, <1>4 DEF LineOK
  <2>2. \/ ~Has(k, x.req) /\ Starts(x.ops)
        \/ Has(k, x.req) /\ ~Done(k, x.req) /\ ~Starts(x.ops)
    BY <1>1, <1>2
  <2>3. Closes(x.ops) <=> Ends(x.ops) /\ IsTheLast(sent[c][x.req])
    BY <1>1
  <2>4. /\ WellFormed(Append(k, x))
        /\ \A q : Has(Append(k, x), q) <=> Has(k, q) \/ q = x.req
        /\ \A q : Done(Append(k, x), q) <=> Done(k, q) \/ (q = x.req /\ Ends(x.ops))
        /\ \A s : /\ Marked(k, s)
                  /\ Closes(x.ops) <=> Ends(x.ops) /\ IsTheLast(s[x.req])
                  => Marked(Append(k, x), s)
    BY <2>1, <2>2, LineGrows
  <2> QED BY <2>1, <2>3, <2>4
<1>6. ASSUME c \notin Pipelining
      PROVE  OneByOne(Append(k, x)) /\ Ascending(Append(k, x))
  <2>1. WellFormed(k) /\ OneByOne(k) /\ Ascending(k)
    BY <1>2, <1>4, <1>6 DEF LineOK
  <2>2. /\ \A q \in Requests : Has(k, q) => q <= r
        /\ r = 1 \/ Done(k, r - 1)
    BY <1>2, <1>6, InTurn
  <2>3. ASSUME NEW i \in 1..Len(k) PROVE k[i].req <= r
    <3>1. k[i] \in Handled
      BY ElementOfSeq
    <3>2. k[i].req \in Requests /\ Has(k, k[i].req)
      BY <3>1 DEF Handled, Has
    <3> QED BY <2>2, <3>2
  <2> QED BY <1>1, <2>1, <2>2, <2>3, NextFrameIsInOrder
<1> QED BY <1>1, <1>2, <1>3, <1>5, <1>6

-----------------------------------------------------------------------------
(* The parser hands a request over                                          *)

\* A request that is about to be handed over: nobody holds or has answered it.
LEMMA NewRequest ==
    ASSUME IInv, NEW c \in Conns, ReadRequest(c)
    PROVE  /\ ~Pending(c, handed[c] + 1)
           /\ conn[c] = "connected" => ~Has(Line(c), handed[c] + 1)
           /\ \A q \in Requests : Pending(c, q) => q # handed[c] + 1
           /\ sent[c][handed[c] + 1].kind \in {"reply", "refused"} \cup Proxied
<1>1. handed[c] \in Nat /\ handed[c] + 1 \in Requests
      /\ handed[c] + 1 \in 1..Len(sent[c])
  BY ParserMovesOn
<1>2. ~(handed[c] + 1 <= handed[c])
  BY <1>1
<1>3. PICK r \in Requests : r = handed[c] + 1 /\ r \in 1..Len(sent[c])
  BY <1>1
<1>4. ~Pending(c, r)
  BY <1>2, <1>3 DEF IInv, PendingIsHanded
<1>5. conn[c] = "connected" => ~Has(Line(c), r)
  BY <1>2, <1>3 DEF IInv, LinesHold, LineOK
<1>6. sent[c][r] \in Asked
  BY <1>3, Typing, ElementOfSeq DEF IInv
<1>7. sent[c][r].kind # "bad"
  BY <1>3 DEF ReadRequest, NextRequest
<1> QED BY <1>3, <1>4, <1>5, <1>6, <1>7 DEF Asked, Kinds, Proxied

\* Behind shutdown() no request of a client that waits is handed over.
LEMMA NoneHandedOver ==
    ASSUME IInv, NEW c \in Conns, ReadRequest(c), conn[c] = "disconnecting"
    PROVE  c \in Pipelining
<1>1. PICK r \in 1..Len(sent[c]) : r = handed[c] + 1
  BY ParserMovesOn
<1>2. sent[c][r].kind # "bad"
  BY <1>1 DEF ReadRequest, NextRequest
<1>3. ~(r <= handed[c])
  BY <1>1, ParserMovesOn
<1> QED BY <1>2, <1>3 DEF IInv, AllAnswered, Answered

\* The parts of ConnInv(c)' that do not depend on what the request asks for.
LEMMA HandedOver ==
    ASSUME IInv, NEW c \in Conns, ReadRequest(c),
           \A q : Complete(c, q) => Complete(c, q)',
           WellFormed(wire'[c]), c \in Pipelining \/ OneByOne(wire'[c]),
           Answered(c)',
           conn'[c] = "connected" => LineOK(c)',
           \A q \in Requests : Pending(c, q)' =>
              \/ Pending(c, q)
              \/ q = handed[c] + 1 /\ sent[c][q].kind \in Proxied
    PROVE  ConnInv(c)'
<1>1. ConnInv(c)
  BY InvOfEach
<1>2. PICK h \in Nat : h = handed[c] /\ handed'[c] = h + 1
  BY ParserMovesOn
<1>3. /\ parts' = parts /\ sent' = sent
      /\ parts[c] = 2 * handed'[c] + (IF ctx'[c] = "body" THEN 1 ELSE 0)
                      + inBuf'[c] + unread'[c]
  BY ParserMovesOn
<1>4. ASSUME NEW q \in Requests, Pending(c, q)'
      PROVE  q <= handed'[c] /\ sent'[c][q].kind \in Proxied
  <2>1. CASE Pending(c, q)
    <3>1. q <= h /\ sent[c][q].kind \in Proxied
      BY <1>1, <1>2, <2>1 DEF ConnInv
    <3>2. q <= h + 1
      BY <3>1 DEF Requests
    <3> QED BY <1>2, <1>3, <3>1, <3>2
  <2>2. CASE q = h + 1 /\ sent[c][q].kind \in Proxied
    BY <1>2, <1>3, <2>2
  <2> QED BY <1>2, <1>4, <2>1, <2>2
<1>5. c \notin Pipelining => \A r \in 1..(Len(sent'[c]) - 1) : Complete(c, r)'
  BY <1>1, <1>3 DEF ConnInv
<1>6. /\ parts'[c] = 2 * handed'[c] + (IF ctx'[c] = "body" THEN 1 ELSE 0)
                       + inBuf'[c] + unread'[c]
      /\ parts'[c] <= 2 * Len(sent'[c])
      /\ 2 * Len(sent'[c]) <= parts'[c] + 1
      /\ Len(sent'[c]) <= MaxRequests
  BY <1>1, <1>3 DEF ConnInv
<1> QED BY <1>4, <1>5, <1>6, ConnFrom

LEMMA ReadReplyKeeps ==
    ASSUME IInv, NEW c \in Conns, ReadRequest(c),
           NextRequest(c).kind \in {"reply", "refused"}
    PROVE  IInv'
<1> DEFINE r == handed[c] + 1
<1>1. PICK close \in BOOLEAN :
        /\ Perform(c, r, SendResponse(close)) /\ UNCHANGED <<mail, tasks>>
        /\ close <=> IsTheLast(sent[c][r])
  <2>1. sent[c][r] \in Asked
    BY ParserMovesOn, Typing, ElementOfSeq DEF IInv
  <2>2. NextRequest(c) = sent[c][r] /\ NextRequest(c).close \in BOOLEAN
    BY <2>1 DEF NextRequest, Asked
  <2>3. CASE NextRequest(c).kind = "reply"
    <3>1. Perform(c, r, SendResponse(NextRequest(c).close)) /\ UNCHANGED <<mail, tasks>>
      BY <2>3 DEF ReadRequest, HandleRequest
    <3> QED BY <2>2, <2>3, <3>1 DEF IsTheLast
  <2>4. CASE NextRequest(c).kind = "refused"
    <3>1. Perform(c, r, SendResponse(TRUE)) /\ UNCHANGED <<mail, tasks>>
      BY <2>4 DEF ReadRequest, HandleRequest
    <3> QED BY <2>2, <2>4, <3>1 DEF IsTheLast
  <2> QED BY <2>3, <2>4
<1>2. TypeOK /\ Readable(c)
  BY DEF IInv, ReadRequest
<1>3. PICK ops \in Seq(Ops) : /\ ops = SendResponse(close) /\ InItself(ops)
                              /\ Starts(ops) /\ Ends(ops)
                              /\ Closes(ops) <=> IsTheLast(sent[c][r])
  BY <1>1, ReplyShape
<1>4. /\ Perform(c, handed[c] + 1, ops)
      /\ Closes(ops) <=> IsTheLast(sent[c][handed[c] + 1])
      /\ mail' = mail /\ sent' = sent /\ UNCHANGED <<tasks, work>>
      /\ handed'[c] = handed[c] + 1 /\ r \in Requests
  BY <1>1, <1>3, ParserMovesOn
<1>5. /\ r \in Requests
      /\ WellFormed(wire'[c])
      /\ c \in Pipelining \/ OneByOne(wire'[c])
      /\ conn'[c] = "connected" =>
           /\ WellFormed(Line(c)')
           /\ Marked(Line(c)', sent'[c])
           /\ \A q : Has(Line(c)', q) <=> Has(Line(c), q) \/ q = r
           /\ \A q : Done(Line(c)', q) <=> Done(Line(c), q) \/ q = r
           /\ c \notin Pipelining => OneByOne(Line(c)') /\ Ascending(Line(c)')
  BY <1>2, <1>3, <1>4, ReplyFits
<1>6. /\ conn' \in [Conns -> {"connected", "disconnecting", "disconnected"}]
      /\ wire' \in [Conns -> Seq(Handled)]
      /\ \A d \in Conns \ {c} : conn'[d] = conn[d] /\ wire'[d] = wire[d]
      /\ conn'[c] = "connected" => conn[c] = "connected" /\ NoneCloses(wire'[c])
      /\ \A q : Complete(c, q) => Complete(c, q)'
  <2>1. /\ conn' \in [Conns -> {"connected", "disconnecting", "disconnected"}]
        /\ wire' \in [Conns -> Seq(Handled)]
        /\ \A d \in Conns \ {c} : conn'[d] = conn[d] /\ wire'[d] = wire[d]
        /\ conn[c] # "connected" => conn'[c] = conn[c]
        /\ conn'[c] = "connected" => NoneCloses(wire'[c])
        /\ \A q : Complete(c, q) => Complete(c, q)'
    BY <1>3, <1>4, PerformDoes
  <2> QED BY <2>1
<1>7. Answered(c)'
  BY <1>2, <1>3, <1>4, ReplyAnswers
<1>8. /\ handed'[c] = r /\ sent' = sent /\ work' = work /\ parts' = parts
      /\ handed[c] \in Nat
      /\ \A q \in Requests : Pending(c, q) => q # r
  BY ParserMovesOn, NewRequest
<1>9. OthersSame(c)
  BY <1>1, <1>6, ParserMovesOn DEF OthersSame
<1>10. TypeOK'
  BY <1>1, <1>2, <1>6, ParserMovesOn DEF TypeOK
<1>11. \A d \in Conns, q \in Requests : Pending(d, q)' <=> Pending(d, q)
  BY <1>1, <1>8 DEF Pending, Queues, Serves
<1>12. HeldOnce'
  BY <1>1, <1>8 DEF IInv, HeldOnce, Queues, Serves
<1>13. ASSUME conn'[c] = "connected" PROVE LineOK(c)'
  <2>1. LineOK(c)
    BY <1>6, <1>13 DEF IInv, LinesHold
  <2>2. \A q \in Requests : Has(Line(c)', q) => q <= handed'[c]
    <3> SUFFICES ASSUME NEW q \in Requests, Has(Line(c)', q) PROVE q <= handed'[c]
      OBVIOUS
    <3>1. q <= handed[c] \/ q = r
      BY <1>5, <1>13, <2>1 DEF LineOK
    <3>2. q \in Nat
      BY <1>2, Typing DEF Requests
    <3> QED BY <1>8, <3>1, <3>2
  <2>3. ASSUME NEW q \in Requests, Pending(c, q)'
        PROVE  /\ Has(Line(c)', q) <=> sent'[c][q].kind # "json"
               /\ ~Done(Line(c)', q)
    <3>1. Pending(c, q) /\ q # r
      BY <1>8, <1>11, <2>3
    <3> HIDE DEF r
    <3> QED BY <1>5, <1>8, <1>13, <2>1, <3>1 DEF LineOK, Owed
  <2> QED BY <1>5, <1>6, <1>13, <2>2, <2>3, LineFrom
<1>14. ConnInv(c)'
  BY <1>5, <1>6, <1>7, <1>11, <1>13, HandedOver
<1>15. \A d \in Conns : ConnInv(d)'
  BY <1>9, <1>11, <1>14, OthersStay
<1> QED BY <1>10, <1>12, <1>15, InvFromEach

LEMMA ReadJsonKeeps ==
    ASSUME IInv, NEW c \in Conns, ReadRequest(c), NextRequest(c).kind = "json"
    PROVE  IInv'
<1> DEFINE r == handed[c] + 1
<1>1. /\ tasks' = Append(tasks, <<c, r>>)
      /\ UNCHANGED <<mail, wire, conn>> /\ Readable(c)
      /\ sent[c][r].kind = "json"
  BY DEF ReadRequest, HandleRequest, NextRequest
<1>2. TypeOK /\ HeldOnce /\ ConnInv(c)
  BY InvOfEach DEF IInv
<1>3. /\ handed'[c] = r /\ sent' = sent /\ work' = work /\ parts' = parts
      /\ handed[c] \in Nat /\ r \in Requests
      /\ ~Pending(c, r)
      /\ conn[c] = "connected" => ~Has(Line(c), r)
  BY ParserMovesOn, NewRequest
<1> HIDE DEF r
<1>4. /\ tasks' \in Seq(Conns \X Requests)
      /\ HeldOnce'
      /\ \A d \in Conns, q \in Requests :
            Pending(d, q)' <=> Pending(d, q) \/ (d = c /\ q = r)
  BY <1>1, <1>2, <1>3, TasksGrow
<1>5. OthersSame(c)
  BY <1>1, <1>3, ParserMovesOn DEF OthersSame
<1>6. TypeOK'
  BY <1>1, <1>2, <1>4, ParserMovesOn DEF TypeOK
<1>7. Line(c)' = Line(c) /\ \A q : Complete(c, q)' <=> Complete(c, q)
  BY <1>1, CompleteOnWire DEF Line
<1>8. ASSUME conn'[c] = "connected" PROVE LineOK(c)'
  <2>1. LineOK(c)
    BY <1>1, <1>8 DEF IInv, LinesHold
  <2>2. ASSUME NEW q \in Requests, Has(Line(c)', q) PROVE q <= handed'[c]
    <3>1. q <= handed[c]
      BY <1>7, <2>1, <2>2 DEF LineOK
    <3>2. q \in Nat
      BY <1>2, Typing DEF Requests
    <3> QED BY <1>3, <3>1, <3>2 DEF r
  <2>3. ASSUME NEW q \in Requests, Pending(c, q)'
        PROVE  /\ Has(Line(c)', q) <=> sent'[c][q].kind # "json"
               /\ ~Done(Line(c)', q)
    <3>1. CASE Pending(c, q)
      BY <1>3, <1>7, <2>1, <3>1 DEF LineOK, Owed
    <3>2. CASE q = r
      <4>1. ~Has(Line(c), r) /\ ~Done(Line(c), r)
        BY <1>1, <1>3, <1>8 DEF Has, Done
      <4> QED BY <1>1, <1>3, <1>7, <3>2, <4>1
    <3> QED BY <1>4, <2>3, <3>1, <3>2
  <2>4. /\ WellFormed(Line(c)')
        /\ c \notin Pipelining => OneByOne(Line(c)') /\ Ascending(Line(c)')
    BY <1>7, <2>1 DEF LineOK
  <2>5. Marked(Line(c)', sent'[c]) /\ NoneCloses(wire'[c])
    BY <1>1, <1>3, <1>7, <2>1 DEF LineOK
  <2> QED BY <2>2, <2>3, <2>4, <2>5, LineFrom
<1>9. ConnInv(c)'
  <2>1. /\ WellFormed(wire'[c])
        /\ c \in Pipelining \/ OneByOne(wire'[c])
    BY <1>1, <1>2 DEF ConnInv
  <2>0. Answered(c)'
    BY <1>1, <1>3, NoneHandedOver, StaysAnswered
  <2>2. \A q \in Requests : Pending(c, q)' =>
           \/ Pending(c, q)
           \/ q = handed[c] + 1 /\ sent[c][q].kind \in Proxied
    BY <1>1, <1>4 DEF r, Proxied
  <2> QED BY <1>7, <1>8, <2>0, <2>1, <2>2, HandedOver
<1>10. \A d \in Conns : ConnInv(d)'
  BY <1>4, <1>5, <1>9, OthersStay
<1> QED BY <1>4, <1>6, <1>10, InvFromEach

LEMMA ReadStreamKeeps ==
    ASSUME IInv, NEW c \in Conns, ReadRequest(c),
           NextRequest(c).kind \in {"agent", "chat"}
    PROVE  IInv'
<1> DEFINE r == handed[c] + 1
<1>1. /\ tasks' = Append(tasks, <<c, r>>)
      /\ mail' = Queued(mail, c, r, StreamHead)
      /\ UNCHANGED <<wire, conn>> /\ Readable(c)
      /\ sent[c][r].kind \in {"agent", "chat"}
  BY DEF ReadRequest, HandleRequest, NextRequest
<1>2. TypeOK /\ HeldOnce /\ ConnInv(c)
  BY InvOfEach DEF IInv
<1>3. /\ handed'[c] = r /\ sent' = sent /\ work' = work /\ parts' = parts
      /\ handed[c] \in Nat /\ r \in Requests
      /\ ~Pending(c, r) /\ \A q \in Requests : Pending(c, q) => q # r
      /\ conn[c] = "connected" => ~Has(Line(c), r)
  BY ParserMovesOn, NewRequest
<1>4. /\ mail' \in [Conns -> Seq(Handled)]
      /\ \A d \in Conns \ {c} : mail'[d] = mail[d]
  BY <1>1, <1>3, HeadShape, QueuedDoes
<1>5. conn[c] = "connected" =>
        /\ WellFormed(Line(c)')
        /\ Marked(Line(c)', sent[c])
        /\ \A q : Has(Line(c)', q) <=> Has(Line(c), q) \/ q = r
        /\ \A q : Done(Line(c)', q) <=> Done(Line(c), q)
        /\ c \notin Pipelining => OneByOne(Line(c)') /\ Ascending(Line(c)')
  BY <1>1, <1>3, HeadShape, QueuedFits
<1> HIDE DEF r
<1>6. /\ tasks' \in Seq(Conns \X Requests)
      /\ HeldOnce'
      /\ \A d \in Conns, q \in Requests :
            Pending(d, q)' <=> Pending(d, q) \/ (d = c /\ q = r)
  BY <1>1, <1>2, <1>3, TasksGrow
<1>7. OthersSame(c)
  BY <1>1, <1>3, <1>4, ParserMovesOn DEF OthersSame
<1>8. TypeOK'
  BY <1>1, <1>2, <1>4, <1>6, ParserMovesOn DEF TypeOK
<1>9. ASSUME conn'[c] = "connected" PROVE LineOK(c)'
  <2>1. LineOK(c) /\ conn[c] = "connected"
    BY <1>1, <1>9 DEF IInv, LinesHold
  <2>2. ASSUME NEW q \in Requests, Has(Line(c)', q) PROVE q <= handed'[c]
    <3>1. q <= handed[c] \/ q = r
      BY <1>5, <2>1, <2>2 DEF LineOK
    <3>2. q \in Nat
      BY <1>2, Typing DEF Requests
    <3> QED BY <1>3, <3>1, <3>2 DEF r
  <2>3. ASSUME NEW q \in Requests, Pending(c, q)'
        PROVE  /\ Has(Line(c)', q) <=> sent'[c][q].kind # "json"
               /\ ~Done(Line(c)', q)
    <3>1. CASE Pending(c, q)
      BY <1>3, <1>5, <2>1, <3>1 DEF LineOK, Owed
    <3>2. CASE q = r
      <4>1. ~Done(Line(c), r)
        BY <1>3, <2>1 DEF Done, Has
      <4> QED BY <1>1, <1>3, <1>5, <2>1, <3>2, <4>1
    <3> QED BY <1>6, <2>3, <3>1, <3>2
  <2>4. Marked(Line(c)', sent'[c]) /\ NoneCloses(wire'[c])
    BY <1>1, <1>3, <1>5, <2>1 DEF LineOK
  <2> QED BY <1>5, <2>1, <2>2, <2>3, <2>4, LineFrom
<1>10. ConnInv(c)'
  <2>1. /\ WellFormed(wire'[c])
        /\ c \in Pipelining \/ OneByOne(wire'[c])
    BY <1>1, <1>2 DEF ConnInv
  <2>0. Answered(c)'
    BY <1>1, <1>3, NoneHandedOver, StaysAnswered
  <2>2. \A q \in Requests : Pending(c, q)' =>
           \/ Pending(c, q)
           \/ q = handed[c] + 1 /\ sent[c][q].kind \in Proxied
    BY <1>1, <1>6 DEF r, Proxied
  <2>3. \A q : Complete(c, q) => Complete(c, q)'
    BY <1>1, CompleteOnWire
  <2> QED BY <1>9, <2>0, <2>1, <2>2, <2>3, HandedOver
<1>11. \A d \in Conns : ConnInv(d)'
  BY <1>6, <1>7, <1>10, OthersStay
<1> QED BY <1>6, <1>8, <1>11, InvFromEach

LEMMA ReadRequestKeeps ==
    ASSUME IInv, NEW c \in Conns, ReadRequest(c)
    PROVE  IInv'
<1>1. NextRequest(c).kind \in {"reply", "refused", "json", "agent", "chat"}
  BY NewRequest DEF NextRequest, Proxied
<1> QED BY <1>1, ReadReplyKeeps, ReadJsonKeeps, ReadStreamKeeps

-----------------------------------------------------------------------------
(* Functors and workers                                                     *)

\* The parts of ConnInv(c)' when only what is sent or queued for c changes.
LEMMA OnlyFrames ==
    ASSUME IInv, NEW c \in Conns,
           UNCHANGED <<sent, parts, inBuf, unread, ctx, handed>>,
           \A q : Complete(c, q) => Complete(c, q)',
           WellFormed(wire'[c]), c \in Pipelining \/ OneByOne(wire'[c]),
           Answered(c)',
           conn'[c] = "connected" => LineOK(c)',
           \A q \in Requests : Pending(c, q)' => Pending(c, q)
    PROVE  ConnInv(c)'
<1>1. ConnInv(c)
  BY InvOfEach
<1>2. \A q \in Requests :
         Pending(c, q)' => q <= handed'[c] /\ sent'[c][q].kind \in Proxied
  BY <1>1 DEF ConnInv
<1>3. c \notin Pipelining => \A r \in 1..(Len(sent'[c]) - 1) : Complete(c, r)'
  BY <1>1 DEF ConnInv
<1>4. /\ parts'[c] = 2 * handed'[c] + (IF ctx'[c] = "body" THEN 1 ELSE 0)
                       + inBuf'[c] + unread'[c]
      /\ parts'[c] <= 2 * Len(sent'[c])
      /\ 2 * Len(sent'[c]) <= parts'[c] + 1
      /\ Len(sent'[c]) <= MaxRequests
  BY <1>1 DEF ConnInv
<1> QED BY <1>2, <1>3, <1>4, ConnFrom

\* The handler that is run next, as the line has it.
LEMMA NextHandler ==
    ASSUME IInv, NEW c \in Conns, conn[c] = "connected",
           NEW f \in Seq(Handled), NEW g \in Seq(Handled), f = wire[c], g = mail[c],
           NEW x \in Handled, NEW t \in Seq(Handled),
           f \o g = Append(f, x) \o t
    PROVE  /\ InItself(x.ops)
           /\ Closes(x.ops) <=> Ends(x.ops) /\ IsTheLast(sent[c][x.req])
           /\ ~Done(f, x.req)
           /\ x.req \in Requests /\ x.req <= handed[c]
           /\ WellFormed(Append(f, x) \o t)
           /\ c \notin Pipelining => OneByOne(Append(f, x))
           /\ WellFormed(Append(f, x))
<1>1. PICK e \in Seq(Handled), n \in Nat :
        /\ e = Append(f, x) /\ n = Len(f) /\ Len(e) = n + 1 /\ e[n + 1] = x
        /\ \A i \in 1..n : e[i] = f[i]
  <2>1. /\ Append(f, x) \in Seq(Handled) /\ Len(Append(f, x)) = Len(f) + 1
        /\ Append(f, x)[Len(f) + 1] = x /\ Len(f) \in Nat
        /\ \A i \in 1..Len(f) : Append(f, x)[i] = f[i]
    BY AppendProperties, LenProperties
  <2> QED BY <2>1
<1>2. PICK k \in Seq(Handled) : k = e \o t /\ k = f \o g /\ k = Line(c)
  BY <1>1, ConcatProperties DEF Line
<1>3. /\ n + 1 \in 1..Len(k) /\ k[n + 1] = x
      /\ \A i \in 1..n : i \in 1..Len(k) /\ k[i] = f[i]
  <2>1. /\ Len(k) = (n + 1) + Len(t) /\ Len(t) \in Nat
        /\ \A i \in 1..((n + 1) + Len(t)) :
              k[i] = IF i <= n + 1 THEN e[i] ELSE t[i - (n + 1)]
    <3>1. /\ Len(e \o t) = Len(e) + Len(t) /\ Len(t) \in Nat
          /\ \A i \in 1..(Len(e) + Len(t)) :
                (e \o t)[i] = IF i <= Len(e) THEN e[i] ELSE t[i - Len(e)]
      BY ConcatProperties, LenProperties
    <3>2. Len(e) = n + 1 /\ k = e \o t
      BY <1>1, <1>2
    <3> QED BY <3>1, <3>2
  <2>2. \A i \in 1..n : i \in 1..Len(k) /\ i <= n + 1
    BY <2>1
  <2>3. n + 1 \in 1..Len(k) /\ n + 1 <= n + 1
    BY <2>1
  <2> QED BY <1>1, <2>1, <2>2, <2>3
<1>4. LineOK(c)
  BY DEF IInv, LinesHold
<1>5. WellFormed(k) /\ Marked(k, sent[c])
  BY <1>2, <1>4 DEF LineOK
<1>6. Fits(k, n + 1)
  BY <1>3, <1>5, AllFit
<1>7. InItself(x.ops)
  BY <1>3, <1>6 DEF Fits
<1>8. Closes(x.ops) <=> Ends(x.ops) /\ IsTheLast(sent[c][x.req])
  BY <1>3, <1>5 DEF Marked
<1>9. ASSUME Done(f, x.req) PROVE FALSE
  <2>1. PICK i \in 1..n : f[i].req = x.req /\ Ends(f[i].ops)
    BY <1>1, <1>9 DEF Done
  <2>2. k[i].req = k[n + 1].req /\ Ends(k[i].ops) /\ i \in 1..((n + 1) - 1)
    BY <1>3, <2>1
  <2> QED BY <1>6, <2>2 DEF Fits, Before
<1>10. x.req \in Requests /\ x.req <= handed[c]
  <2>1. x.req \in Requests
    BY DEF Handled
  <2>2. Has(k, x.req)
    BY <1>3 DEF Has
  <2> QED BY <1>2, <1>4, <2>1, <2>2 DEF LineOK
<1>11. WellFormed(e) /\ (c \notin Pipelining => OneByOne(e))
  <2>1. c \notin Pipelining => OneByOne(k)
    BY <1>2, <1>4 DEF LineOK
  <2> QED BY <1>2, <1>5, <2>1, WireIsPrefix
<1> QED BY <1>1, <1>2, <1>5, <1>7, <1>8, <1>9, <1>10, <1>11

\* Behind the handler that closes, nothing is queued for a client that waits,
\* and nobody holds a request of its.
LEMMA LastHandler ==
    ASSUME IInv, NEW c \in Conns, conn[c] = "connected", c \notin Pipelining,
           NEW f \in Seq(Handled), NEW g \in Seq(Handled), f = wire[c], g = mail[c],
           NEW x \in Handled, NEW t \in Seq(Handled),
           f \o g = Append(f, x) \o t, Ends(x.ops)
    PROVE  /\ x.req = Len(sent[c])
           /\ t = <<>>
           /\ \A q \in Requests : ~Pending(c, q)
<1>1. /\ ~Done(f, x.req) /\ x.req \in Requests /\ x.req <= handed[c]
      /\ WellFormed(Append(f, x) \o t)
  BY NextHandler
<1>2. PICK r \in Nat, n \in Nat, h \in Nat :
        /\ r = x.req /\ n = Len(sent[c]) /\ h = handed[c]
        /\ r \in 1..n /\ h <= n
  <2>1. TypeOK /\ PartsAreKept
    BY DEF IInv
  <2>2. Len(sent[c]) \in 0..MaxRequests /\ MaxRequests \in Nat
        /\ handed[c] <= Len(sent[c]) /\ handed[c] \in Nat
    BY <2>1, HandedWasSent, Typing
  <2>3. PICK m \in Nat : m = MaxRequests
    BY <2>2
  <2>4. PICK r \in 1..m : r = x.req
    BY <1>1, <2>3 DEF Requests
  <2>5. Len(sent[c]) \in Nat
    BY <2>2, <2>3
  <2> QED BY <1>1, <2>2, <2>4, <2>5
<1>3. \A q \in 1..(n - 1) : Done(f, q)
  BY <1>2, CompleteOnWire DEF IInv, ClientsWait
<1>4. r = n
  <2> SUFFICES ASSUME r # n PROVE FALSE
    OBVIOUS
  <2>1. r \in 1..(n - 1)
    BY <1>2
  <2> QED BY <1>1, <1>2, <1>3, <2>1
<1>5. PICK e \in Seq(Handled) : e = Append(f, x)
  BY AppendProperties
<1>6. \A q : Done(e, q) <=> Done(f, q) \/ q = r
  <2>1. /\ Len(e) = Len(f) + 1 /\ e[Len(f) + 1] = x /\ Len(f) \in Nat
        /\ \A i \in 1..Len(f) : e[i] = f[i]
    BY <1>5, AppendProperties, LenProperties
  <2>2. \A i \in 1..Len(e) : i = Len(f) + 1 \/ i \in 1..Len(f)
    BY <2>1
  <2>3. Len(f) + 1 \in 1..Len(e) /\ \A i \in 1..Len(f) : i \in 1..Len(e)
    BY <2>1
  <2> QED BY <1>2, <2>1, <2>2, <2>3 DEF Done
<1>7. LineOK(c) /\ Line(c) = e \o t
  BY <1>5 DEF IInv, LinesHold, Line
<1>8. \A q \in 1..n : Done(e, q)
  BY <1>2, <1>3, <1>4, <1>6
<1>9. \A q \in Requests : Has(e \o t, q) => Done(e, q)
  <2> SUFFICES ASSUME NEW q \in Requests, Has(e \o t, q) PROVE Done(e, q)
    OBVIOUS
  <2>1. q <= h
    BY <1>2, <1>7 DEF LineOK
  <2>2. q \in Nat \ {0}
    BY Typing DEF IInv, Requests
  <2> QED BY <1>2, <1>8, <2>1, <2>2
<1>10. t = <<>>
  BY <1>1, <1>5, <1>9, NothingBehind
<1>11. ASSUME NEW q \in Requests, Pending(c, q) PROVE FALSE
  <2>1. q = n /\ ~Done(e \o t, q)
    BY <1>2, <1>7, <1>11, NothingElseIsOwed
  <2>2. e \o t = e
    BY <1>10, ConcatEmptySeq
  <2> QED BY <1>4, <1>6, <2>1, <2>2
<1> QED BY <1>2, <1>4, <1>10, <1>11

LEMMA RunFunctorKeeps ==
    ASSUME IInv, NEW c \in Conns, RunFunctor(c)
    PROVE  IInv'
<1>1. /\ mail[c] # <<>> /\ mail' = [mail EXCEPT ![c] = Tail(mail[c])]
      /\ Perform(c, Head(mail[c]).req, Head(mail[c]).ops)
      /\ UNCHANGED <<sent, parts, inBuf, unread, ctx, handed, tasks, work>>
  BY DEF RunFunctor, clientVars, poolVars
<1>2. TypeOK /\ ConnInv(c)
  BY InvOfEach DEF IInv
<1>3. PICK f \in Seq(Handled), g \in Seq(Handled) : f = wire[c] /\ g = mail[c]
  BY <1>2, Typing
<1>4. PICK x \in Handled, t \in Seq(Handled) :
         /\ x = Head(g) /\ t = Tail(g)
         /\ f \o g = Append(f, x) \o t
  BY <1>1, <1>3, AcrossTheLine
<1>5. PICK r \in Requests, ops \in Seq(Ops) :
         r = x.req /\ ops = x.ops /\ Frames(r, ops) = x
  BY DEF Handled, Frames
<1>6. Perform(c, r, ops)
  BY <1>1, <1>3, <1>4, <1>5
<1>7. ASSUME conn[c] = "connected"
      PROVE  /\ InItself(ops)
             /\ Closes(ops) <=> Ends(ops) /\ IsTheLast(sent[c][r])
             /\ r <= handed[c]
             /\ WellFormed(Append(f, x))
             /\ c \notin Pipelining => OneByOne(Append(f, x))
  <2>1. /\ InItself(x.ops)
        /\ Closes(x.ops) <=> Ends(x.ops) /\ IsTheLast(sent[c][x.req])
        /\ x.req <= handed[c]
        /\ WellFormed(Append(f, x))
        /\ c \notin Pipelining => OneByOne(Append(f, x))
    <3>1. /\ conn[c] = "connected" /\ f = wire[c] /\ g = mail[c]
          /\ f \o g = Append(f, x) \o t
      BY <1>3, <1>4, <1>7
    <3>2. /\ InItself(x.ops)
          /\ Closes(x.ops) <=> Ends(x.ops) /\ IsTheLast(sent[c][x.req])
          /\ x.req <= handed[c]
          /\ WellFormed(Append(f, x))
          /\ c \notin Pipelining => OneByOne(Append(f, x))
      BY <3>1, NextHandler
    <3> QED BY <3>2
  <2> QED BY <1>5, <2>1
<1>8. /\ conn' \in [Conns -> {"connected", "disconnecting", "disconnected"}]
      /\ wire' \in [Conns -> Seq(Handled)]
      /\ \A d \in Conns \ {c} : conn'[d] = conn[d] /\ wire'[d] = wire[d]
      /\ conn[c] = "connected" =>
            /\ wire'[c] = Append(f, x)
            /\ conn'[c] = IF Closes(ops) THEN "disconnecting" ELSE "connected"
      /\ conn[c] # "connected" => wire'[c] = f /\ conn'[c] = conn[c]
      /\ conn'[c] = "connected" => NoneCloses(wire'[c])
      /\ \A q : Complete(c, q) => Complete(c, q)'
      /\ conn[c] = "connected" /\ Ends(ops) => Complete(c, r)'
  <2>1. conn[c] = "connected" => InItself(ops)
    BY <1>7
  <2> QED BY <1>3, <1>5, <1>6, <2>1, PerformDoes
<1>9. /\ mail' \in [Conns -> Seq(Handled)] /\ mail'[c] = t
      /\ \A d \in Conns \ {c} : mail'[d] = mail[d]
  <2>1. mail \in [Conns -> Seq(Handled)]
    BY <1>2 DEF TypeOK
  <2> QED BY <1>1, <1>3, <1>4, <2>1
<1>10. OthersSame(c)
  BY <1>1, <1>8, <1>9 DEF OthersSame
<1>11. TypeOK'
  BY <1>1, <1>2, <1>8, <1>9 DEF TypeOK
<1>12. \A d \in Conns, q \in Requests : Pending(d, q)' <=> Pending(d, q)
  BY <1>1 DEF Pending, Queues, Serves
<1>13. HeldOnce'
  BY <1>1 DEF IInv, HeldOnce, Queues, Serves
<1>14. conn'[c] = "connected" => conn[c] = "connected"
  BY <1>8
<1>15. conn'[c] = "connected" => LineOK(c)'
  <2> SUFFICES ASSUME conn'[c] = "connected" PROVE LineOK(c)'
    OBVIOUS
  <2>1. Line(c)' = Line(c)
    BY <1>3, <1>4, <1>8, <1>9, <1>14 DEF Line
  <2>2. /\ NoneCloses(wire'[c]) /\ handed'[c] = handed[c] /\ conn[c] = "connected"
        /\ \A q \in Requests : Pending(c, q)' => Pending(c, q)
        /\ \A q \in Requests : q <= handed[c] => sent'[c][q] = sent[c][q]
    BY <1>1, <1>8, <1>12, <1>14
  <2> QED BY <2>1, <2>2, LineStays
<1>16. WellFormed(wire'[c]) /\ (c \in Pipelining \/ OneByOne(wire'[c]))
  <2>1. CASE conn[c] # "connected"
    BY <1>2, <1>3, <1>8, <2>1 DEF ConnInv
  <2>2. CASE conn[c] = "connected"
    BY <1>7, <1>8, <2>2
  <2> QED BY <2>1, <2>2
<1>17. Answered(c)'
  <2>1. CASE conn[c] = "connected" /\ Closes(ops)
    <3>1. Ends(ops) /\ IsTheLast(sent[c][r]) /\ Complete(c, r)' /\ r <= handed[c]
      BY <1>7, <1>8, <2>1
    <3>2. r \in 1..Len(sent[c]) /\ handed'[c] = handed[c] /\ sent'[c] = sent[c]
      <4>1. TypeOK /\ PartsAreKept
        BY DEF IInv
      <4>2. PICK n \in Nat, m \in Nat, h \in Nat :
               /\ n = Len(sent[c]) /\ m = MaxRequests /\ h = handed[c] /\ h <= n
        <5>1. MaxRequests \in Nat /\ handed[c] \in Nat
          BY <4>1, Typing
        <5>2. Len(sent[c]) \in 0..MaxRequests /\ handed[c] <= Len(sent[c])
          BY <4>1, HandedWasSent
        <5>3. Len(sent[c]) \in Nat
          BY <5>1, <5>2
        <5> QED BY <5>1, <5>2, <5>3
      <4>3. r \in 1..m
        BY <4>2 DEF Requests
      <4> QED BY <1>1, <3>1, <4>2, <4>3
    <3>3. ASSUME c \notin Pipelining
          PROVE  /\ r = Len(sent[c])
                 /\ mail'[c] = <<>>
                 /\ \A q \in Requests : ~Pending(c, q)'
      <4>1. Ends(x.ops)
        BY <1>5, <3>1
      <4>2. /\ x.req = Len(sent[c]) /\ t = <<>>
            /\ \A q \in Requests : ~Pending(c, q)
        <5>1. conn[c] = "connected"
          BY <2>1
        <5>2. /\ f = wire[c] /\ g = mail[c] /\ c \notin Pipelining
              /\ f \o g = Append(f, x) \o t
          BY <1>3, <1>4, <3>3
        <5>3. /\ x.req = Len(sent[c])
              /\ t = <<>>
              /\ \A q \in Requests : ~Pending(c, q)
          BY <4>1, <5>1, <5>2, LastHandler
        <5> QED BY <5>3
      <4> QED BY <1>5, <1>9, <1>12, <4>2
    <3> QED BY <1>8, <3>1, <3>2, <3>3, ClosesBehindAll
  <2>2. CASE conn[c] = "connected" /\ ~Closes(ops)
    BY <1>8, <2>2 DEF Answered
  <2>3. CASE conn[c] # "connected"
    <3>1. ASSUME conn[c] = "disconnecting", c \notin Pipelining PROVE FALSE
      BY <1>1, <3>1 DEF IInv, AllAnswered, Answered
    <3>2. /\ conn'[c] = conn[c] /\ wire'[c] = wire[c] /\ sent'[c] = sent[c]
      BY <1>1, <1>3, <1>8, <2>3
    <3> QED BY <3>1, <3>2, StaysAnswered
  <2> QED BY <2>1, <2>2, <2>3
<1>18. ConnInv(c)'
  BY <1>1, <1>8, <1>12, <1>15, <1>16, <1>17, OnlyFrames
<1>19. \A d \in Conns : ConnInv(d)'
  BY <1>10, <1>12, <1>18, OthersStay
<1> QED BY <1>11, <1>13, <1>19, InvFromEach

\* Nothing is sent or queued: requests only change hands.
LEMMA NothingSent ==
    ASSUME IInv, TypeOK', HeldOnce',
           UNCHANGED <<conn, sent, parts, inBuf, unread, ctx, handed, mail, wire>>,
           \A d \in Conns, q \in Requests : Pending(d, q)' => Pending(d, q)
    PROVE  IInv'
<1>1. ASSUME NEW c \in Conns PROVE ConnInv(c)'
  <2>1. ConnInv(c)
    BY InvOfEach
  <2>2. ASSUME conn'[c] = "connected" PROVE LineOK(c)'
    <3>1. NoneCloses(wire'[c])
      BY <2>1, <2>2 DEF ConnInv, LineOK
    <3>2. Line(c)' = Line(c)
      BY DEF Line
    <3> QED BY <2>2, <3>1, <3>2, LineStays
  <2>3. \A q : Complete(c, q) => Complete(c, q)'
    BY CompleteOnWire
  <2>4. WellFormed(wire'[c]) /\ (c \in Pipelining \/ OneByOne(wire'[c]))
    BY <2>1 DEF ConnInv
  <2>5. Answered(c)'
    BY StaysAnswered
  <2> QED BY <2>2, <2>3, <2>4, <2>5, OnlyFrames
<1> QED BY <1>1, InvFromEach

LEMMA TakeKeeps ==
    ASSUME IInv, NEW w \in Workers, Take(w)
    PROVE  IInv'
<1>1. UNCHANGED <<conn, sent, parts, inBuf, unread, ctx, handed, mail, wire>>
  BY DEF Take, clientVars
<1>2. TypeOK /\ HeldOnce
  BY DEF IInv
<1>3. /\ tasks' \in Seq(Conns \X Requests)
      /\ work' \in [Workers -> {Idle} \cup Jobs]
      /\ HeldOnce'
      /\ \A d \in Conns, q \in Requests : Pending(d, q)' => Pending(d, q)
  BY <1>2, TaskMoves
<1>4. TypeOK'
  BY <1>1, <1>2, <1>3 DEF TypeOK, Jobs
<1> QED BY <1>1, <1>3, <1>4, NothingSent

\* A worker queues a functor of the request it serves, and keeps or drops it.
LEMMA WorkerQueues ==
    ASSUME IInv, NEW w \in Workers, work[w] # Idle,
           NEW c \in Conns, NEW r \in Requests, c = work[w].conn, r = work[w].req,
           NEW ops \in Seq(Ops), mail' = Queued(mail, c, r, ops),
           UNCHANGED <<conn, sent, parts, inBuf, unread, ctx, handed, tasks, wire>>,
           work' \in [Workers -> {Idle} \cup Jobs], HeldOnce',
           \A d \in Conns, q \in Requests : Pending(d, q)' => Pending(d, q),
           InItself(ops),
           Closes(ops) <=> Ends(ops) /\ IsTheLast(sent[c][r]),
           Starts(ops) <=> sent[c][r].kind = "json",
           Starts(ops) \/ Ends(ops) => ~Pending(c, r)'
    PROVE  IInv'
<1>1. TypeOK /\ ConnInv(c)
  BY InvOfEach DEF IInv
<1>2. /\ mail' \in [Conns -> Seq(Handled)]
      /\ \A d \in Conns \ {c} : mail'[d] = mail[d]
  BY QueuedDoes
<1>3. Pending(c, r)
  BY DEF Pending, Serves
<1>4. ASSUME conn[c] = "connected"
      PROVE  /\ WellFormed(Line(c)')
             /\ Marked(Line(c)', sent[c])
             /\ \A q : Has(Line(c)', q) <=> Has(Line(c), q) \/ q = r
             /\ \A q : Done(Line(c)', q) <=> Done(Line(c), q) \/ (q = r /\ Ends(ops))
             /\ c \notin Pipelining => OneByOne(Line(c)') /\ Ascending(Line(c)')
  <2>1. LineOK(c)
    BY <1>1, <1>4 DEF ConnInv
  <2>2. \/ ~Has(Line(c), r) /\ Starts(ops)
        \/ Has(Line(c), r) /\ ~Done(Line(c), r) /\ ~Starts(ops)
    BY <1>3, <2>1 DEF LineOK, Owed
  <2> QED BY <1>3, <1>4, <2>2, QueuedFits
<1>5. TypeOK'
  BY <1>1, <1>2 DEF TypeOK, Jobs
<1>6. OthersSame(c)
  BY <1>2 DEF OthersSame
<1>7. ASSUME conn'[c] = "connected" PROVE LineOK(c)'
  <2>1. LineOK(c) /\ conn[c] = "connected"
    BY <1>1, <1>7 DEF ConnInv
  <2>2. r <= handed[c]
    BY <1>1, <1>3 DEF ConnInv
  <2>3. \A q \in Requests : Has(Line(c)', q) => q <= handed'[c]
    BY <1>4, <2>1, <2>2 DEF LineOK
  <2>4. ASSUME NEW q \in Requests, Pending(c, q)'
        PROVE  /\ Has(Line(c)', q) <=> sent'[c][q].kind # "json"
               /\ ~Done(Line(c)', q)
    <3>1. Pending(c, q) /\ Owed(c, q)
      BY <2>1, <2>4 DEF LineOK
    <3>2. CASE q # r
      BY <1>4, <2>1, <3>1, <3>2 DEF Owed
    <3>3. CASE q = r
      <4>1. ~Starts(ops) /\ ~Ends(ops) /\ sent[c][r].kind # "json"
        BY <2>4, <3>3
      <4> QED BY <1>4, <2>1, <3>1, <3>3, <4>1 DEF Owed
    <3> QED BY <3>2, <3>3
  <2>5. Marked(Line(c)', sent'[c]) /\ NoneCloses(wire'[c])
    BY <1>4, <2>1 DEF LineOK
  <2> QED BY <1>4, <2>1, <2>3, <2>4, <2>5, LineFrom
<1>8. /\ WellFormed(wire'[c]) /\ (c \in Pipelining \/ OneByOne(wire'[c]))
      /\ \A q : Complete(c, q) => Complete(c, q)'
  BY <1>1, CompleteOnWire DEF ConnInv
<1>9. Answered(c)'
  <2>1. ASSUME conn[c] = "disconnecting", c \notin Pipelining PROVE FALSE
    BY <1>3, <2>1 DEF IInv, AllAnswered, Answered
  <2> QED BY <2>1, StaysAnswered
<1>10. ConnInv(c)'
  BY <1>7, <1>8, <1>9, OnlyFrames
<1>11. \A d \in Conns : ConnInv(d)'
  BY <1>6, <1>10, OthersStay
<1> QED BY <1>5, <1>11, InvFromEach

LEMMA RelayKeeps ==
    ASSUME IInv, NEW w \in Workers, Relay(w)
    PROVE  IInv'
<1>1. /\ work[w] # Idle /\ work[w].events < MaxEvents
      /\ Served(w).kind \in {"agent", "chat"}
      /\ work' = [work EXCEPT ![w].events = @ + 1]
      /\ mail' = Queued(mail, work[w].conn, work[w].req, <<"event">>)
      /\ UNCHANGED <<conn, sent, parts, inBuf, unread, ctx, handed, tasks, wire>>
  BY DEF Relay, clientVars
<1>2. TypeOK /\ HeldOnce
  BY DEF IInv
<1>3. PICK c \in Conns, r \in Requests : c = work[w].conn /\ r = work[w].req
  BY <1>1, <1>2, Typing DEF Jobs
<1>4. /\ work' \in [Workers -> {Idle} \cup Jobs]
      /\ HeldOnce'
      /\ \A d \in Conns, q \in Requests : Pending(d, q)' <=> Pending(d, q)
  BY <1>1, <1>2, JobGoesOn
<1>5. PICK ops \in Seq(Ops) : /\ ops = <<"event">> /\ InItself(ops)
                              /\ ~Starts(ops) /\ ~Ends(ops) /\ ~Closes(ops)
  BY EventShape
<1>6. /\ mail' = Queued(mail, c, r, ops)
      /\ sent[c][r].kind # "json"
  BY <1>1, <1>3, <1>5 DEF Served
<1> QED BY <1>1, <1>3, <1>4, <1>5, <1>6, WorkerQueues

\* The final functor of a request that is answered from elsewhere.
LEMMA EndingShape ==
    ASSUME NEW w \in Workers, work[w].events \in Nat, Served(w) \in Asked,
           Served(w).kind \in Proxied, MaxEvents \in Nat, NEW ops \in Endings(w)
    PROVE  /\ ops \in Seq(Ops) /\ InItself(ops) /\ Ends(ops)
           /\ Starts(ops) <=> Served(w).kind = "json"
           /\ Closes(ops) <=> IsTheLast(Served(w))
<1>1. PICK close \in BOOLEAN : close = Served(w).close
  BY DEF Asked
<1>2. close <=> IsTheLast(Served(w))
  BY <1>1 DEF IsTheLast, Proxied
<1>3. CASE Served(w).kind = "json"
  <2>1. ops = JsonReply(close)
    BY <1>1, <1>3 DEF Endings
  <2> QED BY <1>2, <1>3, <2>1, ReplyShape
<1>4. CASE Served(w).kind = "agent"
  <2>1. PICK ok \in BOOLEAN : ops = AgentEnds(ok, close)
    BY <1>1, <1>4 DEF Endings
  <2>2. 0 \in Nat
    OBVIOUS
  <2> QED BY <1>2, <1>4, <2>1, <2>2, StreamEndShape
<1>5. CASE Served(w).kind = "chat"
  <2>1. ops = ChatEnds(close) \/ \E n \in 0..MaxEvents : ops = ChatFromCache(n, close)
    BY <1>1, <1>5 DEF Endings
  <2>2. PICK n \in Nat : ops \in {ChatEnds(close), ChatFromCache(n, close)}
    BY <2>1
  <2>3. TRUE \in BOOLEAN
    OBVIOUS
  <2> QED BY <1>2, <1>5, <2>2, <2>3, StreamEndShape
<1> QED BY <1>3, <1>4, <1>5 DEF Proxied

LEMMA FinishKeeps ==
    ASSUME IInv, NEW w \in Workers, Finish(w)
    PROVE  IInv'
<1>1. /\ work[w] # Idle
      /\ work' = [work EXCEPT ![w] = Idle]
      /\ UNCHANGED <<conn, sent, parts, inBuf, unread, ctx, handed, tasks, wire>>
  BY DEF Finish, clientVars
<1>2. TypeOK /\ HeldOnce
  BY DEF IInv
<1>3. PICK c \in Conns, r \in Requests :
         c = work[w].conn /\ r = work[w].req /\ work[w].events \in 0..MaxEvents
  BY <1>1, <1>2, Typing DEF Jobs
<1>4. Serves(w, c, r)
  BY <1>1, <1>3 DEF Serves
<1>5. /\ work' \in [Workers -> {Idle} \cup Jobs]
      /\ HeldOnce'
      /\ \A d \in Conns, q \in Requests :
            Pending(d, q)' => Pending(d, q) /\ ~(d = c /\ q = r)
  BY <1>1, <1>2, <1>4, JobEnds
<1>6. sent[c][r].kind \in Proxied /\ r <= handed[c]
  BY <1>4 DEF IInv, PendingIsHanded, Pending
<1>7. sent[c][r] \in Asked
  <2>1. PICK n \in Nat, m \in Nat, h \in Nat :
           /\ n = Len(sent[c]) /\ m = MaxRequests /\ h = handed[c] /\ h <= n
    <3>1. MaxRequests \in Nat /\ handed[c] \in Nat
      BY <1>2, Typing
    <3>2. PartsAreKept
      BY DEF IInv
    <3>3. Len(sent[c]) \in 0..MaxRequests /\ handed[c] <= Len(sent[c])
      BY <1>2, <3>2, HandedWasSent
    <3>4. Len(sent[c]) \in Nat
      BY <3>1, <3>3
    <3> QED BY <3>1, <3>3, <3>4
  <2>2. r \in 1..m
    BY <2>1 DEF Requests
  <2>3. r \in 1..Len(sent[c])
    BY <1>6, <2>1, <2>2
  <2> QED BY <1>2, <2>3, Typing, ElementOfSeq
<1>8. Served(w) = sent[c][r]
  BY <1>3 DEF Served
<1>9. PICK ops \in Endings(w) : mail' = Queued(mail, c, r, ops)
  BY <1>3 DEF Finish
<1>10. /\ ops \in Seq(Ops) /\ InItself(ops) /\ Ends(ops)
       /\ Starts(ops) <=> sent[c][r].kind = "json"
       /\ Closes(ops) <=> IsTheLast(sent[c][r])
  <2>1. MaxEvents \in Nat /\ work[w].events \in Nat
    BY <1>3, GatewayAssumption
  <2> QED BY <1>6, <1>7, <1>8, <2>1, EndingShape
<1>11. ~Pending(c, r)' /\ \A d \in Conns, q \in Requests : Pending(d, q)' => Pending(d, q)
  BY <1>5
<1> QED BY <1>1, <1>3, <1>5, <1>9, <1>10, <1>11, WorkerQueues

-----------------------------------------------------------------------------
(* The theorems                                                             *)

LEMMA InitIInv == Init => IInv
<1> SUFFICES ASSUME Init PROVE IInv
  OBVIOUS
<1>1. MaxRequests \in Nat /\ 0 \in 0..MaxRequests /\ 0 \in 0..(2 * MaxRequests)
  BY GatewayAssumption
<1>2. TypeOK
  BY <1>1 DEF Init, TypeOK, Idle
<1>3. HeldOnce
  BY DEF Init, HeldOnce, Serves
<1>4. ASSUME NEW c \in Conns PROVE ConnInv(c)
  <2>1. \A r \in Requests : ~Pending(c, r)
    BY DEF Init, Pending, Queues, Serves
  <2>2. Line(c) = <<>>
    BY ConcatEmptySeq, EmptySeq DEF Init, Line
  <2>3. LineOK(c)
    <3>1. WellFormed(Line(c)) /\ OneByOne(Line(c)) /\ Ascending(Line(c))
      BY <2>2 DEF WellFormed, OneByOne, Ascending
    <3>2. /\ Marked(Line(c), sent[c]) /\ NoneCloses(wire[c])
          /\ \A r : ~Has(Line(c), r)
      BY <2>2 DEF Init, Marked, NoneCloses, Has
    <3> QED BY <2>1, <3>1, <3>2 DEF LineOK
  <2>4. /\ parts[c] = 0 /\ handed[c] = 0 /\ ctx[c] = "requestLine" /\ inBuf[c] = 0
        /\ unread[c] = 0 /\ Len(sent[c]) = 0 /\ conn[c] = "connected"
        /\ wire[c] = <<>> /\ Len(wire[c]) = 0
    BY DEF Init
  <2>5. WellFormed(wire[c]) /\ OneByOne(wire[c])
    BY <2>4 DEF WellFormed, OneByOne
  <2>6. \A r \in 1..(Len(sent[c]) - 1) : Complete(c, r)
    BY <2>4
  <2>7. Answered(c)
    BY <2>4 DEF Answered
  <2> QED BY <1>1, <2>1, <2>3, <2>4, <2>5, <2>6, <2>7 DEF ConnInv
<1> QED BY <1>2, <1>3, <1>4
        DEF IInv, ConnInv, PartsAreKept, PendingIsHanded, LinesHold, ClientsWait,
            ResponsesInOrder, AllAnswered

LEMMA NextKeepsIInv ==
    ASSUME IInv, [Next]_vars
    PROVE  IInv'
<1>1. ASSUME NEW c \in Conns, BeginRequest(c) \/ EndRequest(c) \/ ClientCloses(c)
      PROVE  IInv'
  BY <1>1, BeginRequestKeeps, EndRequestKeeps, ClientClosesKeeps
<1>2. ASSUME NEW c \in Conns, LoopStep(c)
      PROVE  IInv'
  BY <1>2, ReadPartKeeps, ReadRequestKeeps, ReadBadKeeps, RunFunctorKeeps DEF LoopStep
<1>3. ASSUME NEW w \in Workers, Take(w) \/ Relay(w) \/ Finish(w)
      PROVE  IInv'
  BY <1>3, TakeKeeps, RelayKeeps, FinishKeeps
<1>4. CASE UNCHANGED vars
  <2>1. UNCHANGED <<conn, sent, parts, inBuf, unread, ctx, handed, mail, tasks, work, wire>>
    BY <1>4 DEF vars
  <2>2. TypeOK'
    BY <2>1 DEF IInv, TypeOK
  <2>3. HeldOnce' /\ \A d \in Conns, q \in Requests : Pending(d, q)' <=> Pending(d, q)
    BY <2>1 DEF IInv, HeldOnce, Pending, Queues, Serves
  <2> QED BY <2>1, <2>2, <2>3, NothingSent
<1> QED BY <1>1, <1>2, <1>3, <1>4 DEF Next

\* The parser, the executor, the workers and the loop keep every line of
\* responses well formed, and nobody holds a request that another holds.
THEOREM GatewayInvariant == Spec => []IInv
<1> QED BY InitIInv, NextKeepsIInv, PTL DEF Spec

\* The frames of a response are whole and in order, whatever else runs; a client
\* that waits reads its responses one after the other (HttpServer.cc:14-16,
\* 186-225, 259-417).
THEOREM ResponsesStayInOrder == Spec => []ResponsesInOrder
<1>1. IInv => ResponsesInOrder
  BY DEF IInv
<1> QED BY <1>1, GatewayInvariant, PTL

\* A worker that has a request of c, or a task for one, holds it.
LEMMA NobodyExpects ==
    ASSUME IInv, NEW c \in Conns, mail[c] = <<>>, \A r \in Requests : ~Pending(c, r)
    PROVE  ~Expects(c)
<1>1. TypeOK
  BY DEF IInv
<1>2. ASSUME NEW i \in 1..Len(tasks), tasks[i][1] = c PROVE FALSE
  <2>1. tasks[i] \in Conns \X Requests
    BY <1>1, ElementOfSeq DEF TypeOK
  <2>2. PICK r \in Requests : tasks[i] = <<c, r>>
    BY <1>2, <2>1
  <2> QED BY <2>2 DEF Pending, Queues
<1>3. ASSUME NEW w \in Workers, work[w] # Idle, work[w].conn = c PROVE FALSE
  <2>1. PICK r \in Requests : r = work[w].req
    BY <1>1, <1>3, Typing DEF Jobs
  <2> QED BY <1>3, <2>1 DEF Pending, Serves
<1> QED BY <1>2, <1>3 DEF Expects

\* The invariant says it of every line, which the wire begins: a handler that
\* completes the last response closes, and none has closed what is connected.
LEMMA AnsweredWhenClosed == IInv => ClosesWhenAnswered
<1> SUFFICES ASSUME IInv, NEW c \in Conns
             PROVE  /\ conn[c] = "connected" =>
                         \A r \in 1..Len(sent[c]) :
                             IsTheLast(sent[c][r]) => ~Complete(c, r)
                    /\ conn[c] = "disconnecting" =>
                         /\ \E r \in 1..Len(sent[c]) :
                                IsTheLast(sent[c][r]) /\ Complete(c, r)
                         /\ c \notin Pipelining =>
                               /\ \A r \in 1..Len(sent[c]) : Complete(c, r)
                               /\ ~Expects(c)
  BY DEF ClosesWhenAnswered
<1>1. ASSUME conn[c] = "connected", NEW r \in 1..Len(sent[c]),
             IsTheLast(sent[c][r]), Complete(c, r)
      PROVE  FALSE
  <2>1. PICK i \in 1..Len(wire[c]) : wire[c][i].req = r /\ Ends(wire[c][i].ops)
    BY <1>1 DEF Complete
  <2>2. LineOK(c)
    BY <1>1 DEF IInv, LinesHold
  <2>3. PICK f \in Seq(Handled), g \in Seq(Handled) : f = wire[c] /\ g = mail[c]
    BY Typing DEF IInv
  <2>4. i \in 1..Len(f \o g) /\ (f \o g)[i] = f[i]
    <3>1. /\ Len(f \o g) = Len(f) + Len(g) /\ Len(f) \in Nat /\ Len(g) \in Nat
          /\ \A k \in 1..(Len(f) + Len(g)) :
                (f \o g)[k] = IF k <= Len(f) THEN f[k] ELSE g[k - Len(f)]
      BY ConcatProperties, LenProperties
    <3>2. i \in 1..Len(f)
      BY <2>3
    <3>3. i \in 1..(Len(f) + Len(g)) /\ i <= Len(f)
      BY <3>1, <3>2
    <3> QED BY <3>1, <3>3
  <2>5. Closes(wire[c][i].ops)
    <3>1. Marked(f \o g, sent[c])
      BY <2>2, <2>3 DEF LineOK, Line
    <3> QED BY <1>1, <2>1, <2>3, <2>4, <3>1 DEF Marked
  <2> QED BY <2>2, <2>5 DEF LineOK, NoneCloses
<1>2. ASSUME conn[c] = "disconnecting", c \notin Pipelining
      PROVE  ~Expects(c) /\ \A r \in 1..Len(sent[c]) : Complete(c, r)
  <2>1. /\ \A r \in 1..Len(sent[c]) : Complete(c, r)
        /\ mail[c] = <<>> /\ \A r \in Requests : ~Pending(c, r)
    BY <1>2 DEF IInv, AllAnswered, Answered
  <2> QED BY <2>1, NobodyExpects
<1>3. conn[c] = "disconnecting" =>
         \E r \in 1..Len(sent[c]) : IsTheLast(sent[c][r]) /\ Complete(c, r)
  BY DEF IInv, AllAnswered, Answered
<1> QED BY <1>1, <1>2, <1>3

\* Whichever path writes a response, the server shuts the connection down with
\* the response to the request that asks for it, and not before or without it;
\* to a client that waits it then owes nothing, and no functor or worker is left
\* whose frames would be dropped (HttpServer.cc:222, 254, 306, 361, 390, 398,
\* 411, 425).
THEOREM ClosesBehindTheAnswer == Spec => []ClosesWhenAnswered
<1> QED BY AnsweredWhenClosed, GatewayInvariant, PTL
=============================================================================
