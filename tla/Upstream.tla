------------------------------ MODULE Upstream ------------------------------
(***************************************************************************)
(* The calls a worker makes to the services behind the gateway, and what   *)
(* it tells the client of them: ai/OpenAIClient.cc, agent/AgentClient.cc   *)
(* and the handlers of http/HttpServer.cc that use them.                   *)
(*                                                                         *)
(* A chat is answered from the cache or from a stream of server-sent       *)
(* events that libcurl hands over in pieces of any size; an agent stream   *)
(* is relayed as it comes; an agent reply is collected first.              *)
(*                                                                         *)
(* A byte of a stream is its position.  A line has LineLen bytes, the last *)
(* of them the newline, and is one of script's frames.  The content of a   *)
(* frame is one UTF-8 character: its bytes are <<line, j, width>>.  All    *)
(* chats ask the same question, so that the cache is one entry.            *)
(***************************************************************************)
EXTENDS Naturals, Sequences, FiniteSetsExt, SequencesExt

CONSTANTS Requests,     \* the requests
          MaxLines,     \* bound: lines in a stream
          LineLen,      \* bytes of a line, with its newline
          MaxWidth,     \* bytes of the longest character
          ChunkBytes,   \* kChunkBytes
          NoAnswer      \* the cache has no entry

ASSUME UpstreamAssumption == /\ MaxLines \in Nat
                             /\ LineLen \in Nat \ {0, 1}
                             /\ MaxWidth \in Nat
                             /\ ChunkBytes \in Nat \ {0}

VARIABLES call,     \* per request: the call, its StreamContext and what was sent
          cache     \* cache_'s entry for the question

callVars == <<call, cache>>

\* What upstream may put on a line: a delta (or a whole message), an error
\* object, or anything that is passed over: a comment, another field, an empty
\* data field, [DONE], JSON without choices, broken JSON.
Frames == [kind : {"delta"}, width : 1..MaxWidth]
          \cup [kind : {"error", "skip"}, width : {0}]

NewCall(kind, script) ==
    [kind |-> kind, script |-> script, pc |-> "call", got |-> 0, pending |-> <<>>,
     assembled |-> <<>>, error |-> FALSE, out |-> <<>>, result |-> "none"]

Idle == [NewCall("none", <<>>) EXCEPT !.pc = "idle"]

CallsInit == /\ call = [r \in Requests |-> Idle]
             /\ cache = NoAnswer

-----------------------------------------------------------------------------
Bytes(a, b) == [i \in 1..(b - a) |-> a + i]     \* the bytes a+1 .. b

IsNewline(byte) == byte % LineLen = 0

\* The character on line f of a script, as its bytes.
Content(script, f) == [j \in 1..script[f].width |-> <<f, j, script[f].width>>]

\* What is queued to the loop for the client.
Event(name, bytes) == [event |-> name, bytes |-> bytes]
Tell(c, events) == [c EXCEPT !.out = @ \o events]
Over(c, result, events) == [Tell(c, events) EXCEPT !.pc = "over", !.result = result]

-----------------------------------------------------------------------------
(* OpenAIClient: the stream's parser.                                       *)

Newlines(text) == {i \in DOMAIN text : IsNewline(text[i])}

IsLine(line, f) == line = Bytes((f - 1) * LineLen, f * LineLen - 1)

\* One complete line; a line that is no frame of the script is skipped.
HandleLine(c, line) ==
    IF ~\E f \in DOMAIN c.script : IsLine(line, f) THEN c
    ELSE LET f == CHOOSE g \in DOMAIN c.script : IsLine(line, g)
             content == Content(c.script, f)
         IN  CASE c.script[f].kind = "skip"  -> c
               [] c.script[f].kind = "error" -> [c EXCEPT !.error = TRUE]
               [] c.script[f].kind = "delta" ->
                    Tell([c EXCEPT !.assembled = @ \o content], <<Event("delta", content)>>)

Mut_AfterLine(text, nl) == <<>>

AfterLine(text, nl) == SubSeq(text, nl + 1, Len(text))

\* One round of writeStreamData's loop: the first complete line is taken off.
TakeLine(c) ==
    IF Newlines(c.pending) = {} THEN c
    ELSE LET nl == Min(Newlines(c.pending))
         IN  HandleLine([c EXCEPT !.pending = AfterLine(@, nl)],
                        SubSeq(c.pending, 1, nl - 1))

\* writeStreamData with the next k bytes.  A round takes at least one byte, so
\* that there are no more rounds than bytes.
WriteStreamData(c, k) ==
    LET fed == [c EXCEPT !.got = @ + k, !.pending = @ \o Bytes(c.got, c.got + k)]
        After[n \in 0..Len(fed.pending)] ==
            IF n = 0 THEN fed ELSE TakeLine(After[n - 1])
    IN  After[Len(fed.pending)]

-----------------------------------------------------------------------------
(* HttpServer::handleChatAsync.                                             *)

IsContinuation(byte) == byte[2] > 1

Mut_NextUtf8Boundary(s, from) == Min({from + ChunkBytes, Len(s)})

\* The first boundary between characters at or after from + ChunkBytes.
NextUtf8Boundary(s, from) ==
    Min({next \in Min({from + ChunkBytes, Len(s)})..Len(s) :
            next < Len(s) => ~IsContinuation(s[next + 1])})

\* One round of the loop that cuts the cached answer, and all of it.
Cut(s, at) ==
    IF at.pos = Len(s) THEN at
    ELSE LET next == NextUtf8Boundary(s, at.pos)
         IN  [pos |-> next,
              out |-> Append(at.out, Event("delta", SubSeq(s, at.pos + 1, next)))]

Pieces(s) ==
    LET After[n \in 0..Len(s)] ==
            IF n = 0 THEN [pos |-> 0, out |-> <<>>] ELSE Cut(s, After[n - 1])
    IN  After[Len(s)].out

Hit(r) ==
    /\ call[r].pc = "idle"
    /\ cache # NoAnswer
    /\ call' = [call EXCEPT ![r] =
                    Over(NewCall("chat", <<>>), "hit",
                         Pieces(cache) \o <<Event("done", cache), Event("end", <<>>)>>)]
    /\ UNCHANGED cache

Miss(r) ==
    /\ call[r].pc = "idle"
    /\ cache = NoAnswer
    /\ \E n \in 0..MaxLines : \E script \in [1..n -> Frames] :
          call' = [call EXCEPT ![r] = NewCall("chat", script)]
    /\ UNCHANGED cache

Calling(r, kind) == call[r].pc = "call" /\ call[r].kind = kind

\* How many bytes are left on the wire.
Left(c) == Len(c.script) * LineLen - c.got

ReceiveChat(r) ==
    /\ Calling(r, "chat")
    /\ \E k \in 1..Left(call[r]) :
          call' = [call EXCEPT ![r] = WriteStreamData(call[r], k)]
    /\ UNCHANGED cache

\* The stream ends, wherever it is: complete as far as libcurl can tell ("ok"),
\* with a status of 400 or more, or by an error of the connection.  A missing
\* key ends the call at once.
Mut_HasAnswer(c, result) == result = "ok"

HasAnswer(c, result) == result = "ok" /\ ~c.error

Answer(c) == c.assembled

EndChat(r, result) ==
    /\ Calling(r, "chat")
    /\ LET c == call[r]
           done == HasAnswer(c, result)
           last == IF done THEN Event("done", Answer(c)) ELSE Event("error", <<>>)
       IN  /\ call' = [call EXCEPT ![r] = Over(c, result, <<last, Event("end", <<>>)>>)]
           /\ cache' = IF done THEN Answer(c) ELSE cache

\* Other questions push the entry out (LfuCache).
Evict ==
    /\ cache # NoAnswer
    /\ cache' = NoAnswer
    /\ UNCHANGED call

-----------------------------------------------------------------------------
(* AgentClient, HttpServer::handleAgentStreamAsync and handleAgentJsonAsync. *)

\* Only the length of what the agent sends matters.
StartAgent(r, kind) ==
    /\ call[r].pc = "idle"
    /\ \E n \in 0..MaxLines :
          call' = [call EXCEPT ![r] =
                       NewCall(kind, [i \in 1..n |-> [kind |-> "skip", width |-> 0]])]
    /\ UNCHANGED cache

\* writeStream: the piece becomes one chunk of the response.
ReceiveAgent(r) ==
    /\ Calling(r, "agent")
    /\ \E k \in 1..Left(call[r]) :
          LET c == call[r]
              piece == Event("chunk", Bytes(c.got, c.got + k))
          IN  call' = [call EXCEPT ![r] = Tell([c EXCEPT !.got = @ + k], <<piece>>)]
    /\ UNCHANGED cache

Mut_AfterStream(c, result) ==
    Over(c, result, (IF result = "refused" THEN <<Event("error", <<>>)>> ELSE <<>>)
                    \o <<Event("end", <<>>)>>)

AfterStream(c, result) ==
    Over(c, result, (IF result = "ok" THEN <<>> ELSE <<Event("error", <<>>)>>)
                    \o <<Event("end", <<>>)>>)

\* The callback throws: writeStream returns 0 and libcurl gives up.
ConsumerFails(r) ==
    /\ Calling(r, "agent")
    /\ \E k \in 1..Left(call[r]) :
          call' = [call EXCEPT ![r] =
                       AfterStream([call[r] EXCEPT !.got = @ + k], "failed")]
    /\ UNCHANGED cache

\* With FAILONERROR a response with status 400 or more has no body.
EndAgent(r, result) ==
    /\ Calling(r, "agent")
    /\ result = "refused" => call[r].got = 0
    /\ call' = [call EXCEPT ![r] = AfterStream(call[r], result)]
    /\ UNCHANGED cache

\* writeString
ReceiveJson(r) ==
    /\ Calling(r, "json")
    /\ \E k \in 1..Left(call[r]) :
          LET c == call[r]
          IN  call' = [call EXCEPT ![r] =
                  [c EXCEPT !.got = @ + k, !.assembled = @ \o Bytes(c.got, c.got + k)]]
    /\ UNCHANGED cache

Reply(c, result) == CASE result = "ok"      -> Event("200", c.assembled)
                      [] result = "refused" -> Event("400", c.assembled)
                      [] result = "failed"  -> Event("500", <<>>)

EndJson(r, result) ==
    /\ Calling(r, "json")
    /\ call' = [call EXCEPT ![r] = Over(call[r], result, <<Reply(call[r], result)>>)]
    /\ UNCHANGED cache

Results == {"ok", "refused", "failed"}

CallsNext == \/ \E r \in Requests :
                  \/ Hit(r)
                  \/ Miss(r)
                  \/ ReceiveChat(r)
                  \/ \E result \in Results : EndChat(r, result)
                  \/ \E kind \in {"agent", "json"} : StartAgent(r, kind)
                  \/ ReceiveAgent(r)
                  \/ ConsumerFails(r)
                  \/ \E result \in Results : EndAgent(r, result)
                  \/ ReceiveJson(r)
                  \/ \E result \in Results : EndJson(r, result)
             \/ Evict

CallsSpec == CallsInit /\ [][CallsNext]_callVars

-----------------------------------------------------------------------------
\* Of the received bytes: how many complete lines, and the contents of the
\* deltas among them.
LinesGot(c) == c.got \div LineLen
Contents(c) == FlattenSeq([f \in 1..LinesGot(c) |-> Content(c.script, f)])

Shown(c, name) ==
    FlattenSeq([i \in DOMAIN c.out |->
                   IF c.out[i].event = name THEN c.out[i].bytes ELSE <<>>])

Told(c, name) == \E i \in DOMAIN c.out : c.out[i].event = name

\* However the network cuts the stream, the parser has taken each complete line
\* once and in order, keeps the beginning of the next one, and has seen the error
\* if there was one (OpenAIClient.cc:37-111).
StreamIsReassembled ==
    \A r \in Requests :
        LET c == call[r]
        IN  c.kind = "chat" =>
              /\ c.assembled = Contents(c)
              /\ c.pending = Bytes(LineLen * LinesGot(c), c.got)
              /\ c.error <=> \E f \in 1..LinesGot(c) : c.script[f].kind = "error"

\* A chat that is done has shown the client the answer its history now holds,
\* in whole characters, whether it came from the model or, cut anew, from the
\* cache.  (A piece that ends inside a character would make dump() throw in the
\* loop; HttpServer.cc:46-55, 343-399.)
ShownIsAnswer ==
    \A r \in Requests : Told(call[r], "done") =>
        /\ Shown(call[r], "delta") = Shown(call[r], "done")
        /\ \A i \in DOMAIN call[r].out :
              LET piece == call[r].out[i].bytes
              IN  call[r].out[i].event = "delta" =>
                    Head(piece)[2] = 1 /\ Last(piece)[2] = Last(piece)[3]

\* The cache holds what some chat's stream said before it ended without an
\* error, also without one among its events (HttpServer.cc:386-391,
\* OpenAIClient.cc:288-307).
CacheHoldsGoodAnswers ==
    cache # NoAnswer =>
        \E r \in Requests :
            /\ call[r].kind = "chat" /\ call[r].result = "ok"
            /\ \A f \in 1..LinesGot(call[r]) : call[r].script[f].kind # "error"
            /\ cache = Contents(call[r])

\* An agent stream passes on what the agent sent, in order, and when it ends
\* without an error event nothing is missing; a reply with status 200 has the
\* agent's whole body (AgentClient.cc:73-172, HttpServer.cc:206-256).
AgentIsRelayed ==
    \A r \in Requests :
        LET c == call[r]
        IN  /\ c.kind = "agent" =>
                 /\ IsPrefix(Shown(c, "chunk"), Bytes(0, c.got))
                 /\ Told(c, "end") /\ ~Told(c, "error") =>
                      Shown(c, "chunk") = Bytes(0, c.got) /\ c.result = "ok"
            /\ c.kind = "json" /\ Told(c, "200") =>
                 Shown(c, "200") = Bytes(0, c.got) /\ c.result = "ok"
=============================================================================
