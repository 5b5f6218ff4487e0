------------------------------ MODULE TcpOutput ------------------------------
(***************************************************************************)
(* The output side of one TcpConnection (src/net/TcpConnection.cc): what   *)
(* send() writes at once, what it leaves to the output buffer and to       *)
(* EPOLLOUT, and how shutdown() waits for both.  Every step runs in the    *)
(* connection's loop: that is where HttpServer calls send and shutdown.    *)
(*                                                                         *)
(* A byte is its position in the stream.  The kernel's send buffer and the *)
(* peer are the environment: a write takes any part of what fits, the peer *)
(* reads, closes or resets when it likes.                                  *)
(***************************************************************************)
EXTENDS Naturals, Sequences

CONSTANTS MaxBytes,   \* bound: bytes given to send
          MaxSend,    \* the longest message
          SockCap     \* room in the kernel's send buffer

ASSUME SizesAssumption == /\ MaxBytes \in Nat
                          /\ MaxSend \in Nat
                          /\ SockCap \in Nat \ {0}

VARIABLES state,      \* state_, from connectEstablished on
          writing,    \* channel_->isWriting()
          outBuf,     \* outputBuffer_
          finSent,    \* shutdownWrite() was called on the socket
          given,      \* ghost: how many bytes send() accepted
          sock,       \* kernel: bytes written and not yet read by the peer
          received,   \* peer: bytes read
          peer        \* "open", "closed" (its end of the stream) or "reset"

vars == <<state, writing, outBuf, finSent, given, sock, received, peer>>
envVars == <<received, peer>>

Init == /\ state = "connected"
        /\ writing = FALSE
        /\ outBuf = <<>>
        /\ finSent = FALSE
        /\ given = 0
        /\ sock = <<>>
        /\ received = <<>>
        /\ peer = "open"

-----------------------------------------------------------------------------
Bytes(a, b) == [i \in 1..(b - a) |-> a + i]     \* the bytes a+1 .. b

Room == SockCap - Len(sock)

\* The message that send() is given: the next n bytes of the stream.
Message(n) == Bytes(given, given + n)

\* sendInLoop: write at once if nothing waits before the message, and keep the
\* rest in the output buffer with EPOLLOUT enabled.
Mut_DirectWriteAlways(n) == ~writing \/ Room >= n

DirectWrite(n) == ~writing /\ outBuf = <<>>

Mut_KeepRest(rest) ==
    /\ outBuf' = outBuf \o rest
    /\ UNCHANGED writing

KeepRest(rest) ==
    /\ outBuf' = outBuf \o rest
    /\ writing' = (writing \/ rest # <<>>)

SendWritesThrough(n) ==
    /\ DirectWrite(n)
    /\ peer # "reset"
    /\ \E k \in 0..n :
          /\ k <= Room
          /\ sock' = sock \o SubSeq(Message(n), 1, k)
          /\ KeepRest(SubSeq(Message(n), k + 1, n))

\* EPIPE or ECONNRESET: the message is dropped.
SendFails(n) ==
    /\ DirectWrite(n)
    /\ peer = "reset"
    /\ UNCHANGED <<writing, outBuf, sock>>

SendBuffers(n) ==
    /\ ~DirectWrite(n)
    /\ KeepRest(Message(n))
    /\ UNCHANGED sock

Send(n) ==
    /\ state = "connected"
    /\ given + n <= MaxBytes
    /\ given' = given + n
    /\ SendWritesThrough(n) \/ SendFails(n) \/ SendBuffers(n)
    /\ UNCHANGED <<state, finSent, envVars>>

-----------------------------------------------------------------------------
Mut_ShutdownInLoop(busy) == finSent' = TRUE

ShutdownInLoop(busy) == finSent' = (finSent \/ ~busy)

Shutdown ==
    /\ state = "connected"
    /\ state' = "disconnecting"
    /\ ShutdownInLoop(writing)
    /\ UNCHANGED <<writing, outBuf, given, sock, envVars>>

\* handleWrite, called on EPOLLOUT: when the buffer is empty, EPOLLOUT is
\* disabled and a shutdown that waited for it is made.
Mut_AfterDrain ==
    /\ writing' = FALSE
    /\ UNCHANGED finSent

AfterDrain ==
    /\ writing' = FALSE
    /\ IF state = "disconnecting" THEN ShutdownInLoop(FALSE) ELSE UNCHANGED finSent

HandleWrite ==
    /\ writing
    /\ peer # "reset"
    /\ \E k \in 1..Len(outBuf) :
          /\ k <= Room
          /\ sock' = sock \o SubSeq(outBuf, 1, k)
          /\ outBuf' = SubSeq(outBuf, k + 1, Len(outBuf))
    /\ IF outBuf' = <<>> THEN AfterDrain ELSE UNCHANGED <<writing, finSent>>
    /\ UNCHANGED <<state, given, envVars>>

\* handleClose, called when read() returns 0: disableAll() also ends the wait
\* for EPOLLOUT, whatever is still in the output buffer.
HandleClose ==
    /\ state # "disconnected"
    /\ peer # "open"
    /\ state' = "disconnected"
    /\ writing' = FALSE
    /\ UNCHANGED <<outBuf, finSent, given, sock, envVars>>

-----------------------------------------------------------------------------
(* The environment.                                                         *)

\* A peer that has closed its own end may still read.
PeerReads ==
    /\ peer # "reset"
    /\ sock # <<>>
    /\ received' = Append(received, Head(sock))
    /\ sock' = Tail(sock)
    /\ UNCHANGED <<state, writing, outBuf, finSent, given, peer>>

PeerCloses ==
    /\ peer = "open"
    /\ peer' = "closed"
    /\ UNCHANGED <<state, writing, outBuf, finSent, given, sock, received>>

PeerResets ==
    /\ peer # "reset"
    /\ peer' = "reset"
    /\ sock' = <<>>
    /\ UNCHANGED <<state, writing, outBuf, finSent, given, received>>

Next == \/ \E n \in 1..MaxSend : Send(n)
        \/ Shutdown
        \/ HandleWrite
        \/ HandleClose
        \/ PeerReads
        \/ PeerCloses
        \/ PeerResets

\* The loop serves its channels; the peer reads while there is something to read.
Spec == /\ Init
        /\ [][Next]_vars
        /\ WF_vars(HandleWrite)
        /\ WF_vars(HandleClose)
        /\ WF_vars(PeerReads)

-----------------------------------------------------------------------------
TypeOK ==
    /\ state \in {"connected", "disconnecting", "disconnected"}
    /\ writing \in BOOLEAN
    /\ outBuf \in Seq(Nat)
    /\ finSent \in BOOLEAN
    /\ given \in Nat
    /\ sock \in Seq(Nat)
    /\ received \in Seq(Nat)
    /\ peer \in {"open", "closed", "reset"}

\* The peer reads a prefix of what send() accepted, and unless it resets the
\* connection nothing is lost, repeated or overtaken between the direct write
\* and the buffered one (TcpConnection.cc:91-145, 212-245).
StreamIntact ==
    /\ \A i \in 1..Len(received) : received[i] = i
    /\ peer # "reset" => received \o sock \o outBuf = Bytes(0, given)

\* The end of the stream comes after all of it: the FIN is never sent while
\* accepted bytes wait in the output buffer (TcpConnection.cc:149-165).
FinIsLast ==
    finSent => outBuf = <<>> /\ state # "connected"

\* EPOLLOUT is watched exactly while bytes wait: neither bytes that nobody will
\* write nor a level-triggered event that fires for ever.
OutputIsWatched ==
    state # "disconnected" => (writing <=> outBuf # <<>>)

\* The inductive invariant behind the three properties above.
IInv == TypeOK /\ StreamIntact /\ FinIsLast /\ OutputIsWatched

\* Accepted bytes reach a peer that neither closes nor resets.
AllDelivered ==
    \A n \in 1..MaxBytes :
        (given >= n) ~> (Len(received) >= n \/ peer # "open")

\* shutdown() ends the stream even when it had to wait for the output buffer.
ShutdownCompletes == (state = "disconnecting") ~> (finSent \/ state = "disconnected")
=============================================================================
