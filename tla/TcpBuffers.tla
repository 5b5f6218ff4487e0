----------------------------- MODULE TcpBuffers -----------------------------
(***************************************************************************)
(* TcpOutput with the buffers as they are (Buffer.tla): outputBuffer_      *)
(* implements the sequence that TcpOutput calls outBuf, and inputBuffer_   *)
(* takes in what the peer sends until the application has parsed it.       *)
(***************************************************************************)
EXTENDS TcpOutput, Buffer

CONSTANT MaxInput   \* bound: bytes the peer sends

VARIABLES outputBuffer,
          inputBuffer,
          sentIn,     \* how many bytes the peer has sent
          readIn,     \* how many of them handleRead has read
          taken       \* ghost: what the application has retrieved, in order

inVars == <<inputBuffer, sentIn, readIn, taken>>
bVars == <<vars, outputBuffer, inVars>>

BInit == /\ Init
         /\ outputBuffer = EmptyBuffer
         /\ inputBuffer = EmptyBuffer
         /\ sentIn = 0
         /\ readIn = 0
         /\ taken = <<>>

-----------------------------------------------------------------------------
Added == SubSeq(outBuf', Len(outBuf) + 1, Len(outBuf'))

BSend == /\ \E n \in 1..MaxSend : Send(n)
         /\ outputBuffer' = BufAppend(outputBuffer, Added)
         /\ UNCHANGED inVars

\* writeFd takes bytes from the front, and retrieve drops as many.
BHandleWrite == /\ HandleWrite
                /\ outputBuffer' = Retrieve(outputBuffer, Len(outBuf) - Len(outBuf'))
                /\ UNCHANGED inVars

\* read() returns 0 only behind the last byte.
BHandleClose == /\ HandleClose
                /\ peer = "reset" \/ readIn = sentIn
                /\ UNCHANGED <<outputBuffer, inVars>>

\* handleRead: one readFd, then the message callback, whose parser retrieves
\* what it can use and leaves the rest for the next time.
HandleRead ==
    /\ state # "disconnected"
    /\ peer # "reset"
    /\ \E n \in 1..(sentIn - readIn) :
          /\ n <= ReadFdLimit(inputBuffer)
          /\ readIn' = readIn + n
          /\ LET filled == ReadFd(inputBuffer, Bytes(readIn, readIn + n))
             IN  \E used \in 0..Len(Readable(filled)) :
                    /\ taken' = taken \o SubSeq(Readable(filled), 1, used)
                    /\ inputBuffer' = IF used = 0 THEN filled ELSE Retrieve(filled, used)
    /\ UNCHANGED <<vars, outputBuffer, sentIn>>

PeerSends ==
    /\ peer = "open"
    /\ sentIn < MaxInput
    /\ sentIn' = sentIn + 1
    /\ UNCHANGED <<vars, outputBuffer, inputBuffer, readIn, taken>>

BRest == /\ Shutdown \/ PeerReads \/ PeerCloses \/ PeerResets
         /\ UNCHANGED <<outputBuffer, inVars>>

BNext == BSend \/ BHandleWrite \/ BHandleClose \/ HandleRead \/ PeerSends \/ BRest

BSpec == /\ BInit
         /\ [][BNext]_bVars
         /\ WF_bVars(BHandleWrite)
         /\ WF_bVars(BHandleClose)
         /\ WF_bVars(HandleRead)
         /\ WF_bVars(PeerReads /\ UNCHANGED <<outputBuffer, inVars>>)

-----------------------------------------------------------------------------
\* However often the bytes are moved to the front, the vector grows, or a read
\* overflows to the stack, the output buffer holds what send() left to it, and
\* the application takes what the peer sent, without a gap or a stale byte
\* (Buffer.h:34-110, Buffer.cc:15-59).
BuffersHold ==
    /\ Indexed(outputBuffer) /\ Readable(outputBuffer) = outBuf
    /\ Indexed(inputBuffer)  /\ taken \o Readable(inputBuffer) = Bytes(0, readIn)
=============================================================================
