-------------------------- MODULE TcpOutput_proofs --------------------------
(***************************************************************************)
(* TcpOutput keeps the byte stream whole for every message length, every   *)
(* kernel buffer and every stream: its invariant is inductive.  The steps  *)
(* that move bytes from one sequence to the next rest on three facts about *)
(* cutting and joining sequences.                                          *)
(*                                                                         *)
(* The second part is about the buffers themselves (Buffer, TcpBuffers):   *)
(* sliding, growing and overflowing keep what is readable, every step with *)
(* buffers is a step of TcpOutput, and the buffers hold what it says.      *)
(***************************************************************************)
EXTENDS TcpBuffers, SequenceTheorems, TLAPS

LEMMA BytesAreNats ==
    ASSUME NEW a \in Nat, NEW n \in Nat
    PROVE  /\ Bytes(a, a + n) \in Seq(Nat)
           /\ Len(Bytes(a, a + n)) = n
           /\ \A i \in 1..n : Bytes(a, a + n)[i] = a + i
<1>1. Bytes(a, a + n) = [i \in 1..n |-> a + i]
  BY DEF Bytes
<1>2. [i \in 1..n |-> a + i] \in Seq(Nat)
  BY IsASeq
<1>3. Len([i \in 1..n |-> a + i]) = n
  BY <1>2, LenProperties
<1>4. QED
  BY <1>1, <1>2, <1>3

LEMMA Prefixes ==
    ASSUME NEW a \in Nat
    PROVE  /\ Bytes(0, a) \in Seq(Nat)
           /\ Len(Bytes(0, a)) = a
           /\ \A i \in 1..a : Bytes(0, a)[i] = i
<1>1. 0 + a = a /\ 0 \in Nat /\ \A i \in 1..a : 0 + i = i
  OBVIOUS
<1>2. /\ Bytes(0, 0 + a) \in Seq(Nat)
      /\ Len(Bytes(0, 0 + a)) = a
      /\ \A i \in 1..a : Bytes(0, 0 + a)[i] = 0 + i
  BY BytesAreNats, 0 \in Nat
<1>3. QED
  BY <1>1, <1>2

\* A message continues the stream where the last one ended.
LEMMA StreamGrows ==
    ASSUME NEW a \in Nat, NEW n \in Nat
    PROVE  Bytes(0, a) \o Bytes(a, a + n) = Bytes(0, a + n)
<1>1. /\ Bytes(0, a) \in Seq(Nat)
      /\ Len(Bytes(0, a)) = a
      /\ \A i \in 1..a : Bytes(0, a)[i] = i
  BY Prefixes
<1>2. /\ Bytes(a, a + n) \in Seq(Nat)
      /\ Len(Bytes(a, a + n)) = n
      /\ \A i \in 1..n : Bytes(a, a + n)[i] = a + i
  BY BytesAreNats
<1>3. /\ Bytes(0, a + n) \in Seq(Nat)
      /\ Len(Bytes(0, a + n)) = a + n
      /\ \A i \in 1..(a + n) : Bytes(0, a + n)[i] = i
  BY Prefixes, a + n \in Nat
<1> DEFINE s == Bytes(0, a) \o Bytes(a, a + n)
<1>4. /\ s \in Seq(Nat)
      /\ Len(s) = a + n
      /\ \A i \in 1..(a + n) : s[i] = IF i <= a THEN Bytes(0, a)[i]
                                               ELSE Bytes(a, a + n)[i - a]
  <2>1. /\ s \in Seq(Nat)
        /\ Len(s) = Len(Bytes(0, a)) + Len(Bytes(a, a + n))
        /\ \A i \in 1..(Len(Bytes(0, a)) + Len(Bytes(a, a + n))) :
              s[i] = IF i <= Len(Bytes(0, a))
                       THEN Bytes(0, a)[i]
                       ELSE Bytes(a, a + n)[i - Len(Bytes(0, a))]
    BY <1>1, <1>2, ConcatProperties
  <2>2. QED
    BY <2>1, <1>1, <1>2
<1>5. \A i \in 1..(a + n) : s[i] = Bytes(0, a + n)[i]
  <2> SUFFICES ASSUME NEW i \in 1..(a + n) PROVE s[i] = i
    BY <1>3
  <2> HIDE DEF s
  <2>1. CASE i <= a
    <3>1. i \in 1..a /\ s[i] = Bytes(0, a)[i]
      BY <2>1, <1>4
    <3>2. QED
      BY <3>1, <1>1
  <2>2. CASE ~(i <= a)
    <3>1. i - a \in 1..n
      BY <2>2
    <3>2. s[i] = Bytes(a, a + n)[i - a]
      BY <2>2, <1>4
    <3>3. QED
      BY <3>1, <3>2, <1>2
  <2>3. QED
    BY <2>1, <2>2
<1> HIDE DEF s
<1>6. s = Bytes(0, a + n)
  BY <1>3, <1>4, <1>5, SeqEqual
<1>7. QED
  BY <1>6 DEF s

\* Cutting a sequence in two loses nothing.
LEMMA CutAndJoin ==
    ASSUME NEW s \in Seq(Nat), NEW k \in 0..Len(s)
    PROVE  /\ SubSeq(s, 1, k) \in Seq(Nat)
           /\ SubSeq(s, k + 1, Len(s)) \in Seq(Nat)
           /\ SubSeq(s, 1, k) \o SubSeq(s, k + 1, Len(s)) = s
<1>0. /\ Len(s) \in Nat
      /\ \A i \in 1..Len(s) : s[i] \in Nat
  BY LenProperties, ElementOfSeq
<1>1. SubSeq(s, 1, k) \in Seq(Nat)
  BY <1>0, SubSeqProperties
<1>2. SubSeq(s, k + 1, Len(s)) \in Seq(Nat)
  BY <1>0, SubSeqProperties
<1>3. SubSeq(s, 1, k) \o SubSeq(s, k + 1, Len(s)) = SubSeq(s, 1, Len(s))
  BY <1>0, ConcatAdjacentSubSeq, 1 \in 1..(Len(s) + 1), k \in (1 - 1)..Len(s),
     Len(s) \in k..Len(s)
<1>4. QED
  BY <1>1, <1>2, <1>3, SubSeqFull

LEMMA JoinAssociative ==
    ASSUME NEW r \in Seq(Nat), NEW s \in Seq(Nat), NEW t \in Seq(Nat)
    PROVE  (r \o s) \o t = r \o (s \o t)
BY ConcatAssociative, SMTT(30)

\* Handing the first element over loses nothing.
LEMMA HandOver ==
    ASSUME NEW r \in Seq(Nat), NEW s \in Seq(Nat), s # <<>>
    PROVE  /\ Append(r, Head(s)) \in Seq(Nat)
           /\ Tail(s) \in Seq(Nat)
           /\ Append(r, Head(s)) \o Tail(s) = r \o s
<1>1. /\ Head(s) \in Nat
      /\ Tail(s) \in Seq(Nat)
  BY HeadTailProperties
<1>2. /\ Append(r, Head(s)) \in Seq(Nat)
      /\ Append(r, Head(s)) = r \o <<Head(s)>>
      /\ <<Head(s)>> \in Seq(Nat)
  BY <1>1, AppendProperties, AppendIsConcat
<1>3. <<Head(s)>> \o Tail(s) = s
  <2>1. Len(s) \in Nat \ {0}
    BY EmptySeq
  <2>2. 1 \in 1..Len(s) /\ Len(s) \in 1..Len(s)
    BY <2>1
  <2>3. /\ SubSeq(s, 1, Len(s)) = <<s[1]>> \o SubSeq(s, 1 + 1, Len(s))
        /\ SubSeq(s, 1, Len(s)) = s
    BY <2>2, SubSeqRecursiveFirst, SubSeqFull
  <2>4. Tail(s) = SubSeq(s, 2, Len(s)) /\ Head(s) = s[1] /\ 1 + 1 = 2
    BY TailIsSubSeq
  <2>5. QED
    BY <2>3, <2>4
<1>4. QED
  BY <1>1, <1>2, <1>3, ConcatAssociative

-----------------------------------------------------------------------------
LEMMA InitIInv == Init => IInv
<1> SUFFICES ASSUME Init PROVE IInv
  OBVIOUS
<1>1. <<>> \in Seq(Nat) /\ Len(<<>>) = 0
  BY EmptySeq
<1>2. Bytes(0, 0) = <<>>
  BY Prefixes, EmptySeq, 0 \in Nat
<1>3. <<>> \o <<>> \o <<>> = <<>>
  BY <1>1, ConcatEmptySeq
<1>4. TypeOK
  BY <1>1 DEF Init, TypeOK
<1>5. StreamIntact
  BY <1>1, <1>2, <1>3 DEF Init, StreamIntact
<1>6. FinIsLast /\ OutputIsWatched
  BY DEF Init, FinIsLast, OutputIsWatched
<1>7. QED
  BY <1>4, <1>5, <1>6 DEF IInv

\* Bytes that go from one side to the kernel stay where they were in the stream.
LEMMA PushedBytesStay ==
    ASSUME received \in Seq(Nat), sock \in Seq(Nat),
           NEW h \in Seq(Nat), NEW t \in Seq(Nat)
    PROVE  (received \o (sock \o h)) \o t = (received \o sock) \o (h \o t)
<1>1. received \o (sock \o h) = (received \o sock) \o h
  BY Zenon, JoinAssociative
<1>2. received \o sock \in Seq(Nat)
  BY ConcatProperties
<1>3. ((received \o sock) \o h) \o t = (received \o sock) \o (h \o t)
  BY <1>2, Zenon, JoinAssociative
<1>4. QED
  BY <1>1, <1>3, Zenon

\* A message written through: a part goes to the kernel, the rest waits.
LEMMA WriteThroughIsWhole ==
    ASSUME IInv, NEW n \in Nat, SendWritesThrough(n)
    PROVE  /\ sock' \in Seq(Nat) /\ outBuf' \in Seq(Nat)
           /\ received \o sock' \o outBuf' = (received \o sock \o outBuf) \o Message(n)
           /\ writing' \in BOOLEAN
           /\ writing' <=> outBuf' # <<>>
<1> DEFINE m == Message(n)
<1>1. m \in Seq(Nat) /\ Len(m) = n
  BY BytesAreNats DEF IInv, TypeOK, Message
<1> HIDE DEF m
<1>2. PICK k \in 0..n : /\ sock' = sock \o SubSeq(m, 1, k)
                        /\ KeepRest(SubSeq(m, k + 1, n))
  BY DEF SendWritesThrough, m
<1> DEFINE h == SubSeq(m, 1, k)
           t == SubSeq(m, k + 1, n)
<1>3. h \in Seq(Nat) /\ t \in Seq(Nat) /\ h \o t = m
  BY <1>1, CutAndJoin
<1> HIDE DEF h, t
<1>4. /\ received \in Seq(Nat) /\ sock \in Seq(Nat)
      /\ outBuf = <<>> /\ ~writing
  BY DEF IInv, TypeOK, SendWritesThrough, DirectWrite
<1>5. /\ sock' = sock \o h
      /\ outBuf' = <<>> \o t
      /\ writing' = (writing \/ t # <<>>)
  BY <1>2, <1>4 DEF KeepRest, h, t
<1>6. outBuf' = t
  BY <1>3, <1>5, ConcatEmptySeq
<1>7. sock' \in Seq(Nat)
  BY <1>3, <1>4, <1>5, ConcatProperties
<1>8. received \o sock' \o t = (received \o sock) \o (h \o t)
  <2>1. (received \o (sock \o h)) \o t = (received \o sock) \o (h \o t)
    BY <1>3, <1>4, Zenon, PushedBytesStay
  <2>2. QED
    BY <1>5, <2>1
<1>9. received \o sock \in Seq(Nat)
  BY <1>4, ConcatProperties
<1>10. (received \o sock) \o outBuf = received \o sock
  BY <1>4, <1>9, ConcatEmptySeq
<1>11. QED
  BY <1>3, <1>4, <1>5, <1>6, <1>7, <1>8, <1>10 DEF m

\* A message behind others: all of it waits.
LEMMA BufferedIsWhole ==
    ASSUME IInv, NEW n \in Nat \ {0}, SendBuffers(n), state = "connected"
    PROVE  /\ outBuf' \in Seq(Nat)
           /\ received \o sock' \o outBuf' = (received \o sock \o outBuf) \o Message(n)
           /\ writing' \in BOOLEAN
           /\ writing' <=> outBuf' # <<>>
<1> DEFINE m == Message(n)
<1>1. m \in Seq(Nat) /\ Len(m) = n /\ m # <<>>
  BY BytesAreNats, EmptySeq DEF IInv, TypeOK, Message
<1>2. /\ received \in Seq(Nat) /\ sock \in Seq(Nat) /\ outBuf \in Seq(Nat)
      /\ writing \in BOOLEAN
  BY DEF IInv, TypeOK
<1>3. /\ sock' = sock
      /\ outBuf' = outBuf \o m
      /\ writing' = TRUE
  BY <1>1 DEF SendBuffers, KeepRest
<1> HIDE DEF m
<1>4. outBuf' \in Seq(Nat) /\ outBuf' # <<>>
  BY <1>1, <1>2, <1>3, ConcatProperties, ConcatEqualIffEmpty
<1>5. received \o sock \in Seq(Nat)
  BY <1>2, ConcatProperties
<1>6. ((received \o sock) \o outBuf) \o m = (received \o sock) \o (outBuf \o m)
  BY <1>1, <1>2, <1>5, Zenon, JoinAssociative
<1>7. QED
  BY <1>3, <1>4, <1>6 DEF m

LEMMA SendKeepsIInv ==
    ASSUME IInv, NEW n \in 1..MaxSend, Send(n)
    PROVE  IInv'
<1>1. n \in Nat \ {0} /\ given \in Nat /\ given + n \in Nat
  BY SizesAssumption DEF IInv, TypeOK
<1>2. /\ state = "connected" /\ state' = state
      /\ given' = given + n
      /\ ~finSent /\ finSent' = finSent
      /\ received' = received /\ peer' = peer
  BY DEF Send, envVars, IInv, TypeOK, FinIsLast
<1>3. Bytes(0, given) \o Message(n) = Bytes(0, given')
  BY <1>1, <1>2, StreamGrows DEF Message
<1>4. FinIsLast'
  BY <1>2 DEF FinIsLast
<1>5. CASE SendFails(n)
  <2>1. /\ peer' = "reset"
        /\ UNCHANGED <<writing, outBuf, sock>>
    BY <1>2, <1>5 DEF SendFails
  <2>2. StreamIntact'
    BY <1>2, <2>1 DEF IInv, StreamIntact
  <2>3. TypeOK' /\ OutputIsWatched'
    BY <1>1, <1>2, <2>1 DEF IInv, TypeOK, OutputIsWatched
  <2>4. QED
    BY <1>4, <2>2, <2>3 DEF IInv
<1>6. CASE SendWritesThrough(n) \/ SendBuffers(n)
  <2>1. /\ sock' \in Seq(Nat) /\ outBuf' \in Seq(Nat)
        /\ received \o sock' \o outBuf' = (received \o sock \o outBuf) \o Message(n)
        /\ writing' \in BOOLEAN
        /\ writing' <=> outBuf' # <<>>
    <3>1. CASE SendWritesThrough(n)
      BY <1>1, <3>1, WriteThroughIsWhole
    <3>2. CASE SendBuffers(n)
      <4>1. sock' \in Seq(Nat)
        BY <3>2 DEF SendBuffers, IInv, TypeOK
      <4>2. QED
        BY <1>1, <1>2, <3>2, <4>1, BufferedIsWhole
    <3>3. QED
      BY <1>6, <3>1, <3>2
  <2>2. StreamIntact'
    BY <1>2, <1>3, <2>1 DEF IInv, StreamIntact
  <2>3. TypeOK'
    BY <1>1, <1>2, <2>1 DEF IInv, TypeOK
  <2>4. OutputIsWatched'
    BY <2>1 DEF OutputIsWatched
  <2>5. QED
    BY <1>4, <2>2, <2>3, <2>4 DEF IInv
<1>7. QED
  BY <1>5, <1>6 DEF Send

LEMMA HandleWriteKeepsIInv ==
    ASSUME IInv, HandleWrite
    PROVE  IInv'
<1>1. PICK k \in 1..Len(outBuf) :
          /\ sock' = sock \o SubSeq(outBuf, 1, k)
          /\ outBuf' = SubSeq(outBuf, k + 1, Len(outBuf))
  BY DEF HandleWrite
<1> DEFINE h == SubSeq(outBuf, 1, k)
           t == SubSeq(outBuf, k + 1, Len(outBuf))
<1>2. /\ received \in Seq(Nat) /\ sock \in Seq(Nat) /\ outBuf \in Seq(Nat)
      /\ Len(outBuf) \in Nat
  BY LenProperties DEF IInv, TypeOK
<1>3. h \in Seq(Nat) /\ t \in Seq(Nat) /\ h \o t = outBuf
  BY <1>2, k \in 0..Len(outBuf), CutAndJoin
<1> HIDE DEF h, t
<1>4. sock' = sock \o h /\ outBuf' = t
  BY <1>1 DEF h, t
<1>5. sock' \in Seq(Nat) /\ outBuf' \in Seq(Nat)
  BY <1>2, <1>3, <1>4, ConcatProperties
<1>6. received \o sock' \o outBuf' = received \o sock \o outBuf
  <2>1. (received \o (sock \o h)) \o t = (received \o sock) \o (h \o t)
    BY <1>2, <1>3, Zenon, PushedBytesStay
  <2>2. QED
    BY <1>3, <1>4, <2>1
<1>7. /\ writing /\ outBuf # <<>> /\ ~finSent
      /\ state' = state /\ given' = given
      /\ received' = received /\ peer' = peer
  <2>1. outBuf # <<>>
    BY <1>2, EmptySeq
  <2>2. QED
    BY <2>1 DEF HandleWrite, envVars, IInv, FinIsLast
<1>8. StreamIntact'
  BY <1>6, <1>7 DEF IInv, StreamIntact
<1>9. CASE outBuf' = <<>>
  <2>1. writing' = FALSE /\ finSent' \in BOOLEAN
        /\ (finSent' => state = "disconnecting")
    BY <1>7, <1>9 DEF HandleWrite, AfterDrain, ShutdownInLoop, IInv, TypeOK
  <2>2. TypeOK'
    BY <1>5, <1>7, <2>1 DEF IInv, TypeOK
  <2>3. FinIsLast'
    BY <1>7, <1>9, <2>1 DEF FinIsLast
  <2>4. OutputIsWatched'
    BY <1>9, <2>1 DEF OutputIsWatched
  <2>5. QED
    BY <1>8, <2>2, <2>3, <2>4 DEF IInv
<1>10. CASE outBuf' # <<>>
  <2>1. writing' = writing /\ finSent' = finSent
    BY <1>10 DEF HandleWrite
  <2>2. TypeOK'
    BY <1>5, <1>7, <2>1 DEF IInv, TypeOK
  <2>3. FinIsLast' /\ OutputIsWatched'
    BY <1>7, <1>10, <2>1 DEF FinIsLast, OutputIsWatched
  <2>4. QED
    BY <1>8, <2>2, <2>3 DEF IInv
<1>11. QED
  BY <1>9, <1>10

LEMMA PeerReadsKeepsIInv ==
    ASSUME IInv, PeerReads
    PROVE  IInv'
<1>1. /\ received \in Seq(Nat) /\ sock \in Seq(Nat) /\ sock # <<>>
      /\ received' = Append(received, Head(sock))
      /\ sock' = Tail(sock)
      /\ peer # "reset"
      /\ UNCHANGED <<state, writing, outBuf, finSent, given, peer>>
  BY DEF PeerReads, IInv, TypeOK
<1>2. /\ received' \in Seq(Nat)
      /\ sock' \in Seq(Nat)
      /\ received' \o sock' = received \o sock
  BY <1>1, HandOver
<1>3. TypeOK' /\ FinIsLast' /\ OutputIsWatched'
  BY <1>1, <1>2 DEF IInv, TypeOK, FinIsLast, OutputIsWatched
<1>4. received' \o sock' \o outBuf' = Bytes(0, given')
  BY <1>1, <1>2 DEF IInv, StreamIntact
<1>5. \A i \in 1..Len(received') : received'[i] = i
  <2> SUFFICES ASSUME NEW i \in 1..Len(received') PROVE received'[i] = i
    OBVIOUS
  <2> DEFINE r == received'
             rs == received' \o sock'
             all == received' \o sock' \o outBuf'
  <2>1. /\ r \in Seq(Nat) /\ sock' \in Seq(Nat) /\ outBuf' \in Seq(Nat)
        /\ Len(r) \in Nat /\ Len(sock') \in Nat /\ Len(outBuf') \in Nat
    BY <1>2, <1>3, LenProperties DEF TypeOK
  <2>2. /\ rs \in Seq(Nat)
        /\ Len(rs) = Len(r) + Len(sock')
        /\ rs[i] = r[i]
    BY <2>1, ConcatProperties
  <2>3. /\ Len(all) = Len(rs) + Len(outBuf')
        /\ all[i] = rs[i]
    BY <2>1, <2>2, ConcatProperties
  <2>4. all = Bytes(0, given') /\ given' \in Nat
    BY <1>3, <1>4 DEF TypeOK
  <2>5. i \in 1..Len(all) /\ Len(Bytes(0, given')) = given'
    BY <2>1, <2>2, <2>3, <2>4, Prefixes
  <2>6. Bytes(0, given')[i] = i
    BY <2>4, <2>5, Prefixes
  <2>7. QED
    BY <2>2, <2>3, <2>4, <2>6
<1>6. StreamIntact'
  BY <1>4, <1>5 DEF StreamIntact
<1>7. QED
  BY <1>3, <1>6 DEF IInv

LEMMA NextIInv == IInv /\ [Next]_vars => IInv'
<1> SUFFICES ASSUME IInv, [Next]_vars PROVE IInv'
  OBVIOUS
<1>1. ASSUME NEW n \in 1..MaxSend, Send(n) PROVE IInv'
  BY <1>1, SendKeepsIInv
<1>2. CASE Shutdown
  <2>1. /\ state' = "disconnecting" /\ ~finSent
        /\ finSent' = ~writing
        /\ (writing <=> outBuf # <<>>)
        /\ UNCHANGED <<writing, outBuf, given, sock, received, peer>>
    BY <1>2 DEF Shutdown, ShutdownInLoop, envVars, IInv, TypeOK, FinIsLast, OutputIsWatched
  <2>2. TypeOK' /\ FinIsLast' /\ OutputIsWatched'
    BY <2>1 DEF IInv, TypeOK, FinIsLast, OutputIsWatched
  <2>3. StreamIntact'
    BY <2>1 DEF IInv, StreamIntact
  <2>4. QED
    BY <2>2, <2>3 DEF IInv
<1>3. CASE HandleWrite
  BY <1>3, HandleWriteKeepsIInv
<1>4. CASE HandleClose
  <2>1. TypeOK' /\ FinIsLast' /\ OutputIsWatched'
    BY <1>4 DEF HandleClose, envVars, IInv, TypeOK, FinIsLast, OutputIsWatched
  <2>2. StreamIntact'
    BY <1>4 DEF HandleClose, envVars, IInv, StreamIntact
  <2>3. QED
    BY <2>1, <2>2 DEF IInv
<1>5. CASE PeerReads
  BY <1>5, PeerReadsKeepsIInv
<1>6. CASE PeerCloses
  BY <1>6 DEF PeerCloses, IInv, TypeOK, StreamIntact, FinIsLast, OutputIsWatched
<1>7. CASE PeerResets
  BY <1>7, EmptySeq DEF PeerResets, IInv, TypeOK, StreamIntact, FinIsLast, OutputIsWatched
<1>8. CASE UNCHANGED vars
  BY <1>8 DEF vars, IInv, TypeOK, StreamIntact, FinIsLast, OutputIsWatched
<1>9. QED
  BY <1>1, <1>2, <1>3, <1>4, <1>5, <1>6, <1>7, <1>8 DEF Next

\* The stream of a connection is whole, its output is watched and its end comes
\* last, whatever send() is given and however the kernel takes it.
THEOREM OutputInvariant == Spec => []IInv
<1>1. Init => IInv
  BY InitIInv
<1>2. IInv /\ [Next]_vars => IInv'
  BY NextIInv
<1>3. QED
  BY <1>1, <1>2, PTL DEF Spec

\* The peer reads a prefix of what send() accepted, and nothing in between is
\* lost, repeated or reordered (TcpConnection.cc:91-145, 212-245).
THEOREM StreamIsIntact == Spec => []StreamIntact
<1>1. IInv => StreamIntact
  BY DEF IInv
<1>2. QED
  BY <1>1, OutputInvariant, PTL

\* No accepted byte is behind the FIN (TcpConnection.cc:149-165).
THEOREM FinComesLast == Spec => []FinIsLast
<1>1. IInv => FinIsLast
  BY DEF IInv
<1>2. QED
  BY <1>1, OutputInvariant, PTL

-----------------------------------------------------------------------------
(* The buffers.                                                             *)

Buffers == [cells : Seq(Nat), reader : Nat, writer : Nat]

LEMMA BlankCells ==
    ASSUME NEW n \in Nat
    PROVE  Blank(n) \in Seq(Nat) /\ Len(Blank(n)) = n
<1> DEFINE zeros == [i \in 1..n |-> 0]
<1>1. \A i \in 1..n : zeros[i] \in Nat
  OBVIOUS
<1> HIDE DEF zeros
<1>2. /\ SubSeq(zeros, 1, n) \in Seq(Nat)
      /\ Len(SubSeq(zeros, 1, n)) = IF 1 <= n THEN n - 1 + 1 ELSE 0
  BY <1>1, SubSeqProperties, 1 \in Int, n \in Int
<1>3. QED
  BY <1>2 DEF Blank, zeros

\* std::copy inside the vector replaces the bytes it writes and no others.
LEMMA Copied ==
    ASSUME NEW cells \in Seq(Nat), NEW data \in Seq(Nat), NEW at \in Nat,
           at + Len(data) <= Len(cells)
    PROVE  /\ CopyTo(cells, at, data) \in Seq(Nat)
           /\ Len(CopyTo(cells, at, data)) = Len(cells)
           /\ \A i \in 1..Len(cells) :
                 CopyTo(cells, at, data)[i] = IF i <= at \/ i > at + Len(data)
                                              THEN cells[i] ELSE data[i - at]
<1> DEFINE m == Len(cells)
           n == Len(data)
           h == SubSeq(cells, 1, at)
           t == SubSeq(cells, at + n + 1, m)
           hd == h \o data
           all == hd \o t
<1>1. /\ m \in Nat /\ n \in Nat /\ at + n <= m
      /\ \A i \in 1..m : cells[i] \in Nat
  BY LenProperties, ElementOfSeq
<1>2. /\ h \in Seq(Nat)
      /\ Len(h) = at
      /\ \A i \in 1..at : h[i] = cells[i]
  <2> HIDE DEF m, n
  <2>1. \A i \in 1..at : cells[i] \in Nat
    BY <1>1
  <2>2. /\ SubSeq(cells, 1, at) \in Seq(Nat)
        /\ Len(SubSeq(cells, 1, at)) = IF 1 <= at THEN at - 1 + 1 ELSE 0
        /\ \A i \in 1..(at - 1 + 1) : SubSeq(cells, 1, at)[i] = cells[1 + i - 1]
    BY <2>1, SubSeqProperties, 1 \in Int, at \in Int, SMTT(30)
  <2>3. at - 1 + 1 = at /\ \A i \in 1..at : 1 + i - 1 = i
    OBVIOUS
  <2>4. QED
    BY <2>2, <2>3
<1>3. /\ t \in Seq(Nat)
      /\ Len(t) = m - (at + n)
      /\ \A i \in 1..(m - (at + n)) : t[i] = cells[at + n + i]
  <2> HIDE DEF m, n
  <2> DEFINE a == at + n + 1
  <2>1. a \in Int /\ m \in Int /\ \A i \in a..m : cells[i] \in Nat
    BY <1>1
  <2>2. m - a + 1 = m - (at + n) /\ \A i \in Int : a + i - 1 = at + n + i
    BY <1>1
  <2> HIDE DEF a
  <2>3. /\ SubSeq(cells, a, m) \in Seq(Nat)
        /\ Len(SubSeq(cells, a, m)) = IF a <= m THEN m - a + 1 ELSE 0
        /\ \A i \in 1..(m - a + 1) : SubSeq(cells, a, m)[i] = cells[a + i - 1]
    BY <2>1, SubSeqProperties
  <2>4. (IF a <= m THEN m - a + 1 ELSE 0) = m - (at + n)
    BY <1>1 DEF a
  <2>5. \A i \in 1..(m - (at + n)) : cells[a + i - 1] = cells[at + n + i]
    BY <1>1, <2>2
  <2>6. QED
    BY <2>2, <2>3, <2>4, <2>5 DEF a
<1> HIDE DEF m, n, h, t
<1>4. n = Len(data) /\ \A i \in 1..n : data[i] \in Nat
  BY ElementOfSeq DEF n
<1>5. /\ hd \in Seq(Nat)
      /\ Len(hd) = at + n
      /\ \A i \in 1..(at + n) : hd[i] = IF i <= at THEN h[i] ELSE data[i - at]
  BY <1>2, <1>4, ConcatProperties
<1> HIDE DEF hd
<1>6. /\ all \in Seq(Nat)
      /\ Len(all) = m
      /\ \A i \in 1..m : all[i] = IF i <= at + n THEN hd[i] ELSE t[i - (at + n)]
  <2>1. /\ all \in Seq(Nat)
        /\ Len(all) = Len(hd) + Len(t)
        /\ \A i \in 1..(Len(hd) + Len(t)) :
              all[i] = IF i <= Len(hd) THEN hd[i] ELSE t[i - Len(hd)]
    <3>1. hd \in Seq(Nat) /\ t \in Seq(Nat)
      BY <1>3, <1>5
    <3>2. QED
      BY <3>1, ConcatProperties, Zenon
  <2>2. Len(hd) + Len(t) = m
    BY <1>1, <1>3, <1>5
  <2>3. QED
    BY <2>1, <2>2, <1>5
<1> HIDE DEF all
<1>7. all = CopyTo(cells, at, data)
  <2>1. SubSeq(all, 1, m) = all
    BY <1>6, SubSeqFull
  <2>2. CopyTo(cells, at, data) = SubSeq(all, 1, m)
    BY DEF CopyTo, all, hd, h, t, m, n
  <2>3. QED
    BY <2>1, <2>2
<1>8. ASSUME NEW i \in 1..m
      PROVE  all[i] = IF i <= at \/ i > at + n THEN cells[i] ELSE data[i - at]
  <2>1. CASE i <= at
    BY <1>1, <1>2, <1>5, <1>6, <2>1, SMTT(30)
  <2>2. CASE i > at /\ i <= at + n
    BY <1>1, <1>5, <1>6, <2>2
  <2>3. CASE i > at + n
    <3>1. all[i] = t[i - (at + n)]
      BY <1>1, <1>6, <2>3
    <3>2. i - (at + n) \in 1..(m - (at + n)) /\ at + n + (i - (at + n)) = i
      BY <1>1, <2>3
    <3>3. t[i - (at + n)] = cells[i]
      BY <1>3, <3>2
    <3>4. QED
      BY <3>1, <3>3, <2>3, <1>1
  <2>4. QED
    BY <2>1, <2>2, <2>3, <1>1
<1>9. QED
  BY <1>6, <1>7, <1>8 DEF m, n

LEMMA CopiedInPlace ==
    ASSUME NEW cells \in Seq(Nat), NEW data \in Seq(Nat), NEW at \in Nat,
           at + Len(data) <= Len(cells)
    PROVE  /\ CopyTo(cells, at, data) \in Seq(Nat)
           /\ Len(CopyTo(cells, at, data)) = Len(cells)
           /\ \A i \in 1..at : CopyTo(cells, at, data)[i] = cells[i]
           /\ \A i \in 1..Len(data) : CopyTo(cells, at, data)[at + i] = data[i]
<1>1. PICK w \in Seq(Nat) :
          /\ w = CopyTo(cells, at, data)
          /\ Len(w) = Len(cells)
          /\ \A i \in 1..Len(cells) : w[i] = IF i <= at \/ i > at + Len(data)
                                            THEN cells[i] ELSE data[i - at]
  BY Copied
<1>2. Len(cells) \in Nat /\ Len(data) \in Nat
  BY LenProperties
<1>3. \A i \in 1..at : w[i] = cells[i]
  BY <1>1, <1>2
<1>4. ASSUME NEW i \in 1..Len(data) PROVE w[at + i] = data[i]
  <2> DEFINE j == at + i
  <2>1. /\ j \in 1..Len(cells) /\ ~(j <= at) /\ ~(j > at + Len(data)) /\ j - at = i
    BY <1>2
  <2> HIDE DEF j
  <2>2. w[j] = data[i]
    BY <1>1, <2>1
  <2>3. QED
    BY <2>2 DEF j
<1>5. QED
  BY <1>1, <1>3, <1>4

\* What is readable, byte by byte.
LEMMA ReadableBytes ==
    ASSUME NEW b \in Buffers, Indexed(b)
    PROVE  /\ Readable(b) \in Seq(Nat)
           /\ Len(Readable(b)) = b.writer - b.reader
           /\ \A i \in 1..(b.writer - b.reader) : Readable(b)[i] = b.cells[b.reader + i]
<1>1. /\ b.cells \in Seq(Nat) /\ b.reader \in Nat /\ b.writer \in Nat
      /\ b.reader <= b.writer /\ b.writer <= Len(b.cells)
  BY DEF Buffers, Indexed
<1>2. PICK r \in Nat, w \in Nat, c \in Seq(Nat) :
          r = b.reader /\ w = b.writer /\ c = b.cells
  BY <1>1
<1>3. Len(c) \in Nat /\ r <= w /\ w <= Len(c) /\ \A i \in 1..Len(c) : c[i] \in Nat
  BY <1>1, <1>2, LenProperties, ElementOfSeq
<1>4. r + 1 \in Int /\ w \in Int /\ \A i \in (r + 1)..w : c[i] \in Nat
  BY <1>3
<1>5. /\ SubSeq(c, r + 1, w) \in Seq(Nat)
      /\ Len(SubSeq(c, r + 1, w)) = IF r + 1 <= w THEN w - (r + 1) + 1 ELSE 0
      /\ \A i \in 1..(w - (r + 1) + 1) : SubSeq(c, r + 1, w)[i] = c[(r + 1) + i - 1]
  BY <1>4, SubSeqProperties
<1>6. /\ (IF r + 1 <= w THEN w - (r + 1) + 1 ELSE 0) = w - r
      /\ w - (r + 1) + 1 = w - r
      /\ \A i \in 1..(w - r) : (r + 1) + i - 1 = r + i
  BY <1>3
<1>7. Readable(b) = SubSeq(c, r + 1, w)
  BY <1>2 DEF Readable
<1>8. \A i \in 1..(w - r) : SubSeq(c, r + 1, w)[i] = c[r + i]
  BY <1>5, <1>6
<1>9. QED
  BY <1>2, <1>5, <1>6, <1>7, <1>8

Intact(b) == b \in Buffers /\ Indexed(b)

\* Two buffers with the same bytes between their indices hold the same bytes.
LEMMA SameBytes ==
    ASSUME NEW b \in Buffers, Indexed(b), NEW c \in Buffers, Indexed(c),
           c.writer - c.reader = b.writer - b.reader,
           \A i \in 1..(b.writer - b.reader) : c.cells[c.reader + i] = b.cells[b.reader + i]
    PROVE  Readable(c) = Readable(b)
<1>1. /\ Readable(b) \in Seq(Nat)
      /\ Len(Readable(b)) = b.writer - b.reader
      /\ \A i \in 1..(b.writer - b.reader) : Readable(b)[i] = b.cells[b.reader + i]
  BY ReadableBytes
<1>2. /\ Readable(c) \in Seq(Nat)
      /\ Len(Readable(c)) = c.writer - c.reader
      /\ \A i \in 1..(c.writer - c.reader) : Readable(c)[i] = c.cells[c.reader + i]
  BY ReadableBytes
<1>3. \A i \in 1..Len(Readable(c)) : Readable(c)[i] = Readable(b)[i]
  BY <1>1, <1>2
<1>4. QED
  BY <1>1, <1>2, <1>3, SeqEqual

LEMMA EmptyIsIntact == Intact(EmptyBuffer) /\ Readable(EmptyBuffer) = <<>>
<1>1. CheapPrepend \in Nat /\ InitialSize \in Nat /\ CheapPrepend + InitialSize \in Nat
  BY BufferAssumption
<1>2. /\ Blank(CheapPrepend + InitialSize) \in Seq(Nat)
      /\ Len(Blank(CheapPrepend + InitialSize)) = CheapPrepend + InitialSize
  BY <1>1, BlankCells
<1>3. /\ EmptyBuffer.cells = Blank(CheapPrepend + InitialSize)
      /\ EmptyBuffer.reader = CheapPrepend /\ EmptyBuffer.writer = CheapPrepend
  BY DEF EmptyBuffer
<1>4. EmptyBuffer \in Buffers
  BY <1>1, <1>2 DEF EmptyBuffer, Buffers
<1>5. Indexed(EmptyBuffer)
  BY <1>1, <1>2, <1>3 DEF Indexed
<1>6. Readable(EmptyBuffer) \in Seq(Nat) /\ Len(Readable(EmptyBuffer)) = 0
  BY <1>1, <1>3, <1>4, <1>5, ReadableBytes
<1>7. QED
  BY <1>4, <1>5, <1>6, EmptySeq DEF Intact

LEMMA NewCells ==
    ASSUME NEW b \in Buffers, NEW v \in Seq(Nat)
    PROVE  /\ [b EXCEPT !.cells = v] \in Buffers
           /\ [b EXCEPT !.cells = v].cells = v
           /\ [b EXCEPT !.cells = v].reader = b.reader
           /\ [b EXCEPT !.cells = v].writer = b.writer
BY DEF Buffers

\* The vector grows behind its end.
LEMMA ResizeKeeps ==
    ASSUME NEW b, Intact(b), NEW size \in Nat, Len(b.cells) <= size
    PROVE  /\ Intact(Resize(b, size))
           /\ Readable(Resize(b, size)) = Readable(b)
           /\ Writable(Resize(b, size)) = size - b.writer
<1> DEFINE c == Resize(b, size)
           add == Blank(size - Len(b.cells))
<1>1. /\ b \in Buffers /\ Indexed(b)
      /\ b.cells \in Seq(Nat) /\ b.reader \in Nat /\ b.writer \in Nat
      /\ CheapPrepend <= b.reader /\ b.reader <= b.writer /\ b.writer <= Len(b.cells)
      /\ Len(b.cells) \in Nat
  BY LenProperties DEF Intact, Buffers, Indexed
<1>2. add \in Seq(Nat) /\ Len(add) = size - Len(b.cells)
  BY <1>1, BlankCells, size - Len(b.cells) \in Nat
<1>3. c = [b EXCEPT !.cells = b.cells \o add]
  BY Zenon DEF Resize
<1> HIDE DEF c, add
<1>5. /\ b.cells \o add \in Seq(Nat)
      /\ Len(b.cells \o add) = Len(b.cells) + Len(add)
      /\ \A i \in 1..(Len(b.cells) + Len(add)) :
            (b.cells \o add)[i] = IF i <= Len(b.cells) THEN b.cells[i]
                                                       ELSE add[i - Len(b.cells)]
  BY <1>1, <1>2, ConcatProperties
<1>4. /\ c \in Buffers
      /\ c.cells = b.cells \o add /\ c.reader = b.reader /\ c.writer = b.writer
  BY <1>1, <1>3, <1>5, NewCells
<1>6. Len(c.cells) = size /\ \A i \in 1..Len(b.cells) : c.cells[i] = b.cells[i]
  BY <1>1, <1>2, <1>4, <1>5
<1>8. Indexed(c)
  BY <1>1, <1>4, <1>6 DEF Indexed
<1>9. \A i \in 1..(b.writer - b.reader) : c.cells[c.reader + i] = b.cells[b.reader + i]
  <2> SUFFICES ASSUME NEW i \in 1..(b.writer - b.reader)
               PROVE  c.cells[c.reader + i] = b.cells[b.reader + i]
    OBVIOUS
  <2>1. b.reader + i \in 1..Len(b.cells)
    BY <1>1
  <2>2. QED
    BY <1>4, <1>6, <2>1
<1>10. Readable(c) = Readable(b)
  BY <1>1, <1>4, <1>8, <1>9, SameBytes
<1>11. QED
  BY <1>4, <1>6, <1>8, <1>10 DEF c, Intact, Writable

\* The readable bytes move to the front, over bytes that were retrieved.
LEMMA SlideKeeps ==
    ASSUME NEW b, Intact(b)
    PROVE  /\ Intact(SlideToFront(b))
           /\ Readable(SlideToFront(b)) = Readable(b)
           /\ Writable(SlideToFront(b)) = Writable(b) + b.reader - CheapPrepend
<1> DEFINE c == SlideToFront(b)
           n == b.writer - b.reader
<1>1. /\ b \in Buffers /\ Indexed(b)
      /\ b.cells \in Seq(Nat) /\ b.reader \in Nat /\ b.writer \in Nat
      /\ CheapPrepend <= b.reader /\ b.reader <= b.writer /\ b.writer <= Len(b.cells)
      /\ Len(b.cells) \in Nat /\ CheapPrepend \in Nat
  BY LenProperties, BufferAssumption DEF Intact, Buffers, Indexed
<1>2. /\ Readable(b) \in Seq(Nat)
      /\ Len(Readable(b)) = n
      /\ \A i \in 1..n : Readable(b)[i] = b.cells[b.reader + i]
  BY <1>1, ReadableBytes
<1>3. n \in Nat /\ CheapPrepend + n <= Len(b.cells)
  BY <1>1
<1> HIDE DEF n
<1>4. /\ c.cells = CopyTo(b.cells, CheapPrepend, Readable(b))
      /\ c.reader = CheapPrepend /\ c.writer = CheapPrepend + n
      /\ c = [cells |-> c.cells, reader |-> c.reader, writer |-> c.writer]
  BY <1>2 DEF SlideToFront
<1> HIDE DEF c
<1>5. /\ c.cells \in Seq(Nat)
      /\ Len(c.cells) = Len(b.cells)
      /\ \A i \in 1..n : c.cells[CheapPrepend + i] = Readable(b)[i]
  <2>1. PICK data \in Seq(Nat), cells \in Seq(Nat) : data = Readable(b) /\ cells = b.cells
    BY <1>1, <1>2
  <2>2. c.cells = CopyTo(cells, CheapPrepend, data)
    BY <1>4, <2>1
  <2>3. Len(data) = n /\ CheapPrepend + Len(data) <= Len(cells)
    BY <1>2, <1>3, <2>1
  <2>4. /\ CopyTo(cells, CheapPrepend, data) \in Seq(Nat)
        /\ Len(CopyTo(cells, CheapPrepend, data)) = Len(cells)
        /\ \A i \in 1..n : CopyTo(cells, CheapPrepend, data)[CheapPrepend + i] = data[i]
    BY <1>1, <2>3, CopiedInPlace
  <2>5. QED
    BY <2>1, <2>2, <2>4
<1>6. c \in Buffers
  BY <1>1, <1>3, <1>4, <1>5 DEF Buffers
<1>7. Indexed(c)
  BY <1>1, <1>3, <1>4, <1>5 DEF Indexed
<1>8. \A i \in 1..n : c.cells[c.reader + i] = b.cells[b.reader + i]
  BY <1>2, <1>4, <1>5
<1>9. c.writer - c.reader = b.writer - b.reader
  BY <1>1, <1>3, <1>4 DEF n
<1>10. Readable(c) = Readable(b)
  BY <1>1, <1>6, <1>7, <1>8, <1>9, SameBytes DEF n
<1>11. Writable(c) = Writable(b) + b.reader - CheapPrepend
  BY <1>1, <1>4, <1>5 DEF Writable, n
<1>12. QED
  BY <1>6, <1>7, <1>10, <1>11 DEF c, Intact

\* ensureWritableBytes makes room and moves no byte out of the readable part.
LEMMA EnsureKeeps ==
    ASSUME NEW b, Intact(b), NEW len \in Nat
    PROVE  /\ Intact(Ensure(b, len))
           /\ Readable(Ensure(b, len)) = Readable(b)
           /\ Writable(Ensure(b, len)) >= len
<1>1. /\ b.reader \in Nat /\ b.writer \in Nat /\ Len(b.cells) \in Nat
      /\ b.writer <= Len(b.cells) /\ CheapPrepend \in Nat
  BY LenProperties, BufferAssumption DEF Intact, Buffers, Indexed
<1>2. CASE ~(Writable(b) < len)
  BY <1>1, <1>2 DEF Ensure, Writable
<1>3. CASE Writable(b) < len /\ Writable(b) + b.reader < len + CheapPrepend
  <2>1. Ensure(b, len) = Resize(b, b.writer + len)
    BY <1>3 DEF Ensure, MakeSpace
  <2>2. b.writer + len \in Nat /\ Len(b.cells) <= b.writer + len
    BY <1>1, <1>3 DEF Writable
  <2>3. QED
    BY <1>1, <2>1, <2>2, ResizeKeeps
<1>4. CASE Writable(b) < len /\ ~(Writable(b) + b.reader < len + CheapPrepend)
  <2>1. Ensure(b, len) = SlideToFront(b)
    BY <1>4 DEF Ensure, MakeSpace
  <2>2. Writable(b) + b.reader - CheapPrepend >= len
    BY <1>1, <1>4 DEF Writable
  <2>3. QED
    BY <2>1, <2>2, SlideKeeps
<1>5. QED
  BY <1>2, <1>3, <1>4

Filled(b, data) == [b EXCEPT !.cells = CopyTo(@, b.writer, data), !.writer = @ + Len(data)]

\* Bytes copied into the writable part become readable behind the others.
LEMMA FilledAppends ==
    ASSUME NEW b, Intact(b), NEW data \in Seq(Nat), Len(data) <= Writable(b)
    PROVE  /\ Intact(Filled(b, data))
           /\ Readable(Filled(b, data)) = Readable(b) \o data
<1>1. PICK cells \in Seq(Nat), r \in Nat, w \in Nat, n \in Nat :
          cells = b.cells /\ r = b.reader /\ w = b.writer /\ n = Len(data)
  BY LenProperties DEF Intact, Buffers
<1> DEFINE v == CopyTo(cells, w, data)
           k == w + n
           c == [b EXCEPT !.cells = v, !.writer = k]
<1>2. /\ b \in Buffers /\ Indexed(b) /\ Len(cells) \in Nat
      /\ CheapPrepend <= r /\ r <= w /\ w + n <= Len(cells)
  BY <1>1, LenProperties DEF Intact, Indexed, Writable
<1>3. /\ v \in Seq(Nat)
      /\ Len(v) = Len(cells)
      /\ \A i \in 1..w : v[i] = cells[i]
      /\ \A i \in 1..n : v[w + i] = data[i]
  <2>1. n = Len(data) /\ w + Len(data) <= Len(cells)
    BY <1>1, <1>2
  <2>2. /\ v \in Seq(Nat)
        /\ Len(v) = Len(cells)
        /\ \A i \in 1..w : v[i] = cells[i]
        /\ \A i \in 1..Len(data) : v[w + i] = data[i]
    BY <2>1, CopiedInPlace
  <2>3. QED
    BY <2>1, <2>2
<1>4. k \in Nat
  OBVIOUS
<1>5. Filled(b, data) = c
  BY <1>1, Zenon DEF Filled
<1> HIDE DEF v, k
<1>6. c \in Buffers /\ c.cells = v /\ c.reader = r /\ c.writer = k
  <2>1. c \in Buffers /\ c.cells = v /\ c.reader = b.reader /\ c.writer = k
    <3>1. b \in Buffers /\ v \in Seq(Nat) /\ k \in Nat
      BY <1>2, <1>3, <1>4
    <3>2. QED
      BY <3>1 DEF Buffers
  <2> HIDE DEF c
  <2>2. QED
    BY <1>1, <2>1
<1> HIDE DEF c
<1>7. Indexed(c)
  BY <1>2, <1>3, <1>6 DEF Indexed, k
<1>8. /\ Readable(c) \in Seq(Nat)
      /\ Len(Readable(c)) = (w - r) + n
      /\ \A i \in 1..((w - r) + n) : Readable(c)[i] = v[r + i]
  <2>1. k - r = (w - r) + n
    BY DEF k
  <2>2. QED
    BY <1>6, <1>7, <2>1, ReadableBytes
<1>9. /\ Readable(b) \in Seq(Nat)
      /\ Len(Readable(b)) = w - r
      /\ \A i \in 1..(w - r) : Readable(b)[i] = cells[r + i]
  BY <1>1, <1>2, ReadableBytes
<1>10. /\ Readable(b) \o data \in Seq(Nat)
       /\ Len(Readable(b) \o data) = (w - r) + n
       /\ \A i \in 1..((w - r) + n) :
             (Readable(b) \o data)[i] = IF i <= w - r THEN Readable(b)[i]
                                                      ELSE data[i - (w - r)]
  <2>1. PICK s \in Seq(Nat) : s = Readable(b)
    BY <1>9
  <2>2. Len(s) = w - r /\ Len(data) = n
    BY <1>1, <1>9, <2>1
  <2>3. /\ s \o data \in Seq(Nat)
        /\ Len(s \o data) = Len(s) + Len(data)
        /\ \A i \in 1..(Len(s) + Len(data)) :
              (s \o data)[i] = IF i <= Len(s) THEN s[i] ELSE data[i - Len(s)]
    BY ConcatProperties
  <2>4. QED
    BY <2>1, <2>2, <2>3
<1>11. ASSUME NEW i \in 1..((w - r) + n)
       PROVE  (Readable(b) \o data)[i] = Readable(c)[i]
  <2>1. CASE i <= w - r
    <3>1. i \in 1..(w - r) /\ r + i \in 1..w
      BY <1>2, <2>1
    <3>2. QED
      BY <1>3, <1>8, <1>9, <1>10, <2>1, <3>1
  <2>2. CASE ~(i <= w - r)
    <3>1. i - (w - r) \in 1..n /\ w + (i - (w - r)) = r + i
      BY <1>2, <2>2
    <3>2. v[r + i] = data[i - (w - r)]
      BY <1>3, <3>1
    <3>3. QED
      BY <1>8, <1>10, <2>2, <3>2
  <2>3. QED
    BY <2>1, <2>2
<1>12. Readable(c) = Readable(b) \o data
  BY <1>8, <1>10, <1>11, SeqEqual
<1>13. QED
  BY <1>5, <1>6, <1>7, <1>12 DEF Intact

\* append: whether the vector had room, was tidied or grew.
LEMMA AppendAppends ==
    ASSUME NEW b, Intact(b), NEW data \in Seq(Nat)
    PROVE  /\ Intact(BufAppend(b, data))
           /\ Readable(BufAppend(b, data)) = Readable(b) \o data
<1> DEFINE space == Ensure(b, Len(data))
<1>1. Len(data) \in Nat
  BY LenProperties
<1>2. /\ Intact(space) /\ Readable(space) = Readable(b) /\ Writable(space) >= Len(data)
  BY <1>1, EnsureKeeps
<1>3. BufAppend(b, data) = Filled(space, data)
  BY DEF BufAppend, Filled
<1> HIDE DEF space
<1>4. Len(data) <= Writable(space)
  BY <1>1, <1>2, LenProperties DEF Writable, Intact, Buffers
<1>5. QED
  BY <1>2, <1>3, <1>4, FilledAppends

\* readFd: what does not fit goes over the stack and behind the rest.
LEMMA ReadFdAppends ==
    ASSUME NEW b, Intact(b), NEW data \in Seq(Nat)
    PROVE  /\ Intact(ReadFd(b, data))
           /\ Readable(ReadFd(b, data)) = Readable(b) \o data
<1> DEFINE w == Writable(b)
<1>1. Len(data) \in Nat /\ w \in Nat
  BY LenProperties DEF Intact, Buffers, Indexed, Writable
<1>2. SubSeq(data, 1, Len(data)) = data
  BY SubSeqFull
<1>3. CASE Len(data) <= w
  <2>1. ReadFd(b, data) = Filled(b, data)
    BY <1>2, <1>3, Zenon DEF ReadFd, Filled
  <2>2. QED
    BY <1>3, <2>1, FilledAppends
<1>4. CASE ~(Len(data) <= w)
  <2> DEFINE h == SubSeq(data, 1, w)
             t == SubSeq(data, w + 1, Len(data))
             full == Filled(b, h)
  <2>1. w \in 0..Len(data)
    BY <1>1, <1>4
  <2>2. h \in Seq(Nat) /\ t \in Seq(Nat) /\ h \o t = data
    BY <2>1, CutAndJoin
  <2>3. Len(h) = w
    <3> HIDE DEF w
    <3>1. \A i \in 1..w : data[i] \in Nat
      BY <1>1, <2>1, ElementOfSeq
    <3>2. Len(SubSeq(data, 1, w)) = IF 1 <= w THEN w - 1 + 1 ELSE 0
      BY <1>1, <3>1, SubSeqProperties, 1 \in Int, w \in Int
    <3>3. QED
      BY <1>1, <3>2
  <2>4. ReadFd(b, data) = BufAppend(full, t)
    BY <1>4, <2>3, Zenon DEF ReadFd, Filled
  <2> HIDE DEF h, t
  <2>5. Len(h) <= Writable(b)
    BY <1>1, <2>3
  <2>6. Intact(full) /\ Readable(full) = Readable(b) \o h
    BY <2>2, <2>5, FilledAppends
  <2> HIDE DEF full
  <2>7. Intact(ReadFd(b, data)) /\ Readable(ReadFd(b, data)) = (Readable(b) \o h) \o t
    BY <2>2, <2>4, <2>6, AppendAppends
  <2>8. Readable(b) \in Seq(Nat)
    BY ReadableBytes DEF Intact
  <2>9. (Readable(b) \o h) \o t = Readable(b) \o (h \o t)
    BY <2>2, <2>8, JoinAssociative
  <2>10. QED
    BY <2>2, <2>7, <2>9
<1>5. QED
  BY <1>3, <1>4

\* retrieve takes bytes from the front and leaves the others.
LEMMA RetrieveDrops ==
    ASSUME NEW b, Intact(b), NEW len \in 0..Len(Readable(b))
    PROVE  /\ Intact(Retrieve(b, len))
           /\ Readable(Retrieve(b, len)) = SubSeq(Readable(b), len + 1, Len(Readable(b)))
<1>1. PICK r \in Nat, w \in Nat, cells \in Seq(Nat) :
          r = b.reader /\ w = b.writer /\ cells = b.cells
  BY DEF Intact, Buffers
<1>2. /\ b \in Buffers /\ Indexed(b) /\ Len(cells) \in Nat
      /\ CheapPrepend \in Nat /\ CheapPrepend <= r /\ r <= w /\ w <= Len(cells)
  BY <1>1, BufferAssumption, LenProperties DEF Intact, Indexed
<1> DEFINE s == Readable(b)
<1>3. /\ s \in Seq(Nat) /\ Len(s) = w - r
      /\ \A i \in 1..(w - r) : s[i] = cells[r + i]
  BY <1>1, <1>2, ReadableBytes
<1>4. /\ b = [cells |-> cells, reader |-> r, writer |-> w]
  BY <1>1, <1>2 DEF Buffers
<1>5. len \in Nat /\ len <= w - r
  BY <1>2, <1>3
<1>6. CASE len < w - r
  <2> DEFINE c == [cells |-> cells, reader |-> r + len, writer |-> w]
             t == SubSeq(s, len + 1, w - r)
  <2>1. Retrieve(b, len) = c
    <3>1. Retrieve(b, len) = [b EXCEPT !.reader = @ + len]
      BY <1>3, <1>6, Zenon DEF Retrieve
    <3>2. [b EXCEPT !.reader = @ + len] = [b EXCEPT !.reader = r + len]
      BY <1>1, Zenon
    <3>3. [b EXCEPT !.reader = r + len] = c
      BY <1>4
    <3>4. QED
      BY <3>1, <3>2, <3>3
  <2>2. c \in Buffers
    BY <1>5 DEF Buffers
  <2>3. c.cells = cells /\ c.reader = r + len /\ c.writer = w
    OBVIOUS
  <2> HIDE DEF c
  <2>4. Indexed(c)
    BY <1>2, <1>5, <1>6, <2>3 DEF Indexed
  <2>5. /\ Readable(c) \in Seq(Nat)
        /\ Len(Readable(c)) = w - (r + len)
        /\ \A i \in 1..(w - (r + len)) : Readable(c)[i] = cells[(r + len) + i]
    BY <2>2, <2>3, <2>4, ReadableBytes
  <2>6. \A i \in (len + 1)..(w - r) : s[i] \in Nat
    BY <1>2, <1>3, <1>5, ElementOfSeq
  <2> HIDE DEF s
  <2>7. /\ t \in Seq(Nat)
        /\ Len(t) = IF len + 1 <= w - r THEN (w - r) - (len + 1) + 1 ELSE 0
        /\ \A i \in 1..((w - r) - (len + 1) + 1) : t[i] = s[(len + 1) + i - 1]
    BY <1>5, <2>6, SubSeqProperties, len + 1 \in Int, w - r \in Int
  <2> HIDE DEF t
  <2>8. Len(t) = w - (r + len) /\ (w - r) - (len + 1) + 1 = w - (r + len)
    BY <1>2, <1>5, <1>6, <2>7
  <2>9. ASSUME NEW i \in 1..(w - (r + len)) PROVE Readable(c)[i] = t[i]
    <3>1. /\ (len + 1) + i - 1 \in 1..(w - r)
          /\ r + ((len + 1) + i - 1) = (r + len) + i
      BY <1>2, <1>5
    <3>2. t[i] = s[(len + 1) + i - 1]
      BY <2>7, <2>8
    <3>3. s[(len + 1) + i - 1] = cells[(r + len) + i]
      BY <1>3, <3>1
    <3>4. QED
      BY <2>5, <3>2, <3>3
  <2>10. Readable(c) = t
    BY <2>5, <2>7, <2>8, <2>9, SeqEqual
  <2>11. QED
    BY <1>3, <2>1, <2>2, <2>4, <2>10 DEF Intact, t, s
<1>7. CASE len = w - r
  <2> DEFINE c == [cells |-> cells, reader |-> CheapPrepend, writer |-> CheapPrepend]
  <2>1. Retrieve(b, len) = c
    <3>1. Retrieve(b, len) = [b EXCEPT !.reader = CheapPrepend, !.writer = CheapPrepend]
      BY <1>2, <1>3, <1>7, SMT DEF Retrieve
    <3>2. QED
      BY <1>4, <3>1
  <2>2. c \in Buffers
    BY <1>2 DEF Buffers
  <2>3. c.cells = cells /\ c.reader = CheapPrepend /\ c.writer = CheapPrepend
    OBVIOUS
  <2> HIDE DEF c
  <2>4. Indexed(c)
    BY <1>2, <2>3 DEF Indexed
  <2>5. Readable(c) = <<>>
    <3>1. Readable(c) \in Seq(Nat) /\ Len(Readable(c)) = CheapPrepend - CheapPrepend
      BY <2>2, <2>3, <2>4, ReadableBytes
    <3>2. CheapPrepend - CheapPrepend = 0
      BY <1>2
    <3>3. QED
      BY <3>1, <3>2, EmptySeq
  <2>6. SubSeq(s, len + 1, Len(s)) = <<>>
    BY <1>3, <1>5, <1>7, SubSeqEmpty, len + 1 \in Int, Len(s) \in Int, Len(s) < len + 1
  <2>7. QED
    BY <2>1, <2>2, <2>4, <2>5, <2>6 DEF Intact
<1>8. QED
  BY <1>2, <1>5, <1>6, <1>7

-----------------------------------------------------------------------------
(* The connection with its buffers.                                         *)

BTyped == /\ outputBuffer \in Buffers /\ inputBuffer \in Buffers
          /\ sentIn \in Nat /\ readIn \in Nat
          /\ taken \in Seq(Nat)

BInv == IInv /\ BTyped /\ BuffersHold

\* send() only ever adds to what waits.
LEMMA SendAdds ==
    ASSUME IInv, NEW n \in 1..MaxSend, Send(n)
    PROVE  Added \in Seq(Nat) /\ outBuf' = outBuf \o Added
<1> DEFINE m == Message(n)
<1>1. n \in Nat /\ given \in Nat /\ outBuf \in Seq(Nat)
  BY SizesAssumption DEF IInv, TypeOK
<1>2. m \in Seq(Nat) /\ Len(m) = n
  BY <1>1, BytesAreNats DEF Message
<1> HIDE DEF m
<1>3. \E rest \in Seq(Nat) : outBuf' = outBuf \o rest
  <2>1. CASE SendWritesThrough(n)
    <3>1. PICK k \in 0..n : KeepRest(SubSeq(m, k + 1, n))
      BY <2>1 DEF SendWritesThrough, m
    <3>2. SubSeq(m, k + 1, n) \in Seq(Nat)
      BY <1>2, CutAndJoin
    <3>3. QED
      BY <3>1, <3>2 DEF KeepRest
  <2>2. CASE SendFails(n)
    <3>1. outBuf' = outBuf \o <<>> /\ <<>> \in Seq(Nat)
      BY <1>1, <2>2, ConcatEmptySeq, EmptySeq DEF SendFails
    <3>2. QED
      BY <3>1
  <2>3. CASE SendBuffers(n)
    BY <1>2, <2>3 DEF SendBuffers, KeepRest, m
  <2>4. QED
    BY <2>1, <2>2, <2>3 DEF Send
<1>4. PICK rest \in Seq(Nat) : outBuf' = outBuf \o rest
  BY <1>3
<1>5. Added = rest
  <2> DEFINE a == Len(outBuf) + 1
             z == Len(outBuf \o rest)
  <2>1. /\ Len(outBuf) \in Nat /\ Len(rest) \in Nat
        /\ z = Len(outBuf) + Len(rest)
        /\ outBuf \o rest \in Seq(Nat)
        /\ \A i \in 1..z : (outBuf \o rest)[i] =
               IF i <= Len(outBuf) THEN outBuf[i] ELSE rest[i - Len(outBuf)]
    BY <1>1, LenProperties, ConcatProperties
  <2>2. \A i \in a..z : (outBuf \o rest)[i] \in Nat
    <3>1. \A i \in 1..z : (outBuf \o rest)[i] \in Nat
      BY <2>1, ElementOfSeq
    <3>2. QED
      BY <2>1, <3>1
  <2>3. Added = SubSeq(outBuf \o rest, a, z)
    BY <1>4 DEF Added
  <2>4. /\ a \in Int /\ z \in Int
        /\ z - a + 1 = Len(rest)
        /\ (IF a <= z THEN z - a + 1 ELSE 0) = Len(rest)
    BY <2>1
  <2> HIDE DEF a, z
  <2>5. /\ Added \in Seq(Nat)
        /\ Len(Added) = Len(rest)
        /\ \A i \in 1..Len(rest) : Added[i] = (outBuf \o rest)[a + i - 1]
    <3> DEFINE c == outBuf \o rest
    <3>1. \A i \in a..z : c[i] \in Nat
      BY <2>2
    <3> HIDE DEF c
    <3>2. /\ SubSeq(c, a, z) \in Seq(Nat)
          /\ Len(SubSeq(c, a, z)) = IF a <= z THEN z - a + 1 ELSE 0
          /\ \A i \in 1..(z - a + 1) : SubSeq(c, a, z)[i] = c[a + i - 1]
      BY <2>4, <3>1, SubSeqProperties
    <3>3. QED
      BY <2>3, <2>4, <3>2 DEF c
  <2>6. ASSUME NEW i \in 1..Len(rest) PROVE Added[i] = rest[i]
    <3> DEFINE j == a + i - 1
    <3>1. j \in 1..z /\ ~(j <= Len(outBuf)) /\ j - Len(outBuf) = i
      BY <2>1 DEF a, z
    <3> HIDE DEF j
    <3>2. (outBuf \o rest)[j] = rest[i]
      BY <2>1, <3>1
    <3>3. QED
      BY <2>5, <3>2 DEF j
  <2>7. QED
    BY <2>5, <2>6, SeqEqual
<1>6. QED
  BY <1>4, <1>5

\* handleWrite only ever takes from the front of what waits.
LEMMA HandleWriteDrops ==
    ASSUME IInv, HandleWrite
    PROVE  /\ Len(outBuf) - Len(outBuf') \in 0..Len(outBuf)
           /\ outBuf' = SubSeq(outBuf, (Len(outBuf) - Len(outBuf')) + 1, Len(outBuf))
<1>1. PICK k \in 1..Len(outBuf) : outBuf' = SubSeq(outBuf, k + 1, Len(outBuf))
  BY DEF HandleWrite
<1>2. outBuf \in Seq(Nat) /\ Len(outBuf) \in Nat
  BY LenProperties DEF IInv, TypeOK
<1>3. PICK n \in Nat : n = Len(outBuf)
  BY <1>2
<1>4. \A i \in (k + 1)..n : outBuf[i] \in Nat
  BY <1>2, <1>3, ElementOfSeq
<1>5. Len(SubSeq(outBuf, k + 1, n)) = IF k + 1 <= n THEN n - (k + 1) + 1 ELSE 0
  BY <1>3, <1>4, SubSeqProperties, k + 1 \in Int, n \in Int
<1>6. Len(outBuf') = n - k
  BY <1>1, <1>3, <1>5
<1>7. Len(outBuf) - Len(outBuf') = k
  BY <1>3, <1>6
<1>8. k \in 0..Len(outBuf)
  BY <1>3
<1>9. QED
  BY <1>1, <1>7, <1>8, Zenon

LEMMA SendHolds ==
    ASSUME BInv, BSend
    PROVE  BInv'
<1>1. PICK n \in 1..MaxSend : Send(n)
  BY DEF BSend
<1>2. /\ outputBuffer' = BufAppend(outputBuffer, Added)
      /\ UNCHANGED <<inputBuffer, sentIn, readIn, taken>>
  BY DEF BSend, inVars
<1>3. IInv'
  BY <1>1, SendKeepsIInv DEF BInv
<1>4. Added \in Seq(Nat) /\ outBuf' = outBuf \o Added
  BY <1>1, SendAdds DEF BInv
<1>5. Intact(outputBuffer) /\ Readable(outputBuffer) = outBuf
  BY DEF BInv, BTyped, BuffersHold, Intact
<1>6. Intact(outputBuffer') /\ Readable(outputBuffer') = outBuf'
  BY <1>2, <1>4, <1>5, AppendAppends
<1>7. BTyped' /\ BuffersHold'
  BY <1>2, <1>6 DEF BInv, BTyped, BuffersHold, Intact
<1>8. QED
  BY <1>3, <1>7 DEF BInv

LEMMA HandleWriteHolds ==
    ASSUME BInv, BHandleWrite
    PROVE  BInv'
<1>1. /\ HandleWrite
      /\ outputBuffer' = Retrieve(outputBuffer, Len(outBuf) - Len(outBuf'))
      /\ UNCHANGED <<inputBuffer, sentIn, readIn, taken>>
  BY DEF BHandleWrite, inVars
<1>2. IInv'
  BY <1>1, HandleWriteKeepsIInv DEF BInv
<1> DEFINE k == Len(outBuf) - Len(outBuf')
<1>3. k \in 0..Len(outBuf) /\ outBuf' = SubSeq(outBuf, k + 1, Len(outBuf))
  BY <1>1, HandleWriteDrops DEF BInv
<1> HIDE DEF k
<1>4. Intact(outputBuffer) /\ Readable(outputBuffer) = outBuf
  BY DEF BInv, BTyped, BuffersHold, Intact
<1>5. /\ Intact(Retrieve(outputBuffer, k))
      /\ Readable(Retrieve(outputBuffer, k)) = outBuf'
  BY <1>3, <1>4, RetrieveDrops
<1>6. BTyped' /\ BuffersHold'
  BY <1>1, <1>5 DEF BInv, BTyped, BuffersHold, Intact, k
<1>7. QED
  BY <1>2, <1>6 DEF BInv

\* A read continues the peer's stream, and what the parser takes and leaves is
\* still all of it.
LEMMA HandleReadHolds ==
    ASSUME BInv, HandleRead
    PROVE  BInv'
<1>1. PICK n \in 1..(sentIn - readIn) :
          /\ readIn' = readIn + n
          /\ LET filled == ReadFd(inputBuffer, Bytes(readIn, readIn + n))
             IN  \E used \in 0..Len(Readable(filled)) :
                    /\ taken' = taken \o SubSeq(Readable(filled), 1, used)
                    /\ inputBuffer' = IF used = 0 THEN filled ELSE Retrieve(filled, used)
  BY DEF HandleRead
<1> DEFINE filled == ReadFd(inputBuffer, Bytes(readIn, readIn + n))
<1>2. PICK used \in 0..Len(Readable(filled)) :
          /\ taken' = taken \o SubSeq(Readable(filled), 1, used)
          /\ inputBuffer' = IF used = 0 THEN filled ELSE Retrieve(filled, used)
  BY <1>1
<1>3. /\ readIn \in Nat /\ sentIn \in Nat /\ taken \in Seq(Nat) /\ n \in Nat
      /\ Intact(inputBuffer)
      /\ taken \o Readable(inputBuffer) = Bytes(0, readIn)
  BY DEF BInv, BTyped, BuffersHold, Intact
<1>4. UNCHANGED <<vars, outputBuffer, sentIn>>
  BY DEF HandleRead
<1>5. Bytes(readIn, readIn + n) \in Seq(Nat)
  BY <1>3, BytesAreNats
<1>6. /\ Intact(filled)
      /\ Readable(filled) = Readable(inputBuffer) \o Bytes(readIn, readIn + n)
  BY <1>3, <1>5, ReadFdAppends
<1> HIDE DEF filled
<1> DEFINE r == Readable(filled)
<1>7. Readable(inputBuffer) \in Seq(Nat) /\ r \in Seq(Nat)
  BY <1>3, <1>6, ReadableBytes DEF Intact
<1>8. taken \o r = Bytes(0, readIn')
  <2>1. (taken \o Readable(inputBuffer)) \o Bytes(readIn, readIn + n)
          = taken \o (Readable(inputBuffer) \o Bytes(readIn, readIn + n))
    BY <1>3, <1>5, <1>7, JoinAssociative
  <2>2. Bytes(0, readIn) \o Bytes(readIn, readIn + n) = Bytes(0, readIn + n)
    BY <1>3, StreamGrows
  <2>3. QED
    BY <1>1, <1>3, <1>6, <2>1, <2>2
<1> DEFINE h == SubSeq(r, 1, used)
           t == SubSeq(r, used + 1, Len(r))
<1>9. h \in Seq(Nat) /\ t \in Seq(Nat) /\ h \o t = r
  BY <1>7, CutAndJoin
<1>10. Intact(inputBuffer') /\ Readable(inputBuffer') = t
  <2>1. CASE used = 0
    <3>1. t = r
      BY <1>7, <2>1, SubSeqFull
    <3>2. QED
      BY <1>2, <1>6, <2>1, <3>1
  <2>2. CASE used # 0
    <3>1. inputBuffer' = Retrieve(filled, used)
      BY <1>2, <2>2
    <3>2. QED
      BY <1>6, <3>1, RetrieveDrops
  <2>3. QED
    BY <2>1, <2>2
<1>11. taken' = taken \o h
  BY <1>2
<1> HIDE DEF h, t, r
<1>12. taken' \o Readable(inputBuffer') = Bytes(0, readIn')
  <2>1. (taken \o h) \o t = taken \o (h \o t)
    BY <1>3, <1>9, JoinAssociative
  <2>2. QED
    BY <1>8, <1>9, <1>10, <1>11, <2>1
<1>13. BTyped'
  <2>1. taken' \in Seq(Nat)
    BY <1>3, <1>9, <1>11, ConcatProperties
  <2>2. QED
    BY <1>1, <1>3, <1>4, <1>10, <2>1 DEF BInv, BTyped, Intact
<1>14. BuffersHold'
  BY <1>4, <1>10, <1>12 DEF BInv, BuffersHold, Intact, vars
<1>15. IInv'
  BY <1>4 DEF BInv, IInv, TypeOK, StreamIntact, FinIsLast, OutputIsWatched, vars
<1>16. QED
  BY <1>13, <1>14, <1>15 DEF BInv

LEMMA NextBInv == BInv /\ [BNext]_bVars => BInv'
<1> SUFFICES ASSUME BInv, [BNext]_bVars PROVE BInv'
  OBVIOUS
<1>1. CASE BSend
  BY <1>1, SendHolds
<1>2. CASE BHandleWrite
  BY <1>2, HandleWriteHolds
<1>3. CASE HandleRead
  BY <1>3, HandleReadHolds
<1>4. CASE BHandleClose \/ BRest \/ PeerSends \/ UNCHANGED bVars
  <2>1. [Next]_vars
    BY <1>4 DEF BHandleClose, BRest, PeerSends, bVars, Next, vars
  <2>2. IInv'
    BY <2>1, NextIInv DEF BInv
  <2>3. outBuf' = outBuf
    BY <1>4 DEF BHandleClose, HandleClose, BRest, Shutdown, PeerReads, PeerCloses,
                PeerResets, PeerSends, bVars, vars
  <2>4. /\ UNCHANGED <<outputBuffer, inputBuffer, readIn, taken>>
        /\ sentIn' \in Nat
    BY <1>4 DEF BHandleClose, BRest, PeerSends, bVars, inVars, BInv, BTyped
  <2>5. BTyped' /\ BuffersHold'
    BY <2>3, <2>4 DEF BInv, BTyped, BuffersHold
  <2>6. QED
    BY <2>2, <2>5 DEF BInv
<1>5. QED
  BY <1>1, <1>2, <1>3, <1>4 DEF BNext

\* Whatever is sent and received in whatever portions, and whatever sizes the
\* buffers start with: the readable part of the output buffer is what send()
\* left to it, and the parser gets the peer's bytes without a gap or a stale
\* one (Buffer.h:34-110, Buffer.cc:15-59).
THEOREM BuffersAlwaysHold == BSpec => []BuffersHold
<1>1. BInit => BInv
  <2> SUFFICES ASSUME BInit PROVE BInv
    OBVIOUS
  <2>1. IInv
    BY InitIInv DEF BInit
  <2>2. Bytes(0, 0) = <<>> /\ <<>> \in Seq(Nat) /\ <<>> \o <<>> = <<>>
    BY Prefixes, EmptySeq, ConcatEmptySeq, 0 \in Nat
  <2>3. BTyped
    BY <2>2, EmptyIsIntact DEF BInit, BTyped, Intact
  <2>4. outBuf = <<>>
    BY DEF BInit, Init
  <2>5. BuffersHold
    BY <2>2, <2>4, EmptyIsIntact DEF BInit, BuffersHold, Intact
  <2>6. QED
    BY <2>1, <2>3, <2>5 DEF BInv
<1>2. BInv /\ [BNext]_bVars => BInv'
  BY NextBInv
<1>3. BInv => BuffersHold
  BY DEF BInv
<1>4. QED
  BY <1>1, <1>2, <1>3, PTL DEF BSpec

\* TcpOutput with its buffers is TcpOutput: nothing the vectors do shows in what
\* is sent, so that its theorems hold of the connection as it is.
THEOREM BuffersImplementOutput == BSpec => Init /\ [][Next]_vars
<1>1. BInit => Init
  BY DEF BInit
<1>2. [BNext]_bVars => [Next]_vars
  BY DEF BNext, BSend, BHandleWrite, BHandleClose, HandleRead, PeerSends, BRest,
         bVars, Next, vars
<1> QED BY <1>1, <1>2, PTL DEF BSpec

\* The stream is intact and its end comes last, also when every byte that waits
\* goes through the buffer (TcpConnection.cc:91-165, 212-245).
THEOREM BufferedStreamIsIntact == BSpec => [](StreamIntact /\ FinIsLast)
<1>1. Init /\ [][Next]_vars => []IInv
  BY InitIInv, NextIInv, PTL
<1>2. IInv => StreamIntact /\ FinIsLast
  BY DEF IInv
<1> QED BY <1>1, <1>2, BuffersImplementOutput, PTL
=============================================================================
