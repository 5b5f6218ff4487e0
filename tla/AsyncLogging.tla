---------------------------- MODULE AsyncLogging -----------------------------
(***************************************************************************)
(* The double-buffered log: log/AsyncLogging.cc, on the files of           *)
(* log/LogFile.cc.                                                         *)
(*                                                                         *)
(* Front-end threads append under the mutex; when the current buffer is    *)
(* full they hand it over and take the next one.  The back-end thread      *)
(* swaps everything out under the mutex, writes it without the mutex, and  *)
(* keeps two of the written buffers to give back at the next swap.  It     *)
(* waits only for a limited time, and swaps whatever woke it.              *)
(*                                                                         *)
(* A message is its number; all messages have the same length.  (Logger    *)
(* formats at most 4000 bytes, a buffer holds 4000000, so the silent drop  *)
(* of a message longer than a buffer does not happen.)                     *)
(***************************************************************************)
EXTENDS LogFile

CONSTANTS BufferSize,   \* a message fits while fewer than BufferSize - 1 are in
          MaxMessages,  \* bound: messages appended
          MaxTime,      \* bound: seconds that pass
          Garbage       \* what an uninitialised count_ may hold

ASSUME LogAssumption == /\ BufferSize \in Nat \ {0, 1}
                        /\ MaxMessages \in Nat
                        /\ Garbage \subseteq Int

VARIABLES logging,    \* running_
          current,    \* *currentBuffer_
          hasNext,    \* nextBuffer_ # nullptr
          full,       \* buffers_
          pc,         \* where the back-end thread is
          hasNew1,    \* its newbuffer1 # nullptr
          hasNew2,    \* its newbuffer2 # nullptr
          toWrite,    \* what it has not written of buffersToWrite
          spare,      \* how many buffers buffersToWrite holds
          output,     \* the LogFile
          now,        \* time(NULL)
          appended,   \* ghost: how many messages were appended
          atSwap      \* ghost: how many of them before the last swap

logVars == <<logging, current, hasNext, full, pc, hasNew1, hasNew2, toWrite, spare,
          output, now, appended, atSwap>>
fileVars == <<output, now>>

LogInit == /\ logging = TRUE
        /\ current = <<>>
        /\ hasNext = TRUE
        /\ full = <<>>
        /\ pc = "test"
        /\ hasNew1 = TRUE
        /\ hasNew2 = TRUE
        /\ toWrite = <<>>
        /\ spare = 0
        /\ now = 1
        /\ output \in {NewLogFile(now, g) : g \in Garbage}
        /\ appended = 0
        /\ atSwap = 0

-----------------------------------------------------------------------------
(* The front end.                                                           *)

Fits == BufferSize - Len(current) > 1

AppendFits ==
    /\ appended < MaxMessages
    /\ Fits
    /\ appended' = appended + 1
    /\ current' = Append(current, appended + 1)
    /\ UNCHANGED <<logging, hasNext, full, pc, hasNew1, hasNew2, toWrite, spare,
                   fileVars, atSwap>>

\* The full buffer is handed over; nextBuffer_ or a new buffer replaces it.
Mut_AppendNext ==
    /\ appended < MaxMessages
    /\ ~Fits
    /\ appended' = appended + 1
    /\ current' = <<appended + 1>>
    /\ hasNext' = FALSE
    /\ full' = IF hasNext THEN Append(full, current) ELSE full
    /\ UNCHANGED <<logging, pc, hasNew1, hasNew2, toWrite, spare, fileVars, atSwap>>

AppendNext ==
    /\ appended < MaxMessages
    /\ ~Fits
    /\ appended' = appended + 1
    /\ full' = Append(full, current)
    /\ hasNext' = FALSE
    /\ current' = <<appended + 1>>
    /\ UNCHANGED <<logging, pc, hasNew1, hasNew2, toWrite, spare, fileVars, atSwap>>

\* stop() clears the flag and notifies; it does not join the thread.
Stop ==
    /\ logging
    /\ logging' = FALSE
    /\ UNCHANGED <<current, hasNext, full, pc, hasNew1, hasNew2, toWrite, spare,
                   fileVars, appended, atSwap>>

-----------------------------------------------------------------------------
(* The back end, threadFunc.                                                *)

Test ==
    /\ pc = "test"
    /\ pc' = IF logging THEN "wait" ELSE "leaving"
    /\ UNCHANGED <<logging, current, hasNext, full, hasNew1, hasNew2, toWrite,
                   spare, fileVars, appended, atSwap>>

\* With the mutex, at once or after the wait: take everything.
Mut_Swap ==
    /\ pc = "wait"
    /\ pc' = "write"
    /\ toWrite' = IF full = <<>> THEN <<current>> ELSE full
    /\ spare' = Len(toWrite')
    /\ full' = <<>>
    /\ current' = IF full = <<>> THEN <<>> ELSE current
    /\ hasNew1' = FALSE
    /\ hasNext' = TRUE
    /\ hasNew2' = (hasNew2 /\ hasNext)
    /\ atSwap' = appended
    /\ UNCHANGED <<logging, fileVars, appended>>

Swap ==
    /\ pc = "wait"
    /\ pc' = "write"
    /\ toWrite' = Append(full, current)
    /\ spare' = Len(full) + 1
    /\ full' = <<>>
    /\ current' = <<>>
    /\ hasNew1' = FALSE
    /\ hasNext' = TRUE
    /\ hasNew2' = (hasNew2 /\ hasNext)
    /\ atSwap' = appended
    /\ UNCHANGED <<logging, fileVars, appended>>

WriteOne ==
    /\ pc = "write"
    /\ toWrite # <<>>
    /\ output' = AppendInLock(output, Head(toWrite), now)
    /\ toWrite' = Tail(toWrite)
    /\ UNCHANGED <<logging, current, hasNext, full, pc, hasNew1, hasNew2, spare,
                   now, appended, atSwap>>

\* resize(2), then back() and pop_back() for each spare that was given away.
Kept == IF spare > 2 THEN 2 ELSE spare
Wanted == (IF hasNew1 THEN 0 ELSE 1) + (IF hasNew2 THEN 0 ELSE 1)

Recycle ==
    /\ pc = "write"
    /\ toWrite = <<>>
    /\ pc' = "flush"
    /\ hasNew1' = (hasNew1 \/ Kept > 0)
    /\ hasNew2' = (hasNew2 \/ Kept >= Wanted)
    /\ spare' = 0
    /\ UNCHANGED <<logging, current, hasNext, full, toWrite, fileVars, appended,
                   atSwap>>

Mut_Flush ==
    /\ pc \in {"flush", "leaving"}
    /\ pc' = IF pc = "flush" THEN "test" ELSE "done"
    /\ UNCHANGED <<logging, current, hasNext, full, hasNew1, hasNew2, toWrite,
                   spare, fileVars, appended, atSwap>>

\* The flush at the end of each round, and the one behind the loop.
Flush ==
    /\ pc \in {"flush", "leaving"}
    /\ pc' = IF pc = "flush" THEN "test" ELSE "done"
    /\ output' = FlushFile(output)
    /\ UNCHANGED <<logging, current, hasNext, full, hasNew1, hasNew2, toWrite,
                   spare, now, appended, atSwap>>

\* The wall clock, which an administrator or NTP may set back.
Tick ==
    /\ now' \in {now - 1, now + 1} \cap 1..MaxTime
    /\ UNCHANGED <<logging, current, hasNext, full, pc, hasNew1, hasNew2, toWrite,
                   spare, output, appended, atSwap>>

BackEnd == Test \/ Swap \/ WriteOne \/ Recycle \/ Flush

LogNext == AppendFits \/ AppendNext \/ Stop \/ BackEnd \/ Tick

\* The back end runs: its waits end at the latest after three seconds.
LogSpec == LogInit /\ [][LogNext]_logVars /\ WF_logVars(BackEnd)

-----------------------------------------------------------------------------
LogTypeOK ==
    /\ logging \in BOOLEAN
    /\ current \in Seq(Nat)
    /\ hasNext \in BOOLEAN
    /\ full \in Seq(Seq(Nat))
    /\ pc \in {"test", "wait", "write", "flush", "leaving", "done"}
    /\ hasNew1 \in BOOLEAN
    /\ hasNew2 \in BOOLEAN
    /\ toWrite \in Seq(Seq(Nat))
    /\ spare \in Nat
    /\ now \in Nat
    /\ output.flushed \subseteq Nat
    /\ \A i \in 1..Len(output.files) : output.files[i].lines \in Seq(Nat)
    /\ appended \in Nat
    /\ atSwap \in Nat

\* Local time went on from one second to the other, and was not put back.
LocalTimeGoesOn(from, to) ==
    \A s, t \in from..to : s < t => LocalTime(s) < LocalTime(t)

\* Each file is opened in a later second than those before it, also when the
\* clock is set back, and two openings have names in the order of their writing
\* unless local time was put back between them: then the order of the names says
\* nothing, and one file may hold both (LogFile.cc:27-42, 44-59).
FilesAreOrdered ==
    \A i, j \in 1..Len(output.files) :
        LET first == output.files[i]  second == output.files[j]
        IN  i < j => /\ first.second < second.second
                     /\ LocalTimeGoesOn(first.second, second.second)
                            => first.name < second.name

\* When the thread has left, exactly the lines it had swapped out are on the
\* disk: stop() loses those that were appended after the last swap, and no
\* others (AsyncLogging.cc:58, 101).
EndsWithTheLastSwap ==
    pc = "done" => Written(output) = 1..atSwap /\ output.flushed = 1..atSwap

\* The log from its oldest line to its newest: the openings of the files, what is
\* being written, the full buffers, the current one.
WholeLog == Pieces(output) \o toWrite \o full \o <<current>>

\* Every line is once and in order in the files, in the order in which they were
\* opened (so also within each file), which is the order of their names while
\* local time goes on; what is not there yet is in exactly one buffer, wherever
\* the swap falls and the files are rolled, up to the end (AsyncLogging.cc:21-45,
\* 58-102).
NothingLost ==
    /\ FilesAreOrdered
    /\ InOrder(WholeLog)
    /\ LinesOf(WholeLog) = 1..appended
    /\ EndsWithTheLastSwap

\* The back end always has the buffers it gives away: newbuffer1 at each swap,
\* newbuffer2 when the front end used the next one, and enough written ones to
\* replace them, so that back() is never called on an empty vector.
BuffersRecycled ==
    /\ pc \in {"test", "wait", "flush"} => hasNew1 /\ hasNew2
    /\ pc = "write" => Wanted <= Kept
    /\ ~hasNext => full # <<>>

\* A line appended to a running log reaches the disk.
AppendedIsFlushed ==
    \A n \in 1..MaxMessages : (appended >= n) ~> (n \in output.flushed \/ ~logging)
=============================================================================
