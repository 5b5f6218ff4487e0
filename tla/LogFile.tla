------------------------------- MODULE LogFile -------------------------------
(***************************************************************************)
(* The log files of log/LogFile.cc and log/FileUtil.cc: one file is open   *)
(* at a time and is named after the local time of its opening; a new one   *)
(* is begun when it has grown too large, or in a new period (a day), which *)
(* is looked at only at every CheckEveryN-th append.                       *)
(*                                                                         *)
(* Local time follows the rules of the zone, so the name is any function   *)
(* of the second: where clocks are put back at the end of summer time,     *)
(* names go back and repeat.  fopen(name, "ae") goes on behind what a file *)
(* of that name holds, while its FileUtil counts from zero.  files is      *)
(* therefore the list of the openings, each with the lines written through *)
(* it, and the file of a name is the openings with that name, one after    *)
(* the other.                                                              *)
(*                                                                         *)
(* A byte is a line.  stdio may pass lines on to the disk earlier than     *)
(* "flushed" says; the disk itself never fails.                            *)
(***************************************************************************)
EXTENDS Integers, Sequences, SequencesExt

CONSTANTS RollSize,       \* rollsize_
          CheckEveryN,    \* checkEveryN_
          FlushInterval,  \* flushInterval_
          RollPeriod,     \* kRollPerSeconds_
          LocalTime(_)    \* localtime_r and strftime: the second as the name shows it

ASSUME LogFileAssumption == /\ {RollSize, CheckEveryN, FlushInterval} \subseteq Nat
                            /\ RollPeriod \in Nat \ {0}

Period(time) == time \div RollPeriod

Opened(time) == [second |-> time, name |-> LocalTime(time), lines |-> <<>>]

\* The constructor rolls at once; it leaves count_ as the memory was.
NewLogFile(time, garbage) ==
    [files |-> <<Opened(time)>>, flushed |-> {}, count |-> garbage,
     startOfPeriod |-> Period(time), lastRoll |-> time, lastFlush |-> time]

\* Lines in pieces: the lines there are, and no line twice or out of order.
LinesOf(pieces) == UNION {ToSet(pieces[i]) : i \in 1..Len(pieces)}

InOrder(pieces) ==
    \A i, k \in 1..Len(pieces) :
        \A j \in 1..Len(pieces[i]), l \in 1..Len(pieces[k]) :
            i < k \/ (i = k /\ j < l) => pieces[i][j] < pieces[k][l]

Pieces(log) == [i \in 1..Len(log.files) |-> log.files[i].lines]

Written(log) == LinesOf(Pieces(log))

FlushFile(log) == [log EXCEPT !.flushed = Written(log)]

\* At most one opening a second: the old file is closed, which also flushes it.
Mut_RollFile(log, time) ==
    [FlushFile(log) EXCEPT
        !.files = Append(@, Opened(time)),
        !.startOfPeriod = Period(time),
        !.lastRoll = time,
        !.lastFlush = time]

RollFile(log, time) ==
    IF time > log.lastRoll
    THEN [FlushFile(log) EXCEPT
             !.files = Append(@, Opened(time)),
             !.startOfPeriod = Period(time),
             !.lastRoll = time,
             !.lastFlush = time]
    ELSE log

\* appendInlock, after the data is in the file: whether to roll, then whether
\* to flush.
RollIfDue(log, time) ==
    IF Len(Last(log.files).lines) > RollSize THEN RollFile(log, time)
    ELSE IF log.count < CheckEveryN THEN log
    ELSE LET checked == [log EXCEPT !.count = 0]
         IN  IF Period(time) # log.startOfPeriod THEN RollFile(checked, time) ELSE checked

FlushIfDue(log, time) ==
    IF time - log.lastFlush > FlushInterval
    THEN [FlushFile(log) EXCEPT !.lastFlush = time]
    ELSE log

\* Past CheckEveryN the count makes no difference and stays.
Counted(log) == IF log.count < CheckEveryN THEN log.count + 1 ELSE log.count

AppendInLock(log, data, time) ==
    LET added == [log EXCEPT !.files[Len(log.files)].lines = @ \o data,
                             !.count = Counted(log)]
    IN  FlushIfDue(RollIfDue(added, time), time)
=============================================================================
