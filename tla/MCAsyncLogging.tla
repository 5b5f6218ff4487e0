--------------------------- MODULE MCAsyncLogging ----------------------------
(* The instance of AsyncLogging that TLC checks.                            *)
EXTENDS AsyncLogging

CountGarbage == {-1, 9}

\* Summer time is two seconds ahead and ends at the third second: the names of
\* the first four seconds are 3, 4, 3, 4.
SummerEnds(time) == IF time < 3 THEN time + 2 ELSE time
=============================================================================
