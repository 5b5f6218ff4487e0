--------------------------- MODULE AgentTurns_proofs ---------------------------
(***************************************************************************)
(* The log has no gap, the summary covers a prefix of it, and answers      *)
(* follow questions, for any number of overlapping requests; and a run     *)
(* that meets no other gets its own answer, once.                          *)
(***************************************************************************)
EXTENDS AgentTurns, FiniteSetTheorems, TLAPS

-----------------------------------------------------------------------------
(* Sequence numbers                                                         *)

\* What MAX(sequence) + 1 is when there is no gap.
LEMMA NextIsCardinality ==
    ASSUME IsFiniteSet(log), LogIsGapFree
    PROVE  /\ Cardinality(log) \in Nat
           /\ NextSequence = Cardinality(log) + 1
<1> DEFINE n == Cardinality(log)
<1>1. n \in Nat /\ (n = 0 <=> log = {})
  BY FS_CardinalityType, FS_EmptySet
<1>2. CASE log = {}
  BY <1>1, <1>2 DEF NextSequence
<1>3. CASE log # {}
  <2>1. n >= 1
    BY <1>1, <1>3
  <2>2. Sequences = 1..n
    BY DEF LogIsGapFree
  <2>3. \A x \in 1..n : (\A y \in 1..n : x >= y) => x = n
    BY <2>1, <1>1
  <2>4. n \in 1..n /\ \A y \in 1..n : n >= y
    BY <2>1, <1>1
  <2> HIDE DEF n
  <2>5. Max(1..n) = n
    BY <2>3, <2>4 DEF Max
  <2>6. NextSequence = n + 1
    BY <2>5, <2>2, <1>3 DEF NextSequence
  <2> QED BY <2>6, <1>1 DEF n
<1> QED BY <1>2, <1>3

\* The numbers above t, but for the last R of them.
LEMMA CandidatesOfInterval ==
    ASSUME NEW n \in Nat, NEW t \in Nat, t <= n, RecentLimit \in Nat
    PROVE  Candidates({k \in 1..n : k > t}) = {k \in 1..n : k > t /\ k + RecentLimit <= n}
<1> DEFINE P == {k \in 1..n : k > t}
<1>1. ASSUME NEW k \in P
      PROVE  Cardinality({j \in P : j > k}) = n - k
  <2>1. {j \in P : j > k} = (k+1)..n
    OBVIOUS
  <2>2. k + 1 \in Int /\ n \in Int
    OBVIOUS
  <2>3. Cardinality((k+1)..n) = IF k + 1 > n THEN 0 ELSE n - (k + 1) + 1
    BY <2>2, FS_Interval
  <2>4. (IF k + 1 > n THEN 0 ELSE n - (k + 1) + 1) = n - k
    OBVIOUS
  <2> HIDE DEF P
  <2> QED BY <2>1, <2>3, <2>4, Zenon
<1>2. \A k \in P : Cardinality({j \in P : j > k}) >= RecentLimit
                      <=> k + RecentLimit <= n
  BY <1>1
<1>3. Candidates(P) = {k \in P : k + RecentLimit <= n}
  BY <1>2 DEF Candidates
<1> QED BY <1>3

\* A summary that is extended by the candidates covers a prefix again.
LEMMA ExtendedCoverIsPrefix ==
    ASSUME NEW n \in Nat, NEW t \in Nat, t <= n, RecentLimit \in Nat,
           NEW old, old = Candidates({k \in 1..n : k > t}), old # {}
    PROVE  /\ Max(old) \in 1..n
           /\ (1..t) \cup old = 1..Max(old)
<1>1. old = {k \in 1..n : k > t /\ k + RecentLimit <= n}
  BY CandidatesOfInterval
<1> DEFINE m == n - RecentLimit
<1>2. m \in old /\ m \in 1..n /\ m > t /\ \A k \in old : m >= k
  BY <1>1
<1>3. \A x \in old : (\A y \in old : x >= y) => x = m
  BY <1>1, <1>2
<1> HIDE DEF m
<1>4. Max(old) = m
  BY <1>2, <1>3 DEF Max
<1>5. (1..t) \cup old = 1..m
  BY <1>1, <1>2 DEF m
<1> QED BY <1>2, <1>4, <1>5

-----------------------------------------------------------------------------
(* Steps of one request                                                     *)

LEMMA IdleIsSound ==
    ASSUME IInv
    PROVE  /\ Idle \in Request /\ Sound(Idle)
           /\ [Idle EXCEPT !.pc = "ended"] \in Request
           /\ Sound([Idle EXCEPT !.pc = "ended"])
<1>1. Cardinality(log) \in Nat
  BY FS_CardinalityType DEF IInv, TypeOK
<1>2. 1..0 = {}
  OBVIOUS
<1> QED BY <1>1, <1>2 DEF Idle, Request, Sound, Places, Runs

\* The log and the summary are left alone, and no run is completed that has no
\* answer.
LEMMA QuietStep ==
    ASSUME IInv, NEW c \in Calls, NEW v \in Request, Sound(v),
           Becomes(c, v), log' = log, summary' = summary,
           status' \in [Asks -> {"absent", "running", "interrupted",
                                 "completed", "failed"}],
           checkpoint' \in [of : Runs, next : BOOLEAN, wait : BOOLEAN],
           disturbed' \subseteq Asks,
           \A r \in Asks : status'[r] = "completed" =>
               status[r] = "completed" \/ Answered(r)
    PROVE  IInv'
<1>1. TypeOK'
  BY DEF Becomes, IInv, TypeOK
<1>2. LogIsGapFree' /\ SummaryCoversPrefix'
  BY DEF IInv, LogIsGapFree, SummaryCoversPrefix, Sequences
<1>3. AnswersFollowQuestions'
  BY DEF IInv, AnswersFollowQuestions, Answered
<1>4. RequestsAreSound'
  <2> SUFFICES ASSUME NEW d \in Calls PROVE Sound(call[d])'
    BY DEF RequestsAreSound
  <2>1. call'[d] = v \/ call'[d] = call[d]
    BY DEF Becomes, IInv, TypeOK
  <2>2. Sound(call[d])
    BY DEF IInv, RequestsAreSound
  <2>3. PICK w : w = call'[d] /\ Sound(w)
    BY <2>1, <2>2
  <2> QED BY <2>3, Zenon DEF Sound, Asked, Answered, Sequences
<1> QED BY <1>1, <1>2, <1>3, <1>4 DEF IInv

\* The same when a status is set.
LEMMA QuietStatus ==
    ASSUME IInv, NEW c \in Calls, NEW v \in Request, Sound(v),
           Becomes(c, v), log' = log, summary' = summary,
           checkpoint' \in [of : Runs, next : BOOLEAN, wait : BOOLEAN],
           disturbed' \subseteq Asks,
           NEW r \in Asks, NEW s, SetStatus(r, s),
           \/ s \in {"running", "interrupted", "failed"}
           \/ s = "completed" /\ Answered(r)
    PROVE  IInv'
<1>1. status' \in [Asks -> {"absent", "running", "interrupted", "completed",
                            "failed"}]
  BY DEF IInv, TypeOK, SetStatus
<1>2. \A q \in Asks : status'[q] = "completed" =>
          status[q] = "completed" \/ Answered(q)
  BY DEF IInv, TypeOK, SetStatus
<1> QED BY <1>1, <1>2, QuietStep

LEMMA CallFacts ==
    ASSUME IInv, NEW c \in Calls
    PROVE  /\ call[c] \in Request /\ Sound(call[c])
           /\ call[c].pc \notin {"idle", "ended"} => call[c].run \in Asks
BY DEF IInv, TypeOK, RequestsAreSound, Sound

LEMMA MeetsAsks ==
    ASSUME IInv, NEW r \in Asks
    PROVE  Meets(r) \subseteq Asks
BY CallFacts DEF Meets, Served

\* Where a request may go without reading or writing anything.
LEMMA GoesSoundly ==
    ASSUME IInv, NEW c \in Calls, NEW pc \in Places, Goes(c, pc),
           pc \in {"streaming", "interrupting", "reading"},
           call[c].pc \in {"started", "streaming", "interrupting", "reading"}
    PROVE  \E v \in Request : Sound(v) /\ Becomes(c, v)
<1> DEFINE v == [call[c] EXCEPT !.pc = pc]
<1>1. v \in Request /\ Sound(v)
  BY CallFacts DEF Sound, Request
<1>2. Becomes(c, v)
  BY DEF Goes
<1> QED BY <1>1, <1>2

LEMMA EndsSoundly ==
    ASSUME IInv, NEW c \in Calls, Ends(c)
    PROVE  \E v \in Request : Sound(v) /\ Becomes(c, v)
BY IdleIsSound DEF Ends

LEMMA CreateRunKeeps ==
    ASSUME IInv, NEW c \in Asks, NEW n \in 0..MaxHistory, CreateRun(c, n)
    PROVE  IInv'
<1> DEFINE pc == IF n = 0 THEN "asking" ELSE "importing"
           v == [Idle EXCEPT !.pc = pc, !.run = c, !.left = n]
<1>0. pc \in {"asking", "importing"} /\ n \in Nat
  BY TurnAssumption
<1> HIDE DEF pc
<1>1. v \in Request /\ Sound(v)
  BY <1>0, IdleIsSound DEF Idle, Request, Sound, Places, Runs
<1> USE DEF pc
<1>2. Becomes(c, v) /\ c \in Calls
  BY DEF CreateRun, Calls
<1>3. disturbed' \subseteq Asks
  BY MeetsAsks DEF CreateRun, IInv, TypeOK
<1>4. checkpoint' \in [of : Runs, next : BOOLEAN, wait : BOOLEAN]
  BY DEF CreateRun, IInv, TypeOK
<1> HIDE DEF v
<1>5. log' = log /\ summary' = summary /\ SetStatus(c, "running")
  BY DEF CreateRun
<1> QED BY <1>1, <1>2, <1>3, <1>4, <1>5, QuietStatus

LEMMA ReadSequenceKeeps ==
    ASSUME IInv, NEW c \in Calls, ReadSequence(c)
    PROVE  IInv'
<1> DEFINE v == [call[c] EXCEPT !.seen = NextSequence]
<1>1. Cardinality(log) \in Nat /\ NextSequence = Cardinality(log) + 1
  BY NextIsCardinality DEF IInv, TypeOK
<1>2. v \in Request /\ Sound(v)
  BY <1>1, CallFacts DEF Sound, Request
<1>3. Becomes(c, v)
  BY DEF ReadSequence
<1> HIDE DEF v
<1> QED BY <1>2, <1>3, QuietStep DEF ReadSequence, IInv, TypeOK

LEMMA ResumeKeeps ==
    ASSUME IInv, NEW c \in Calls, NEW r \in Asks, Resume(c, r)
    PROVE  IInv'
<1> DEFINE v == [Idle EXCEPT !.pc = "started", !.run = r]
<1>1. v \in Request /\ Sound(v)
  BY IdleIsSound DEF Resume, Idle, Request, Sound, Places, Runs, Asked
<1>2. Becomes(c, v)
  BY DEF Resume
<1>3. disturbed' \subseteq Asks
  BY MeetsAsks DEF Resume, IInv, TypeOK
<1> HIDE DEF v
<1> QED BY <1>1, <1>2, <1>3, QuietStep DEF Resume, IInv, TypeOK

LEMMA BeginStreamKeeps ==
    ASSUME IInv, NEW c \in Calls, BeginStream(c)
    PROVE  IInv'
<1>1. call[c].pc = "started" /\ call[c] \in Request /\ Sound(call[c])
  BY CallFacts DEF BeginStream
<1>2. checkpoint \in [of : Runs, next : BOOLEAN, wait : BOOLEAN]
  BY DEF IInv, TypeOK
<1>3. CASE call[c].run = c
  <2> DEFINE v == [call[c] EXCEPT !.pc = "streaming", !.carries = c]
  <2>1. c \in Runs
    BY <1>1, <1>3 DEF Sound, Runs
  <2>2. v \in Request /\ Sound(v)
    BY <1>1, <2>1 DEF Sound, Request, Places
  <2>3. Becomes(c, v) /\ Saves(c, TRUE, FALSE)
    BY <1>3, Zenon DEF BeginStream
  <2>4. checkpoint' \in [of : Runs, next : BOOLEAN, wait : BOOLEAN]
    BY <2>1, <2>3 DEF Saves
  <2> HIDE DEF v
  <2> QED BY <2>2, <2>3, <2>4, QuietStep DEF BeginStream, IInv, TypeOK
<1>4. CASE call[c].run # c
  <2> DEFINE pc == IF checkpoint.next THEN "streaming" ELSE "reading"
             v == [call[c] EXCEPT !.pc = pc, !.carries = checkpoint.of]
  <2>1. pc \in {"streaming", "reading"} /\ checkpoint.of \in Runs
    BY <1>2
  <2>2. Becomes(c, v) /\ Saves(checkpoint.of, checkpoint.next, FALSE)
    BY <1>4, Zenon DEF BeginStream
  <2>3. checkpoint' \in [of : Runs, next : BOOLEAN, wait : BOOLEAN]
    BY <1>2, <2>2 DEF Saves
  <2> HIDE DEF pc
  <2>4. v \in Request /\ Sound(v)
    BY <1>1, <2>1 DEF Sound, Request, Places
  <2> HIDE DEF v
  <2> QED BY <2>2, <2>3, <2>4, QuietStep DEF BeginStream, IInv, TypeOK
<1> QED BY <1>3, <1>4

LEMMA SavesSoundly ==
    ASSUME IInv, NEW r \in Runs, NEW next \in BOOLEAN, NEW wait \in BOOLEAN,
           Saves(r, next, wait)
    PROVE  checkpoint' \in [of : Runs, next : BOOLEAN, wait : BOOLEAN]
BY DEF Saves

LEMMA SuperstepKeeps ==
    ASSUME IInv, NEW c \in Calls, Superstep(c)
    PROVE  IInv'
<1>1. call[c] \in Request /\ Sound(call[c]) /\ call[c].carries \in Runs
  BY CallFacts DEF Request
<1>2. Becomes(c, call[c])
  BY DEF Superstep, Becomes, IInv, TypeOK
<1>3. checkpoint' \in [of : Runs, next : BOOLEAN, wait : BOOLEAN]
  BY <1>1, SavesSoundly DEF Superstep
<1> QED BY <1>1, <1>2, <1>3, QuietStep DEF Superstep, IInv, TypeOK

LEMMA GraphStopsKeeps ==
    ASSUME IInv, NEW c \in Calls, GraphStops(c)
    PROVE  IInv'
<1>1. call[c].carries \in Runs
  BY CallFacts DEF Request
<1>2. checkpoint' \in [of : Runs, next : BOOLEAN, wait : BOOLEAN]
  BY <1>1, SavesSoundly DEF GraphStops, GraphEnds, GraphWaits
<1>3. \E v \in Request : Sound(v) /\ Becomes(c, v)
  BY GoesSoundly DEF GraphStops, GraphEnds, GraphWaits, Places
<1>4. UNCHANGED <<log, summary, status, disturbed>>
  BY DEF GraphStops, GraphEnds, GraphWaits
<1> QED BY <1>2, <1>3, <1>4, QuietStep DEF IInv, TypeOK

LEMMA MarkInterruptedKeeps ==
    ASSUME IInv, NEW c \in Calls, MarkInterrupted(c)
    PROVE  IInv'
<1>1. \E v \in Request : Sound(v) /\ Becomes(c, v)
  BY GoesSoundly DEF MarkInterrupted, Places
<1>2. call[c].run \in Asks /\ SetStatus(call[c].run, "interrupted")
  BY CallFacts DEF MarkInterrupted
<1> QED BY <1>1, <1>2, QuietStatus DEF MarkInterrupted, IInv, TypeOK

LEMMA GetStateKeeps ==
    ASSUME IInv, NEW c \in Calls, GetState(c)
    PROVE  IInv'
<1>1. CASE checkpoint.next
  <2>1. \E v \in Request : Sound(v) /\ Becomes(c, v)
    BY <1>1, EndsSoundly DEF GetState
  <2> QED BY <2>1, QuietStep DEF GetState, IInv, TypeOK
<1>2. CASE ~checkpoint.next
  <2> DEFINE v == [call[c] EXCEPT !.pc = "answering",
                                  !.carries = checkpoint.of]
  <2>1. call[c].pc = "reading" /\ checkpoint.of \in Runs
    BY DEF GetState, IInv, TypeOK
  <2>2. v \in Request /\ Sound(v)
    BY <2>1, CallFacts DEF Sound, Request, Places
  <2>3. Becomes(c, v)
    BY <1>2, Zenon DEF GetState
  <2> HIDE DEF v
  <2> QED BY <2>2, <2>3, QuietStep DEF GetState, IInv, TypeOK
<1> QED BY <1>1, <1>2

LEMMA ReadSummaryKeeps ==
    ASSUME IInv, NEW c \in Calls, ReadSummary(c)
    PROVE  IInv'
<1> DEFINE v == [call[c] EXCEPT !.pc = "listing", !.through = summary.through,
                                !.covers = summary.covers]
<1>1. /\ summary.through \in Nat /\ summary.covers \in SUBSET Nat
      /\ summary.covers = 1..summary.through
      /\ summary.covers \subseteq Sequences
  BY DEF IInv, TypeOK, SummaryCoversPrefix
<1>2. call[c].pc = "summarizing" /\ call[c] \in Request /\ Sound(call[c])
  BY CallFacts DEF ReadSummary
<1>3. v \in Request
  BY <1>1, <1>2 DEF Request, Places
<1>4. Sound(v)
  BY <1>1, <1>2 DEF Sound, Request
<1>5. Becomes(c, v)
  BY DEF ReadSummary
<1> HIDE DEF v
<1> QED BY <1>3, <1>4, <1>5, QuietStep DEF ReadSummary, IInv, TypeOK

\* What a request goes on with when it has no summary to save, or has saved it.
LEMMA NothingReadIsSound ==
    ASSUME IInv, NEW c \in Calls, call[c].pc \in {"listing", "saving"}
    PROVE  /\ [call[c] EXCEPT !.pc = "completing", !.through = 0,
                              !.covers = {}] \in Request
           /\ Sound([call[c] EXCEPT !.pc = "completing", !.through = 0,
                                    !.covers = {}])
<1>1. call[c] \in Request /\ Sound(call[c]) /\ 1..0 = {}
  BY CallFacts
<1> QED BY <1>1 DEF Sound, Request, Places

LEMMA ListPendingKeeps ==
    ASSUME IInv, NEW c \in Calls, NEW heavy \in BOOLEAN, ListPending(c, heavy)
    PROVE  IInv'
<1> DEFINE t == call[c].through
           n == Cardinality(log)
           old == Candidates(Pending(t))
<1>1. /\ call[c].pc = "listing" /\ call[c] \in Request /\ Sound(call[c])
      /\ t \in Nat /\ n \in Nat /\ Sequences = 1..n
      /\ call[c].covers = 1..t /\ 1..t \subseteq Sequences
  BY CallFacts, FS_CardinalityType
     DEF ListPending, Sound, Request, IInv, TypeOK, LogIsGapFree
<1> HIDE DEF t, n
<1>2. t <= n
  <2>1. CASE t = 0
    BY <1>1, <2>1
  <2>2. CASE t # 0
    <3>1. t \in 1..t
      BY <1>1, <2>2
    <3> QED BY <3>1, <1>1
  <2> QED BY <2>1, <2>2
<1>3. CASE Becomes(c, [call[c] EXCEPT !.pc = "completing", !.through = 0,
                                      !.covers = {}])
  BY <1>1, <1>3, NothingReadIsSound, QuietStep DEF ListPending, IInv, TypeOK
<1>4. CASE /\ old # {}
           /\ Becomes(c, [call[c] EXCEPT !.pc = "saving", !.through = Max(old),
                                         !.covers = @ \cup old])
  <2>1. old = Candidates({k \in 1..n : k > t}) /\ old # {}
    BY <1>1, <1>4 DEF Pending
  <2> HIDE DEF old
  <2> DEFINE top == Max(old)
             all == call[c].covers \cup old
             v == [call[c] EXCEPT !.pc = "saving", !.through = top,
                                  !.covers = all]
  <2>2. top \in 1..n /\ (1..t) \cup old = 1..top
    BY <1>1, <1>2, <2>1, ExtendedCoverIsPrefix, TurnAssumption, SMTT(30)
  <2>3. all = 1..top
    BY <1>1, <2>2
  <2>4. Becomes(c, v)
    BY <1>4, Zenon
  <2> HIDE DEF top, all
  <2>5. top \in Nat /\ all \in SUBSET Nat /\ all \subseteq Sequences
    BY <1>1, <2>2, <2>3
  <2>6. v \in Request
    BY <1>1, <2>5 DEF Request, Places
  <2>7. Sound(v)
    BY <1>1, <2>3, <2>5 DEF Sound, Request
  <2> HIDE DEF v
  <2> QED BY <2>4, <2>6, <2>7, QuietStep DEF ListPending, IInv, TypeOK
<1> QED BY <1>3, <1>4, Zenon DEF ListPending, t, old

LEMMA SaveSummaryKeeps ==
    ASSUME IInv, NEW c \in Calls, SaveSummary(c)
    PROVE  IInv'
<1> DEFINE v == [call[c] EXCEPT !.pc = "completing", !.through = 0,
                                !.covers = {}]
<1>1. v \in Request /\ Sound(v)
  BY NothingReadIsSound DEF SaveSummary
<1>2. Becomes(c, v)
  BY DEF SaveSummary
<1>3. call[c] \in Request /\ Sound(call[c])
  BY CallFacts
<1> HIDE DEF v
<1>4. TypeOK'
  BY <1>1, <1>2, <1>3 DEF SaveSummary, Becomes, Request, IInv, TypeOK
<1>5. LogIsGapFree' /\ AnswersFollowQuestions'
  BY DEF SaveSummary, IInv, LogIsGapFree, Sequences, AnswersFollowQuestions,
         Answered
<1>6. SummaryCoversPrefix'
  BY <1>3 DEF SaveSummary, Sound, SummaryCoversPrefix, Sequences
<1>7. RequestsAreSound'
  <2> SUFFICES ASSUME NEW d \in Calls PROVE Sound(call[d])'
    BY DEF RequestsAreSound
  <2>1. PICK w : w = call'[d] /\ Sound(w)
    BY <1>1, <1>2 DEF Becomes, IInv, TypeOK, RequestsAreSound
  <2> QED BY <2>1, Zenon DEF SaveSummary, Sound, Asked, Answered, Sequences
<1> QED BY <1>4, <1>5, <1>6, <1>7 DEF IInv

LEMMA CompleteKeeps ==
    ASSUME IInv, NEW c \in Calls, Complete(c)
    PROVE  IInv'
<1>1. \E v \in Request : Sound(v) /\ Becomes(c, v)
  BY EndsSoundly DEF Complete
<1>2. call[c].run \in Asks /\ Answered(call[c].run)
  BY CallFacts DEF Complete, Sound
<1> QED BY <1>1, <1>2, QuietStatus DEF Complete, IInv, TypeOK

LEMMA RaiseKeeps ==
    ASSUME IInv, NEW c \in Calls, Raise(c)
    PROVE  IInv'
<1>1. \E v \in Request : Sound(v) /\ Becomes(c, v)
  BY EndsSoundly DEF Raise
<1>2. call[c].run \in Asks
  BY CallFacts DEF Raise
<1> QED BY <1>1, <1>2, QuietStatus DEF Raise, IInv, TypeOK

LEMMA EscapeKeeps ==
    ASSUME IInv, NEW c \in Calls, Escape(c)
    PROVE  IInv'
<1>1. \E v \in Request : Sound(v) /\ Becomes(c, v)
  BY EndsSoundly DEF Escape
<1>2. call[c].run \in Asks
  BY CallFacts DEF Escape, Served
<1> QED BY <1>1, <1>2, QuietStep DEF Escape, IInv, TypeOK

LEMMA InsertConflictsKeeps ==
    ASSUME IInv, NEW c \in Calls, InsertConflicts(c)
    PROVE  IInv'
<1>1. \E v \in Request : Sound(v) /\ Becomes(c, v)
  BY EndsSoundly DEF InsertConflicts
<1>2. call[c].run \in Asks
  BY CallFacts DEF InsertConflicts, Adding
<1>3. CASE call[c].pc = "answering"
  BY <1>1, <1>2, <1>3, QuietStatus DEF InsertConflicts, IInv, TypeOK
<1>4. CASE call[c].pc # "answering"
  BY <1>1, <1>4, QuietStep DEF InsertConflicts, IInv, TypeOK
<1> QED BY <1>3, <1>4

LEMMA CrashKeeps ==
    ASSUME IInv, Crash
    PROVE  IInv'
<1> DEFINE e == [Idle EXCEPT !.pc = "ended"]
<1>1. e \in Request /\ Sound(e)
  BY IdleIsSound
<1> HIDE DEF e
<1>2. call' \in [Calls -> Request]
  BY <1>1 DEF Crash, e, IInv, TypeOK
<1>3. disturbed' \subseteq Asks
  BY CallFacts DEF Crash, Served, IInv, TypeOK
<1>4. TypeOK'
  BY <1>2, <1>3 DEF Crash, IInv, TypeOK
<1>5. LogIsGapFree' /\ SummaryCoversPrefix' /\ AnswersFollowQuestions'
  BY DEF Crash, IInv, LogIsGapFree, SummaryCoversPrefix,
         AnswersFollowQuestions, Answered, Sequences
<1>6. RequestsAreSound'
  <2> SUFFICES ASSUME NEW d \in Calls PROVE Sound(call[d])'
    BY DEF RequestsAreSound
  <2>1. PICK w : w = call'[d] /\ Sound(w)
    BY <1>1 DEF Crash, e, IInv, RequestsAreSound
  <2> QED BY <2>1, Zenon DEF Crash, Sound, Asked, Answered, Sequences
<1> QED BY <1>4, <1>5, <1>6 DEF IInv

\* A number that is still free when it is used is the next one.
LEMMA InsertedRow ==
    ASSUME IInv, NEW c \in Calls, Insert(c)
    PROVE  /\ Row(c) \in Message /\ Row(c) \notin log
           /\ log' = log \cup {Row(c)}
           /\ Row(c).seq = Cardinality(log) + 1
           /\ Cardinality(log) \in Nat
           /\ Cardinality(log') = Cardinality(log) + 1
           /\ Sequences' = 1..(Cardinality(log) + 1)
           /\ IsFiniteSet(log')
<1> DEFINE n == Cardinality(log)
<1>1. /\ IsFiniteSet(log) /\ n \in Nat /\ Sequences = 1..n
      /\ call[c] \in Request /\ Sound(call[c]) /\ Adding(c)
      /\ call[c].seen # 0 /\ call[c].seen \notin Sequences
      /\ log' = log \cup {Row(c)}
  BY CallFacts, FS_CardinalityType
     DEF Insert, IsFree, IInv, TypeOK, LogIsGapFree
<1> HIDE DEF n
<1>2. call[c].seen = n + 1
  BY <1>1 DEF Sound, n
<1>3. Row(c).seq = n + 1
  BY <1>2 DEF Row
<1>4. Row(c) \notin log
  BY <1>1, <1>2, <1>3 DEF Sequences
<1>5. Row(c) \in Message
  <2>1. call[c].run \in Runs /\ call[c].carries \in Runs /\ NoRun \in Runs
    BY <1>1 DEF Request, Runs
  <2>2. call[c].pc \in {"importing", "asking", "answering"}
    BY <1>1 DEF Adding
  <2>3. n + 1 \in Nat \ {0}
    BY <1>1
  <2> QED BY <2>1, <2>2, <2>3, <1>2 DEF Row, Message
<1>6. Cardinality(log') = n + 1 /\ IsFiniteSet(log')
  BY <1>1, <1>4, FS_AddElement DEF n
<1>7. Sequences' = Sequences \cup {n + 1}
  BY <1>1, <1>3 DEF Sequences
<1>8. (1..n) \cup {n + 1} = 1..(n + 1)
  BY <1>1
<1> QED BY <1>1, <1>3, <1>4, <1>5, <1>6, <1>7, <1>8 DEF n

LEMMA InsertKeeps ==
    ASSUME IInv, NEW c \in Calls, Insert(c)
    PROVE  IInv'
<1> DEFINE n == Cardinality(log)
<1>1. /\ Row(c) \in Message /\ Row(c) \notin log
      /\ log' = log \cup {Row(c)} /\ Row(c).seq = n + 1 /\ n \in Nat
      /\ Cardinality(log') = n + 1 /\ Sequences' = 1..(n + 1)
      /\ IsFiniteSet(log')
  BY InsertedRow
<1>2. Sequences = 1..n /\ Sequences \subseteq Sequences'
  BY <1>1 DEF IInv, LogIsGapFree
<1>3. /\ call[c] \in Request /\ Sound(call[c]) /\ call[c].run \in Asks
      /\ call[c].pc \in {"importing", "asking", "answering"}
  BY CallFacts DEF Insert, Adding
<1>4. /\ UNCHANGED <<summary, status, checkpoint, disturbed>>
      /\ Becomes(c, [call[c] EXCEPT !.pc = AfterInsert(c), !.seen = 0,
                                    !.left = IF @ = 0 THEN 0 ELSE @ - 1])
  BY DEF Insert
<1> HIDE DEF n
<1> DEFINE pc == AfterInsert(c)
           left == IF call[c].left = 0 THEN 0 ELSE call[c].left - 1
           v == [call[c] EXCEPT !.pc = pc, !.seen = 0, !.left = left]
<1>5. Becomes(c, v)
  BY <1>4, Zenon
<1>6. left \in Nat
  BY <1>3 DEF Request
<1>7. pc \in {"importing", "asking", "started", "summarizing"}
  BY <1>3 DEF AfterInsert
<1>8. pc = "started" => Row(c).role = "user" /\ Row(c).run = call[c].run
  BY <1>3 DEF Row, AfterInsert
<1>9. pc = "summarizing" => /\ Row(c).role = "assistant"
                            /\ Row(c).run = call[c].run /\ Asked(call[c].run)
  BY <1>3 DEF Row, AfterInsert, Sound
<1> HIDE DEF pc, left
<1>10. v \in Request
  BY <1>3, <1>6, <1>7 DEF Request, Places
<1> HIDE DEF v
<1>11. TypeOK'
  BY <1>1, <1>4, <1>5, <1>10 DEF Becomes, IInv, TypeOK
<1>12. LogIsGapFree'
  BY <1>1 DEF LogIsGapFree
<1>13. SummaryCoversPrefix'
  BY <1>2, <1>4 DEF IInv, SummaryCoversPrefix
<1>14. AnswersFollowQuestions'
  <2>1. ASSUME NEW m \in log', m.role = "assistant"
        PROVE  \E q \in log' : q.role = "user" /\ q.run = m.run /\ q.seq < m.seq
    <3>1. CASE m \in log
      BY <1>1, <2>1, <3>1 DEF IInv, AnswersFollowQuestions
    <3>2. CASE m = Row(c)
      <4>1. call[c].pc = "answering" /\ m.run = call[c].run
        BY <1>3, <2>1, <3>2 DEF Row
      <4>2. PICK q \in log : q.role = "user" /\ q.run = call[c].run
        BY <1>3, <4>1 DEF Sound, Asked
      <4>3. q.seq \in 1..n
        BY <1>2 DEF Sequences
      <4>4. q.seq < m.seq
        BY <1>1, <3>2, <4>3
      <4> QED BY <1>1, <4>1, <4>2, <4>4
    <3> QED BY <1>1, <3>1, <3>2
  <2>2. ASSUME NEW r \in Asks, status'[r] = "completed"
        PROVE  Answered(r)'
    BY <1>1, <1>4, <2>2 DEF IInv, AnswersFollowQuestions, Answered
  <2> QED BY <2>1, <2>2 DEF AnswersFollowQuestions
<1>15. RequestsAreSound'
  <2> SUFFICES ASSUME NEW d \in Calls PROVE Sound(call[d])'
    BY DEF RequestsAreSound
  <2>1. \A r : (Asked(r) => Asked(r)') /\ (Answered(r) => Answered(r)')
    BY <1>1 DEF Asked, Answered
  <2>2. CASE d = c
    <3>1. PICK w : w = v
      OBVIOUS
    <3>2. call'[d] = w
      BY <1>5, <2>2, <3>1 DEF Becomes, IInv, TypeOK
    <3>3. /\ w.seen = 0 /\ w.pc = pc /\ w.run = call[c].run
          /\ w.covers = call[c].covers /\ w.through = call[c].through
      BY <1>3, <3>1 DEF v, Request
    <3>4. w.seen \in 0..(n + 1) + 1
      BY <1>1, <3>3
    <3>5. w.covers = 1..w.through /\ w.covers \subseteq Sequences'
      BY <1>2, <1>3, <3>3 DEF Sound
    <3>6. PICK r : r = w.run
      OBVIOUS
    <3>7. w.pc = "started" => Asked(r)'
      BY <1>1, <1>8, <3>3, <3>6 DEF Asked
    <3>8. w.pc = "summarizing" => Asked(r)' /\ Answered(r)'
      BY <1>1, <1>9, <2>1, <3>3, <3>6 DEF Answered
    <3>9. w.seen \in 0..Cardinality(log') + 1
      BY <1>1, <3>4
    <3>10. w.pc \in {"importing", "asking", "started", "summarizing"}
           /\ w.run \in Asks
      BY <1>3, <1>7, <3>3
    <3> QED BY <3>2, <3>5, <3>6, <3>7, <3>8, <3>9, <3>10 DEF Sound
  <2>3. CASE d # c
    <3>1. call'[d] = call[d] /\ Sound(call[d])
      BY <1>5, <2>3 DEF Becomes, IInv, TypeOK, RequestsAreSound
    <3>2. PICK w : w = call[d]
      OBVIOUS
    <3>3. call'[d] = w /\ Sound(w)
      BY <3>1, <3>2
    <3>4. w.seen \in 0..(n + 1) + 1
      BY <1>1, <3>3 DEF Sound, n
    <3>5. w.covers \subseteq Sequences'
      BY <1>2, <3>3 DEF Sound
    <3>6. w.seen \in 0..Cardinality(log') + 1
      BY <1>1, <3>4
    <3> QED BY <2>1, <3>3, <3>5, <3>6 DEF Sound
  <2> QED BY <2>2, <2>3
<1> QED BY <1>11, <1>12, <1>13, <1>14, <1>15 DEF IInv

-----------------------------------------------------------------------------
(* The specification                                                        *)

LEMMA InitIInv == Init => IInv
<1> SUFFICES ASSUME Init PROVE IInv
  OBVIOUS
<1>1. log = {} /\ Cardinality(log) = 0 /\ IsFiniteSet(log) /\ Sequences = {}
  BY FS_EmptySet DEF Init, Sequences
<1>2. 1..0 = {}
  OBVIOUS
<1>3. Idle \in Request
  BY DEF Idle, Request, Places, Runs
<1>4. TypeOK
  BY <1>1, <1>3 DEF Init, TypeOK, Runs
<1>5. LogIsGapFree /\ SummaryCoversPrefix /\ AnswersFollowQuestions
  BY <1>1, <1>2 DEF Init, LogIsGapFree, SummaryCoversPrefix,
                    AnswersFollowQuestions
<1>6. Sound(Idle)
  BY <1>1, <1>2 DEF Sound, Idle
<1> QED BY <1>4, <1>5, <1>6 DEF IInv, RequestsAreSound, Init

LEMMA NextIInv == IInv /\ [Next]_vars => IInv'
<1> SUFFICES ASSUME IInv, [Next]_vars PROVE IInv'
  OBVIOUS
<1>1. ASSUME NEW c \in Asks, NEW n \in 0..MaxHistory, CreateRun(c, n)
      PROVE  IInv'
  BY <1>1, CreateRunKeeps
<1>2. ASSUME NEW c \in Approvals, NEW r \in Asks, Resume(c, r)
      PROVE  IInv'
  BY <1>2, ResumeKeeps DEF Calls
<1>3. ASSUME NEW c \in Calls, Step(c)
      PROVE  IInv'
  BY <1>3, ReadSequenceKeeps, InsertKeeps, InsertConflictsKeeps,
     BeginStreamKeeps, GraphStopsKeeps, MarkInterruptedKeeps, GetStateKeeps,
     ReadSummaryKeeps, ListPendingKeeps, SaveSummaryKeeps, CompleteKeeps
     DEF Step
<1>4. ASSUME NEW c \in Calls, Superstep(c) \/ Raise(c) \/ Escape(c)
      PROVE  IInv'
  BY <1>4, SuperstepKeeps, RaiseKeeps, EscapeKeeps
<1>5. CASE Crash
  BY <1>5, CrashKeeps
<1>6. CASE UNCHANGED vars
  BY <1>6 DEF vars, IInv, TypeOK, LogIsGapFree, SummaryCoversPrefix,
              AnswersFollowQuestions, RequestsAreSound, Sound, Sequences,
              Asked, Answered
<1> QED BY <1>1, <1>2, <1>3, <1>4, <1>5, <1>6 DEF Next

\* However the requests of a conversation overlap, what they have read agrees
\* with what the database has when they use it, or they are refused.
THEOREM TurnInvariant == Spec => []IInv
<1> QED BY InitIInv, NextIInv, PTL DEF Spec

\* The messages are numbered 1, 2, ...: the number is read outside the insert's
\* transaction, and an insert of a number that was taken fails.
THEOREM LogHasNoGap == Spec => []LogIsGapFree
<1>1. IInv => LogIsGapFree
  BY DEF IInv
<1> QED BY <1>1, TurnInvariant, PTL

\* The summary is made of a prefix of the log, whichever request replaced it.
THEOREM SummaryCoversAPrefix == Spec => []SummaryCoversPrefix
<1>1. IInv => SummaryCoversPrefix
  BY DEF IInv
<1> QED BY <1>1, TurnInvariant, PTL

\* Answers come after their questions, and completed runs have one.
THEOREM AnswersComeAfter == Spec => []AnswersFollowQuestions
<1>1. IInv => AnswersFollowQuestions
  BY DEF IInv
<1> QED BY <1>1, TurnInvariant, PTL

-----------------------------------------------------------------------------
(* A run that is alone                                                      *)

\* Whose requests they are: a question works on its own run, and one that has
\* not come yet is in nobody's messages.
CallsAreTheirs ==
    /\ \A c \in Asks : /\ call[c].pc = "idle" => ~Asked(c)
                       /\ c \in Served => call[c].run = c
    /\ \A c \in Approvals : call[c].pc \notin {"importing", "asking"}

\* A checkpoint that is to go on belongs to a question without an answer, unless
\* its run was disturbed, whichever request works on it.
CheckpointIsOpen ==
    /\ checkpoint.wait => checkpoint.next
    /\ \A r \in Asks \ disturbed :
          /\ checkpoint.of = r /\ checkpoint.next => ~Answered(r)
          /\ \A c \in Calls : call[c].pc = "streaming" /\ call[c].carries = r => ~Answered(r)

\* How far a request has come with a run that nothing disturbs.
Stage(q) ==
    /\ q.pc \in {"streaming", "answering"} => q.carries = q.run
    /\ q.pc \in {"streaming", "interrupting", "reading"} => checkpoint.of = q.run
    /\ q.pc = "reading" /\ checkpoint.next => status[q.run] = "interrupted"
    /\ q.pc = "answering" => ~checkpoint.next
    /\ q.seen # 0 => q.seen = Cardinality(log) + 1
    /\ q.pc \notin {"summarizing", "listing", "saving", "completing"} => ~Answered(q.run)

ServedAlone ==
    \A c \in Served : call[c].run \notin disturbed =>
        /\ Served = {c}
        /\ Stage(call[c])
        /\ call[c].pc = "started" => call[c].run = c \/ checkpoint.of = call[c].run

CleanInv == CallsAreTheirs /\ CheckpointIsOpen /\ ServedAlone /\ AloneIsClean

Answers(r) == {m \in log : m.role = "assistant" /\ m.run = r}

OneAnswer(r) == /\ \A m \in Answers(r) : m.answers = r
                /\ Cardinality(Answers(r)) <= 1

\* One request goes on, or ends.  What others have read, and the runs they work
\* on, are as they were; what the step must show is about its own run.
LEMMA OneMoves ==
    ASSUME IInv, IInv', CleanInv, NEW c \in Served, NEW r \in Asks, r = call[c].run,
           \A d \in Calls : d # c => call'[d] = call[d],
           call'[c].pc # "idle",
           call'[c].pc = "ended" \/ call'[c].run = r,
           call'[c].pc \in {"importing", "asking"} =>
               call[c].pc \in {"importing", "asking"},
           call'[c].pc = "started" => call[c].pc \in {"importing", "asking"},
           disturbed \subseteq disturbed', log \subseteq log',
           \A m \in log' : m \in log \/ m.run = r \/ m.role = "history",
           \A s \in Asks : s # r => status'[s] = status[s],
           checkpoint'.wait => checkpoint'.next,
           \A s \in Asks \ disturbed :
               \/ checkpoint'.of = s /\ checkpoint'.next
               \/ call'[c].pc = "streaming" /\ call'[c].carries = s
               => ~Answered(s),
           r \notin disturbed' =>
               /\ OneAnswer(r)'
               /\ status'[r] = "running" => call'[c].pc # "ended"
               /\ call'[c].pc # "ended" => Stage(call[c])'
               /\ Answered(r)' => \/ Answered(r)
                                  \/ ~checkpoint'.next /\ call'[c].pc # "streaming"
    PROVE  CleanInv'
<1>1. Served' = IF call'[c].pc = "ended" THEN Served \ {c} ELSE Served
  BY DEF Served
<1>2. c \in Calls /\ call[c].pc \notin {"idle", "ended"} /\ Sound(call[c])
  BY CallFacts DEF Served
<1>3. \A s \in Asks \ {r} : Answers(s)' = Answers(s) /\ (Asked(s)' <=> Asked(s))
  BY DEF Answers, Asked
<1>4. \A s : Answered(s) <=> Answers(s) # {}
  BY DEF Answered, Answers
<1>5. \A s : Answered(s)' <=> Answers(s)' # {}
  BY DEF Answered, Answers
<1>6. CallsAreTheirs'
  <2>1. ASSUME NEW d \in Asks, call'[d].pc = "idle"
        PROVE  ~Asked(d)'
    <3>1. d # c /\ call[d].pc = "idle" /\ ~Asked(d)
      BY <2>1 DEF Calls, CleanInv, CallsAreTheirs
    <3>2. CASE d # r
      BY <1>3, <3>1, <3>2
    <3>3. CASE d = r
      <4>1. c \in Approvals
        BY <1>2, <3>1, <3>3 DEF Calls, CleanInv, CallsAreTheirs
      <4>2. Asked(r)
        BY <1>2, <4>1 DEF Sound, CleanInv, CallsAreTheirs
      <4> QED BY <3>1, <3>3, <4>2
    <3> QED BY <3>2, <3>3
  <2>2. ASSUME NEW d \in Asks, d \in Served'
        PROVE  call'[d].run = d
    BY <1>1, <2>2 DEF Calls, Served, CleanInv, CallsAreTheirs
  <2>3. ASSUME NEW d \in Approvals
        PROVE  call'[d].pc \notin {"importing", "asking"}
    BY DEF Calls, CleanInv, CallsAreTheirs
  <2> QED BY <2>1, <2>2, <2>3 DEF CallsAreTheirs
<1>7. r \notin disturbed => Served = {c}
  BY DEF CleanInv, ServedAlone
<1>8. CheckpointIsOpen'
  <2>1. ASSUME NEW s \in Asks \ disturbed', NEW d \in Calls,
               \/ checkpoint'.of = s /\ checkpoint'.next
               \/ call'[d].pc = "streaming" /\ call'[d].carries = s
        PROVE  ~Answered(s)'
    <3>1. s \notin disturbed
      OBVIOUS
    <3>2. CASE \/ checkpoint'.of = s /\ checkpoint'.next
               \/ call'[c].pc = "streaming" /\ call'[c].carries = s
      BY <1>3, <1>4, <1>5, <3>1, <3>2
    <3>3. CASE d # c /\ call'[d].pc = "streaming" /\ call'[d].carries = s
      <4>1. ~Answered(s)
        BY <3>1, <3>3 DEF CleanInv, CheckpointIsOpen
      <4>2. s # r
        <5>1. d \in Served
          BY <3>3 DEF Served
        <5> QED BY <1>7, <3>1, <3>3, <5>1
      <4> QED BY <1>3, <1>4, <1>5, <4>1, <4>2
    <3> QED BY <2>1, <3>2, <3>3
  <2>2. c \in Calls
    BY <1>2
  <2> QED BY <2>1, <2>2 DEF CheckpointIsOpen
<1>9. ServedAlone'
  <2> SUFFICES ASSUME NEW d \in Served', call'[d].run \notin disturbed'
               PROVE  /\ Served' = {d}
                      /\ Stage(call[d])'
                      /\ call'[d].pc = "started" =>
                             call'[d].run = d \/ checkpoint'.of = call'[d].run
    BY DEF ServedAlone
  <2>1. d \in Served /\ (d = c => call'[c].pc # "ended")
    BY <1>1
  <2>2. d = c
    <3>1. CASE d # c
      <4>1. call[d].run \notin disturbed
        BY <2>1, <3>1 DEF Served
      <4>2. Served = {d}
        BY <2>1, <4>1 DEF CleanInv, ServedAlone
      <4> QED BY <3>1, <4>2
    <3> QED BY <3>1
  <2>3. call'[c].run = r /\ Served' = {c} /\ Stage(call[c])'
    BY <1>1, <1>7, <2>1, <2>2
  <2>4. call'[c].pc = "started" => r = c
    BY <1>2 DEF Calls, CleanInv, CallsAreTheirs
  <2> QED BY <2>2, <2>3, <2>4
<1>10. AloneIsClean'
  <2> SUFFICES ASSUME NEW s \in Asks \ disturbed'
               PROVE  /\ OneAnswer(s)'
                      /\ status'[s] = "running" => \E d \in Served' : call'[d].run = s
    BY DEF AloneIsClean, OneAnswer, Answers
  <2>1. CASE s = r
    BY <1>1, <2>1
  <2>2. CASE s # r
    <3>1. OneAnswer(s) /\ (status[s] = "running" => \E d \in Served : call[d].run = s)
      BY DEF CleanInv, AloneIsClean, OneAnswer, Answers
    <3>2. OneAnswer(s)'
      BY <1>3, <2>2, <3>1 DEF OneAnswer
    <3>3. ASSUME status'[s] = "running"
          PROVE  \E d \in Served' : call'[d].run = s
      <4>1. PICK d \in Served : call[d].run = s
        BY <2>2, <3>1, <3>3
      <4>2. d # c /\ d \in Calls
        BY <2>2, <4>1 DEF Served
      <4> QED BY <1>1, <4>1, <4>2
    <3> QED BY <3>2, <3>3
  <2> QED BY <2>1, <2>2
<1> QED BY <1>6, <1>8, <1>9, <1>10 DEF CleanInv

\* The same when nothing is inserted.
LEMMA OneMovesQuietly ==
    ASSUME IInv, IInv', CleanInv, NEW c \in Served, NEW r \in Asks, r = call[c].run,
           \A d \in Calls : d # c => call'[d] = call[d],
           call'[c].pc # "idle",
           call'[c].pc = "ended" \/ call'[c].run = r,
           call'[c].pc \in {"importing", "asking"} =>
               call[c].pc \in {"importing", "asking"},
           call'[c].pc # "started",
           disturbed \subseteq disturbed', log' = log,
           \A s \in Asks : s # r => status'[s] = status[s],
           checkpoint'.wait => checkpoint'.next,
           \A s \in Asks \ disturbed :
               \/ checkpoint'.of = s /\ checkpoint'.next
               \/ call'[c].pc = "streaming" /\ call'[c].carries = s
               => ~Answered(s),
           r \notin disturbed' =>
               /\ status'[r] = "running" => call'[c].pc # "ended"
               /\ call'[c].pc # "ended" => Stage(call[c])'
    PROVE  CleanInv'
<1>1. Answers(r)' = Answers(r) /\ (Answered(r)' <=> Answered(r))
  BY DEF Answers, Answered
<1>2. r \notin disturbed => OneAnswer(r)
  BY DEF CleanInv, AloneIsClean, OneAnswer, Answers
<1>3. r \notin disturbed' => OneAnswer(r)'
  BY <1>1, <1>2 DEF OneAnswer
<1> QED BY <1>1, <1>3, OneMoves

\* Where the request is after a step, and that no other request has moved.
LEMMA BecomesItself ==
    ASSUME IInv, NEW c \in Calls, NEW v, Becomes(c, v)
    PROVE  call'[c] = v /\ \A d \in Calls : d # c => call'[d] = call[d]
BY DEF Becomes, IInv, TypeOK

LEMMA ServedFacts ==
    ASSUME IInv, CleanInv, NEW c \in Calls, call[c].pc \notin {"idle", "ended"}
    PROVE  /\ c \in Served /\ call[c] \in Request /\ call[c].run \in Asks
           /\ call[c].run \notin disturbed =>
                  /\ Served = {c} /\ Stage(call[c])
                  /\ call[c].pc = "started" =>
                         call[c].run = c \/ checkpoint.of = call[c].run
           /\ checkpoint \in [of : Runs, next : BOOLEAN, wait : BOOLEAN]
BY CallFacts DEF Served, CleanInv, ServedAlone, IInv, TypeOK

LEMMA StatusIsSet ==
    ASSUME IInv, NEW r \in Asks, NEW s, SetStatus(r, s)
    PROVE  status'[r] = s /\ \A q \in Asks : q # r => status'[q] = status[q]
BY DEF SetStatus, IInv, TypeOK

\* A request ends that leaves its run in a state that is not "running".
LEMMA EndsCleanly ==
    ASSUME IInv, IInv', CleanInv, NEW c \in Calls, call[c].pc \notin {"idle", "ended"},
           Ends(c), UNCHANGED <<log, checkpoint>>, disturbed \subseteq disturbed',
           \A s \in Asks : s # call[c].run => status'[s] = status[s],
           call[c].run \notin disturbed' => status'[call[c].run] # "running"
    PROVE  CleanInv'
<1>1. PICK r \in Asks : r = call[c].run
  BY ServedFacts
<1>2. call'[c].pc = "ended" /\ \A d \in Calls : d # c => call'[d] = call[d]
  BY BecomesItself DEF Ends, Idle
<1>3. c \in Served
  BY ServedFacts
<1>4. /\ checkpoint'.wait => checkpoint'.next
      /\ \A s \in Asks \ disturbed : checkpoint'.of = s /\ checkpoint'.next => ~Answered(s)
  BY DEF CleanInv, CheckpointIsOpen
<1> QED BY <1>1, <1>2, <1>3, <1>4, OneMovesQuietly

\* A request goes on that leaves the checkpoint, the statuses and the log alone.
LEMMA GoesOnCleanly ==
    ASSUME IInv, IInv', CleanInv, NEW c \in Calls, call[c].pc \notin {"idle", "ended"},
           NEW v, Becomes(c, v), v.run = call[c].run,
           v.pc \in Places \ {"idle", "ended", "started", "streaming"},
           v.pc \in {"importing", "asking"} => call[c].pc \in {"importing", "asking"},
           UNCHANGED <<log, checkpoint, status>>, disturbed \subseteq disturbed',
           call[c].run \notin disturbed => Stage(v)
    PROVE  CleanInv'
<1>1. PICK r \in Asks : r = call[c].run
  BY ServedFacts
<1>2. call'[c] = v /\ \A d \in Calls : d # c => call'[d] = call[d]
  BY BecomesItself
<1>3. c \in Served
  BY ServedFacts
<1>4. /\ checkpoint'.wait => checkpoint'.next
      /\ \A s \in Asks \ disturbed : checkpoint'.of = s /\ checkpoint'.next => ~Answered(s)
  BY DEF CleanInv, CheckpointIsOpen
<1>5. r \notin disturbed' => Stage(call[c])'
  BY <1>1, <1>2 DEF Stage, Answered
<1> QED BY <1>1, <1>2, <1>3, <1>4, <1>5, OneMovesQuietly

\* A node has run: the checkpoint is of what the request carries.
LEMMA GraphGoesOnCleanly ==
    ASSUME IInv, IInv', CleanInv, NEW c \in Calls, call[c].pc = "streaming",
           NEW next \in BOOLEAN, NEW wait \in BOOLEAN, wait => next,
           Saves(call[c].carries, next, wait), UNCHANGED <<log, status, disturbed>>,
           \/ Goes(c, "streaming")
           \/ Goes(c, "reading") /\ ~next
           \/ Goes(c, "interrupting")
    PROVE  CleanInv'
<1>1. PICK r \in Asks : r = call[c].run
  BY ServedFacts
<1>2. PICK pc \in {"streaming", "reading", "interrupting"} :
          Goes(c, pc) /\ (pc = "reading" => ~next)
  OBVIOUS
<1>3. c \in Served /\ call[c] \in Request
      /\ (r \notin disturbed => Stage(call[c]))
  BY <1>1, ServedFacts
<1>4. /\ call'[c] = [call[c] EXCEPT !.pc = pc]
      /\ \A d \in Calls : d # c => call'[d] = call[d]
  BY <1>2, BecomesItself DEF Goes
<1>5. /\ call'[c].pc = pc /\ call'[c].run = r /\ call'[c].carries = call[c].carries
      /\ call'[c].seen = call[c].seen
  BY <1>1, <1>3, <1>4 DEF Request
<1>6. checkpoint'.of = call[c].carries /\ checkpoint'.next = next /\ checkpoint'.wait = wait
  BY DEF Saves
<1>7. \A s \in Asks \ disturbed : call[c].carries = s => ~Answered(s)
  BY DEF CleanInv, CheckpointIsOpen
<1>8. r \notin disturbed' => Stage(call[c])'
  BY <1>1, <1>2, <1>3, <1>5, <1>6 DEF Stage, Answered
<1> QED BY <1>1, <1>2, <1>3, <1>4, <1>5, <1>6, <1>7, <1>8, OneMovesQuietly, ZenonT(40)

LEMMA ReadSequenceCleanly ==
    ASSUME IInv, IInv', CleanInv, NEW c \in Calls, ReadSequence(c)
    PROVE  CleanInv'
<1> DEFINE v == [call[c] EXCEPT !.seen = NextSequence]
<1>1. NextSequence = Cardinality(log) + 1
  BY NextIsCardinality DEF IInv, TypeOK
<1>2. call[c].pc \in {"importing", "asking", "answering"} /\ call[c] \in Request
  BY CallFacts DEF ReadSequence, Adding
<1>3. /\ v.pc = call[c].pc /\ v.run = call[c].run /\ v.carries = call[c].carries
      /\ v.seen = Cardinality(log) + 1
  BY <1>1, <1>2 DEF Request
<1>4. Becomes(c, v) /\ UNCHANGED <<log, summary, status, checkpoint, disturbed>>
  BY DEF ReadSequence
<1> HIDE DEF v
<1>5. call[c].run \notin disturbed => Stage(v)
  BY <1>2, <1>3, ServedFacts DEF Stage
<1> QED BY <1>2, <1>3, <1>4, <1>5, GoesOnCleanly DEF Places

\* Nobody inserts beside a run that is alone: the number it has read is free.
LEMMA InsertConflictsCleanly ==
    ASSUME IInv, IInv', CleanInv, NEW c \in Calls, InsertConflicts(c)
    PROVE  CleanInv'
<1>1. /\ call[c].pc \in {"importing", "asking", "answering"} /\ call[c].seen # 0
      /\ call[c].seen \in Sequences
      /\ Ends(c) /\ UNCHANGED <<log, summary, checkpoint, disturbed>>
      /\ SetStatus(call[c].run, "failed") \/ UNCHANGED status
  BY DEF InsertConflicts, Adding, IsFree
<1>2. call[c].run \in disturbed
  <2>1. Sequences = 1..Cardinality(log) /\ Cardinality(log) \in Nat
    BY FS_CardinalityType DEF IInv, TypeOK, LogIsGapFree
  <2>2. call[c].seen # Cardinality(log) + 1
    BY <1>1, <2>1
  <2> QED BY <1>1, <2>2, ServedFacts DEF Stage
<1>3. \A s \in Asks : s # call[c].run => status'[s] = status[s]
  BY <1>1, StatusIsSet, ServedFacts
<1> QED BY <1>1, <1>2, <1>3, EndsCleanly

LEMMA GraphStepsCleanly ==
    ASSUME IInv, IInv', CleanInv, NEW c \in Calls, Superstep(c) \/ GraphStops(c)
    PROVE  CleanInv'
<1>1. CASE Superstep(c)
  <2>1. Goes(c, "streaming")
    BY <1>1, CallFacts DEF Superstep, Goes, Becomes, IInv, TypeOK, Request
  <2> QED BY <1>1, <2>1, GraphGoesOnCleanly DEF Superstep
<1>2. CASE GraphEnds(c)
  BY <1>2, GraphGoesOnCleanly DEF GraphEnds
<1>3. CASE GraphWaits(c)
  BY <1>3, GraphGoesOnCleanly DEF GraphWaits
<1> QED BY <1>1, <1>2, <1>3 DEF GraphStops

LEMMA MarkInterruptedCleanly ==
    ASSUME IInv, IInv', CleanInv, NEW c \in Calls, MarkInterrupted(c)
    PROVE  CleanInv'
<1>1. /\ call[c].pc = "interrupting" /\ SetStatus(call[c].run, "interrupted")
      /\ Goes(c, "reading") /\ UNCHANGED <<log, summary, checkpoint, disturbed>>
  BY DEF MarkInterrupted
<1>2. PICK r \in Asks : r = call[c].run
  BY <1>1, ServedFacts
<1>3. c \in Served /\ call[c] \in Request
      /\ (r \notin disturbed => Stage(call[c]))
  BY <1>1, <1>2, ServedFacts
<1>4. /\ call'[c] = [call[c] EXCEPT !.pc = "reading"]
      /\ \A d \in Calls : d # c => call'[d] = call[d]
  BY <1>1, BecomesItself DEF Goes
<1>5. /\ call'[c].pc = "reading" /\ call'[c].run = r
      /\ call'[c].carries = call[c].carries /\ call'[c].seen = call[c].seen
  BY <1>2, <1>3, <1>4 DEF Request
<1>6. status'[r] = "interrupted" /\ \A s \in Asks : s # r => status'[s] = status[s]
  BY <1>1, <1>2, StatusIsSet
<1>7. /\ checkpoint'.wait => checkpoint'.next
      /\ \A s \in Asks \ disturbed : checkpoint'.of = s /\ checkpoint'.next => ~Answered(s)
  BY <1>1 DEF CleanInv, CheckpointIsOpen
<1>8. r \notin disturbed' => Stage(call[c])'
  BY <1>1, <1>2, <1>3, <1>5, <1>6 DEF Stage, Answered
<1> QED BY <1>1, <1>2, <1>3, <1>4, <1>5, <1>6, <1>7, <1>8, OneMovesQuietly

LEMMA GetStateCleanly ==
    ASSUME IInv, IInv', CleanInv, NEW c \in Calls, GetState(c)
    PROVE  CleanInv'
<1>1. call[c].pc = "reading" /\ UNCHANGED <<log, summary, status, checkpoint, disturbed>>
  BY DEF GetState
<1>2. CASE checkpoint.next
  <2>1. Ends(c)
    BY <1>2 DEF GetState
  <2>2. call[c].run \notin disturbed => status[call[c].run] = "interrupted"
    BY <1>1, <1>2, ServedFacts DEF Stage
  <2> QED BY <1>1, <2>1, <2>2, EndsCleanly
<1>3. CASE ~checkpoint.next
  <2> DEFINE v == [call[c] EXCEPT !.pc = "answering", !.carries = checkpoint.of]
  <2>1. Becomes(c, v) /\ call[c] \in Request
    BY <1>3, CallFacts, Zenon DEF GetState
  <2>2. /\ v.pc = "answering" /\ v.run = call[c].run /\ v.carries = checkpoint.of
        /\ v.seen = call[c].seen
    BY <2>1 DEF Request
  <2> HIDE DEF v
  <2>3. call[c].run \notin disturbed => Stage(v)
    BY <1>1, <1>3, <2>2, ServedFacts DEF Stage
  <2> QED BY <1>1, <2>1, <2>2, <2>3, GoesOnCleanly DEF Places
<1> QED BY <1>2, <1>3

\* The steps behind the answer.
LEMMA SummaryStepsCleanly ==
    ASSUME IInv, IInv', CleanInv, NEW c \in Calls,
           call[c].pc \in {"summarizing", "listing", "saving"},
           NEW pc \in {"listing", "saving", "completing"}, NEW through, NEW covers,
           Becomes(c, [call[c] EXCEPT !.pc = pc, !.through = through, !.covers = covers]),
           UNCHANGED <<log, status, checkpoint, disturbed>>
    PROVE  CleanInv'
<1> DEFINE v == [call[c] EXCEPT !.pc = pc, !.through = through, !.covers = covers]
<1>1. call[c] \in Request
  BY CallFacts
<1>2. /\ v.pc = pc /\ v.run = call[c].run /\ v.carries = call[c].carries
      /\ v.seen = call[c].seen
  BY <1>1 DEF Request
<1>3. Becomes(c, v)
  OBVIOUS
<1> HIDE DEF v
<1>4. call[c].run \notin disturbed => Stage(v)
  BY <1>2, ServedFacts DEF Stage
<1> QED BY <1>2, <1>3, <1>4, GoesOnCleanly DEF Places

LEMMA SummaryCleanly ==
    ASSUME IInv, IInv', CleanInv, NEW c \in Calls,
           \/ ReadSummary(c)
           \/ \E heavy \in BOOLEAN : ListPending(c, heavy)
           \/ SaveSummary(c)
    PROVE  CleanInv'
<1>1. CASE ReadSummary(c)
  BY <1>1, SummaryStepsCleanly DEF ReadSummary
<1>2. ASSUME NEW heavy \in BOOLEAN, ListPending(c, heavy) PROVE CleanInv'
  <2> DEFINE old == Candidates(Pending(call[c].through))
  <2>1. \/ Becomes(c, [call[c] EXCEPT !.pc = "saving", !.through = Max(old),
                                      !.covers = call[c].covers \cup old])
        \/ Becomes(c, [call[c] EXCEPT !.pc = "completing", !.through = 0, !.covers = {}])
    BY <1>2, Zenon DEF ListPending
  <2> HIDE DEF old
  <2> QED BY <1>2, <2>1, SummaryStepsCleanly DEF ListPending
<1>3. CASE SaveSummary(c)
  BY <1>3, SummaryStepsCleanly DEF SaveSummary
<1> QED BY <1>1, <1>2, <1>3

LEMMA LastStepsCleanly ==
    ASSUME IInv, IInv', CleanInv, NEW c \in Calls, Complete(c) \/ Raise(c) \/ Escape(c)
    PROVE  CleanInv'
<1>1. /\ call[c].pc \notin {"idle", "ended"} /\ Ends(c) /\ UNCHANGED <<log, checkpoint>>
      /\ call[c].run \in Asks
  BY CallFacts DEF Complete, Raise, Escape, Served
<1>2. CASE Complete(c) \/ Raise(c)
  <2>1. PICK s \in {"completed", "failed"} : SetStatus(call[c].run, s)
    BY <1>2 DEF Complete, Raise
  <2>2. disturbed' = disturbed
    BY <1>2 DEF Complete, Raise
  <2> QED BY <1>1, <2>1, <2>2, StatusIsSet, EndsCleanly
<1>3. CASE Escape(c)
  BY <1>1, <1>3, EndsCleanly DEF Escape
<1> QED BY <1>2, <1>3

LEMMA BeginStreamCleanly ==
    ASSUME IInv, IInv', CleanInv, NEW c \in Calls, BeginStream(c)
    PROVE  CleanInv'
<1>1. call[c].pc = "started" /\ UNCHANGED <<log, summary, status, disturbed>>
  BY DEF BeginStream
<1>2. PICK r \in Asks : r = call[c].run
  BY <1>1, ServedFacts
<1>3. /\ c \in Served /\ call[c] \in Request
      /\ r \notin disturbed => Stage(call[c]) /\ (r = c \/ checkpoint.of = r)
      /\ checkpoint \in [of : Runs, next : BOOLEAN, wait : BOOLEAN]
  BY <1>1, <1>2, ServedFacts
<1>4. PICK pc \in {"streaming", "reading"}, of \in Runs, next \in BOOLEAN :
          /\ Saves(of, next, FALSE)
          /\ Becomes(c, [call[c] EXCEPT !.pc = pc, !.carries = of])
          /\ r = c => of = c
          /\ r # c => of = checkpoint.of /\ next = checkpoint.next
          /\ pc = "streaming" <=> next
  <2>1. CASE r = c
    <3>1. Saves(c, TRUE, FALSE) /\ c \in Runs
          /\ Becomes(c, [call[c] EXCEPT !.pc = "streaming", !.carries = c])
      BY <1>2, <2>1, Zenon DEF BeginStream, Runs
    <3> QED BY <2>1, <3>1
  <2>2. CASE r # c
    <3> DEFINE pc == IF checkpoint.next THEN "streaming" ELSE "reading"
    <3>1. Saves(checkpoint.of, checkpoint.next, FALSE)
          /\ Becomes(c, [call[c] EXCEPT !.pc = pc, !.carries = checkpoint.of])
      BY <1>2, <2>2, Zenon DEF BeginStream
    <3>2. pc \in {"streaming", "reading"} /\ (pc = "streaming" <=> checkpoint.next)
      OBVIOUS
    <3> HIDE DEF pc
    <3> QED BY <1>3, <2>2, <3>1, <3>2
  <2> QED BY <2>1, <2>2
<1>5. checkpoint'.of = of /\ checkpoint'.next = next /\ checkpoint'.wait = FALSE
  BY <1>4 DEF Saves
<1>6. /\ call'[c] = [call[c] EXCEPT !.pc = pc, !.carries = of]
      /\ \A d \in Calls : d # c => call'[d] = call[d]
  BY <1>4, BecomesItself
<1>7. /\ call'[c].pc = pc /\ call'[c].run = r /\ call'[c].carries = of
      /\ call'[c].seen = call[c].seen
  BY <1>2, <1>3, <1>6 DEF Request
<1>8. \A s \in Asks \ disturbed : of = s /\ (next \/ pc = "streaming") => ~Answered(s)
  <2>1. CASE r = c
    BY <1>1, <1>2, <1>3, <1>4, <2>1 DEF Stage
  <2>2. CASE r # c
    BY <1>4, <2>2 DEF CleanInv, CheckpointIsOpen
  <2> QED BY <2>1, <2>2
<1>9. r \notin disturbed' => Stage(call[c])'
  BY <1>1, <1>2, <1>3, <1>4, <1>5, <1>7 DEF Stage, Answered
<1> QED BY <1>1, <1>2, <1>3, <1>4, <1>5, <1>6, <1>7, <1>8, <1>9, OneMovesQuietly, ZenonT(40)

\* The one answer of a run that is alone is its own.
LEMMA InsertCleanly ==
    ASSUME IInv, IInv', CleanInv, NEW c \in Calls, Insert(c)
    PROVE  CleanInv'
<1>1. /\ call[c].pc \in {"importing", "asking", "answering"}
      /\ UNCHANGED <<summary, status, checkpoint, disturbed>>
      /\ log' = log \cup {Row(c)}
  BY DEF Insert, Adding
<1>2. PICK r \in Asks : r = call[c].run
  BY <1>1, ServedFacts
<1>3. c \in Served /\ call[c] \in Request
      /\ (r \notin disturbed => Stage(call[c]))
  BY <1>1, <1>2, ServedFacts
<1> DEFINE pc == AfterInsert(c)
           left == IF call[c].left = 0 THEN 0 ELSE call[c].left - 1
<1>4. /\ call'[c] = [call[c] EXCEPT !.pc = pc, !.seen = 0, !.left = left]
      /\ \A d \in Calls : d # c => call'[d] = call[d]
  <2>1. Becomes(c, [call[c] EXCEPT !.pc = pc, !.seen = 0, !.left = left])
    BY Zenon DEF Insert
  <2> HIDE DEF pc, left
  <2> QED BY <2>1, BecomesItself
<1>5. /\ pc \in {"importing", "asking", "started", "summarizing"}
      /\ pc = "summarizing" <=> call[c].pc = "answering"
  BY <1>1 DEF AfterInsert
<1> HIDE DEF pc, left
<1>6. call'[c].pc = pc /\ call'[c].run = r /\ call'[c].seen = 0
  BY <1>2, <1>3, <1>4 DEF Request
<1>7. /\ Row(c).role = "assistant" <=> call[c].pc = "answering"
      /\ Row(c).run = r \/ Row(c).role = "history"
      /\ call[c].pc = "answering" => Row(c).answers = call[c].carries /\ Row(c).run = r
  BY <1>1, <1>2 DEF Row
<1>8. /\ checkpoint'.wait => checkpoint'.next
      /\ \A s \in Asks \ disturbed : checkpoint'.of = s /\ checkpoint'.next => ~Answered(s)
  BY <1>1 DEF CleanInv, CheckpointIsOpen
<1>9. ASSUME r \notin disturbed', call[c].pc = "answering"
      PROVE  OneAnswer(r)' /\ ~checkpoint'.next
  <2>1. ~Answered(r) /\ call[c].carries = r /\ ~checkpoint.next
    BY <1>1, <1>2, <1>3, <1>9 DEF Stage
  <2>2. Answers(r)' = {Row(c)}
    BY <1>1, <1>7, <1>9, <2>1 DEF Answers, Answered
  <2>3. Cardinality(Answers(r)') = 1
    BY <2>2, FS_Singleton
  <2> QED BY <1>1, <1>7, <1>9, <2>1, <2>2, <2>3 DEF OneAnswer
<1>10. ASSUME r \notin disturbed', call[c].pc # "answering"
       PROVE  OneAnswer(r)' /\ ~Answered(r)'
  <2>1. Answers(r)' = Answers(r) /\ ~Answered(r)
    BY <1>1, <1>2, <1>3, <1>7, <1>10 DEF Answers, Stage
  <2>2. OneAnswer(r)
    BY <1>1, <1>10 DEF CleanInv, AloneIsClean, OneAnswer, Answers
  <2> QED BY <2>1, <2>2 DEF OneAnswer, Answers, Answered
<1>11. r \notin disturbed' => Stage(call[c])'
  BY <1>5, <1>6, <1>10 DEF Stage
<1>12. /\ log \subseteq log'
       /\ \A m \in log' : m \in log \/ m.run = r \/ m.role = "history"
       /\ \A s \in Asks : s # r => status'[s] = status[s]
       /\ disturbed \subseteq disturbed'
  BY <1>1, <1>7
<1>13. /\ call'[c].pc \notin {"idle", "streaming"}
       /\ call'[c].pc \in {"importing", "asking", "started"} =>
              call[c].pc \in {"importing", "asking"}
  BY <1>1, <1>5, <1>6
<1>14. r \notin disturbed' =>
           /\ OneAnswer(r)'
           /\ status'[r] = "running" => call'[c].pc # "ended"
           /\ call'[c].pc # "ended" => Stage(call[c])'
           /\ Answered(r)' => \/ Answered(r)
                              \/ ~checkpoint'.next /\ call'[c].pc # "streaming"
  BY <1>5, <1>6, <1>9, <1>10, <1>11, <1>13
<1>15. \A s \in Asks \ disturbed :
           \/ checkpoint'.of = s /\ checkpoint'.next
           \/ call'[c].pc = "streaming" /\ call'[c].carries = s
           => ~Answered(s)
  BY <1>8, <1>13
<1>16. c \in Served /\ \A d \in Calls : d # c => call'[d] = call[d]
  BY <1>3, <1>4
<1> QED BY <1>2, <1>6, <1>8, <1>12, <1>13, <1>14, <1>15, <1>16, OneMoves

\* A request comes.  Whom it meets is disturbed, and so is its own run then.
LEMMA OneArrives ==
    ASSUME IInv, IInv', CleanInv, NEW c \in Calls, call[c].pc = "idle",
           NEW r \in Asks, call'[c].run = r, call'[c].seen = 0,
           call'[c].pc \in {"importing", "asking", "started"},
           \A d \in Calls : d # c => call'[d] = call[d],
           c \in Asks => r = c, c \in Approvals => call'[c].pc = "started",
           UNCHANGED <<log, checkpoint>>, disturbed \cup Meets(r) \subseteq disturbed',
           \A s \in Asks : s # r => status'[s] = status[s],
           r \notin disturbed' =>
               /\ ~Answered(r)
               /\ call'[c].pc = "started" => r = c \/ checkpoint.of = r
    PROVE  CleanInv'
<1>1. Served' = Served \cup {c} /\ c \notin Served
  BY DEF Served
<1>2. Served # {} => r \in disturbed' /\ \A d \in Served : call[d].run \in disturbed'
  BY DEF Meets
<1>3. CallsAreTheirs'
  BY <1>1 DEF CleanInv, CallsAreTheirs, Calls, Asked, Served
<1>4. CheckpointIsOpen'
  BY DEF CleanInv, CheckpointIsOpen, Answered
<1>5. ServedAlone'
  <2> SUFFICES ASSUME NEW d \in Served', call'[d].run \notin disturbed'
               PROVE  /\ Served' = {d}
                      /\ Stage(call[d])'
                      /\ call'[d].pc = "started" =>
                             call'[d].run = d \/ checkpoint'.of = call'[d].run
    BY DEF ServedAlone
  <2>1. d = c
    BY <1>1, <1>2 DEF Served
  <2>2. Served = {}
    BY <1>2, <2>1
  <2> QED BY <1>1, <2>1, <2>2 DEF Stage, Answered
<1>6. AloneIsClean'
  <2> SUFFICES ASSUME NEW s \in Asks \ disturbed'
               PROVE  /\ OneAnswer(s)'
                      /\ status'[s] = "running" => \E d \in Served' : call'[d].run = s
    BY DEF AloneIsClean, OneAnswer, Answers
  <2>1. OneAnswer(s) /\ (status[s] = "running" => \E d \in Served : call[d].run = s)
    BY DEF CleanInv, AloneIsClean, OneAnswer, Answers
  <2>2. OneAnswer(s)'
    BY <2>1 DEF OneAnswer, Answers
  <2>3. \A d \in Served : d \in Served' /\ call'[d].run = call[d].run
    BY <1>1 DEF Served
  <2>4. c \in Served' /\ call'[c].run = r
    BY <1>1
  <2>5. CASE s = r
    BY <2>2, <2>4, <2>5
  <2>6. CASE s # r
    BY <2>1, <2>2, <2>3, <2>6
  <2> QED BY <2>5, <2>6
<1> QED BY <1>3, <1>4, <1>5, <1>6 DEF CleanInv

LEMMA CreateRunCleanly ==
    ASSUME IInv, IInv', CleanInv, NEW c \in Asks, NEW n \in 0..MaxHistory, CreateRun(c, n)
    PROVE  CleanInv'
<1> DEFINE pc == IF n = 0 THEN "asking" ELSE "importing"
           v == [Idle EXCEPT !.pc = pc, !.run = c, !.left = n]
<1>1. c \in Calls /\ call[c].pc = "idle" /\ Becomes(c, v)
  BY DEF CreateRun, Accepted, Calls
<1>2. pc \in {"asking", "importing"}
  OBVIOUS
<1> HIDE DEF pc
<1>3. v.pc = pc /\ v.run = c /\ v.seen = 0
  BY DEF Idle
<1> HIDE DEF v
<1>4. call'[c] = v /\ \A d \in Calls : d # c => call'[d] = call[d]
  BY <1>1, BecomesItself
<1>5. ~Answered(c)
  BY <1>1 DEF CleanInv, CallsAreTheirs, IInv, AnswersFollowQuestions, Asked, Answered
<1>6. \A s \in Asks : s # c => status'[s] = status[s]
  BY StatusIsSet DEF CreateRun
<1>7. c \notin Approvals
  BY TurnAssumption
<1> QED BY <1>1, <1>2, <1>3, <1>4, <1>5, <1>6, <1>7, OneArrives DEF CreateRun

\* The conversation that waits for an approval has no answer of that run yet.
LEMMA ResumeCleanly ==
    ASSUME IInv, IInv', CleanInv, NEW c \in Approvals, NEW r \in Asks, Resume(c, r)
    PROVE  CleanInv'
<1> DEFINE v == [Idle EXCEPT !.pc = "started", !.run = r]
<1>1. c \in Calls /\ call[c].pc = "idle" /\ Becomes(c, v)
      /\ UNCHANGED <<log, summary, status, checkpoint>>
  BY DEF Resume, Accepted, Calls
<1>2. v.pc = "started" /\ v.run = r /\ v.seen = 0
  BY DEF Idle
<1> HIDE DEF v
<1>3. call'[c] = v /\ \A d \in Calls : d # c => call'[d] = call[d]
  BY <1>1, BecomesItself
<1>4. disturbed \cup Meets(r) \subseteq disturbed'
  BY DEF Resume, Meets
<1>5. ASSUME r \notin disturbed'
      PROVE  ~Answered(r) /\ checkpoint.of = r
  <2>1. checkpoint.wait /\ checkpoint.of = r /\ r \notin disturbed
    BY <1>5 DEF Resume
  <2> QED BY <2>1 DEF CleanInv, CheckpointIsOpen
<1>6. c \notin Asks
  BY TurnAssumption
<1> QED BY <1>1, <1>2, <1>3, <1>4, <1>5, <1>6, OneArrives

LEMMA CrashCleanly ==
    ASSUME IInv, IInv', CleanInv, Crash
    PROVE  CleanInv'
<1>1. \A c \in Calls : /\ c \in Served => call'[c].pc = "ended"
                       /\ c \notin Served => call'[c] = call[c]
  BY DEF Crash, Idle
<1>2. Served' = {}
  BY <1>1 DEF Served
<1>3. UNCHANGED <<log, summary, status, checkpoint>>
  BY DEF Crash
<1>4. /\ disturbed \subseteq disturbed'
      /\ \A c \in Served : call[c].run \in disturbed'
  BY DEF Crash
<1>5. CallsAreTheirs'
  BY <1>1, <1>2, <1>3 DEF CleanInv, CallsAreTheirs, Calls, Asked
<1>6. CheckpointIsOpen'
  BY <1>1, <1>3, <1>4 DEF CleanInv, CheckpointIsOpen, Answered
<1>7. ServedAlone'
  BY <1>2 DEF ServedAlone
<1>8. AloneIsClean'
  BY <1>3, <1>4 DEF CleanInv, AloneIsClean
<1> QED BY <1>5, <1>6, <1>7, <1>8 DEF CleanInv

LEMMA InitClean == Init => CleanInv
<1> SUFFICES ASSUME Init PROVE CleanInv
  OBVIOUS
<1>1. log = {} /\ Served = {} /\ \A c \in Calls : call[c].pc = "idle"
  BY DEF Init, Idle, Served
<1>2. CallsAreTheirs /\ ServedAlone
  BY <1>1 DEF CallsAreTheirs, ServedAlone, Asked, Calls
<1>3. CheckpointIsOpen
  BY <1>1 DEF Init, CheckpointIsOpen, Answered
<1>4. AloneIsClean
  <2>1. \A r : {m \in log : m.role = "assistant" /\ m.run = r} = {}
    BY <1>1
  <2> QED BY <1>1, <2>1, FS_EmptySet DEF Init, AloneIsClean
<1> QED BY <1>2, <1>3, <1>4 DEF CleanInv

LEMMA NextClean == IInv /\ IInv' /\ CleanInv /\ [Next]_vars => CleanInv'
<1> SUFFICES ASSUME IInv, IInv', CleanInv, [Next]_vars PROVE CleanInv'
  OBVIOUS
<1>1. ASSUME NEW c \in Asks, NEW n \in 0..MaxHistory, CreateRun(c, n)
      PROVE  CleanInv'
  BY <1>1, CreateRunCleanly
<1>2. ASSUME NEW c \in Approvals, NEW r \in Asks, Resume(c, r)
      PROVE  CleanInv'
  BY <1>2, ResumeCleanly
<1>3. ASSUME NEW c \in Calls, Step(c) \/ Superstep(c)
      PROVE  CleanInv'
  BY <1>3, ReadSequenceCleanly, InsertCleanly, InsertConflictsCleanly,
     BeginStreamCleanly, GraphStepsCleanly, MarkInterruptedCleanly, GetStateCleanly,
     SummaryCleanly, LastStepsCleanly
     DEF Step
<1>4. ASSUME NEW c \in Calls, Raise(c) \/ Escape(c)
      PROVE  CleanInv'
  BY <1>4, LastStepsCleanly
<1>5. CASE Crash
  BY <1>5, CrashCleanly
<1>6. CASE UNCHANGED vars
  BY <1>6 DEF vars, CleanInv, CallsAreTheirs, CheckpointIsOpen, ServedAlone, AloneIsClean,
              Stage, Served, Asked, Answered
<1> QED BY <1>1, <1>2, <1>3, <1>4, <1>5, <1>6 DEF Next

\* A run that meets no other gets one answer and its own, through any approvals,
\* failures and restarts of the rest, and is not left "running" with nobody
\* working on it: for any number of requests (agent_service.py:76-91).
THEOREM AloneStaysClean == Spec => []AloneIsClean
<1>1. CleanInv => AloneIsClean
  BY DEF CleanInv
<1> QED BY <1>1, InitClean, NextClean, TurnInvariant, PTL DEF Spec
=============================================================================
