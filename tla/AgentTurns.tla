------------------------------ MODULE AgentTurns ------------------------------
(***************************************************************************)
(* The turns of one conversation: AgentService of                          *)
(* agent/backend/app/services/agent_service.py, the turn and summary part  *)
(* of agent/backend/app/conversation/service.py, and the message, summary  *)
(* and run operations of agent/backend/app/db/database.py.                 *)
(*                                                                         *)
(* Each request is served by a thread of its own, and nothing keeps two    *)
(* requests for one conversation apart: the reader of the model should     *)
(* expect them to overlap.  A step is one committed transaction, one       *)
(* SELECT outside a transaction, or one checkpoint of the graph.  The      *)
(* graph itself is external here; it takes supersteps and then ends, waits *)
(* for an approval, or raises.  What is checkpointed belongs to the        *)
(* conversation, not to the request: the last writer wins.                 *)
(*                                                                         *)
(* Covered: overlapping turns, a client that leaves, the process ending, a *)
(* locked database, approvals that come twice, late or for another run.    *)
(* Not covered: conversations with over 1000 messages after the summary;   *)
(* an answer of spaces only, which complete_turn would not keep.           *)
(***************************************************************************)
EXTENDS Naturals, FiniteSets, FiniteSetsExt

CONSTANTS Asks,         \* requests that ask a question
          Approvals,    \* requests that resume a run
          NoRun,        \* the run_id "" of imported history
          RecentLimit,  \* recent_limit
          MaxHistory,   \* bound: messages of client_history
          MaxServed     \* bound: requests served at a time

ASSUME TurnAssumption == /\ Asks \cap Approvals = {}
                         /\ NoRun \notin Asks
                         /\ RecentLimit \in Nat \ {0}
                         /\ MaxHistory \in Nat
                         /\ MaxServed \in Nat

VARIABLES log,         \* rows of conversation_messages; answers: whose answer
          summary,     \* through_sequence; covers: what it was made from
          status,      \* agent_runs.status; a run has the name of its request
          checkpoint,  \* whose values are the latest, has it pending nodes,
                       \* is it waiting for an approval
          call,        \* where each request is, and what it has read
          disturbed    \* ghost: runs that met another request, or lost theirs

vars == <<log, summary, status, checkpoint, call, disturbed>>

Calls == Asks \cup Approvals
Runs == Asks \cup {NoRun}
Idle == [pc |-> "idle", run |-> NoRun, carries |-> NoRun, left |-> 0,
         seen |-> 0, through |-> 0, covers |-> {}]

Init == /\ log = {}
        /\ summary = [through |-> 0, covers |-> {}]
        /\ status = [r \in Asks |-> "absent"]
        /\ checkpoint = [of |-> NoRun, next |-> FALSE, wait |-> FALSE]
        /\ call = [c \in Calls |-> Idle]
        /\ disturbed = {}

Sequences == {m.seq : m \in log}
Becomes(c, request) == call' = [call EXCEPT ![c] = request]
Goes(c, pc) == Becomes(c, [call[c] EXCEPT !.pc = pc])
Ends(c) == Becomes(c, [Idle EXCEPT !.pc = "ended"])
SetStatus(r, s) == status' = [status EXCEPT ![r] = s]
Saves(r, next, wait) == checkpoint' = [of |-> r, next |-> next, wait |-> wait]

\* The requests that are being served.
Served == {c \in Calls : call[c].pc \notin {"idle", "ended"}}
Accepted(c) == call[c].pc = "idle" /\ Cardinality(Served) < MaxServed
Meets(r) == IF Served = {} THEN {} ELSE {r} \cup {call[c].run : c \in Served}

-----------------------------------------------------------------------------
(* run() up to the graph: create_run and prepare_turn                       *)

\* The client's history is imported into a conversation that has no message.
\* (The INSERT of create_run, which nobody reads, and the SELECT are one step.)
CreateRun(c, n) ==
    /\ Accepted(c)
    /\ log # {} => n = 0
    /\ SetStatus(c, "running")
    /\ Becomes(c, [Idle EXCEPT !.pc = IF n = 0 THEN "asking" ELSE "importing",
                               !.run = c, !.left = n])
    /\ disturbed' = disturbed \cup Meets(c)
    /\ UNCHANGED <<log, summary, checkpoint>>

\* add_conversation_message reads the next sequence number, then inserts.
Adding(c) == call[c].pc \in {"importing", "asking", "answering"}

NextSequence == IF log = {} THEN 1 ELSE Max(Sequences) + 1

ReadSequence(c) ==
    /\ Adding(c)
    /\ call[c].seen = 0
    /\ Becomes(c, [call[c] EXCEPT !.seen = NextSequence])
    /\ UNCHANGED <<log, summary, status, checkpoint, disturbed>>

Row(c) == [seq |-> call[c].seen,
           role |-> CASE call[c].pc = "importing" -> "history"
                      [] call[c].pc = "asking" -> "user"
                      [] call[c].pc = "answering" -> "assistant",
           run |-> IF call[c].pc = "importing" THEN NoRun ELSE call[c].run,
           answers |-> IF call[c].pc = "answering" THEN call[c].carries
                                                   ELSE NoRun]

AfterInsert(c) ==
    CASE call[c].pc = "importing" -> IF call[c].left = 1 THEN "asking"
                                                         ELSE "importing"
      [] call[c].pc = "asking" -> "started"
      [] call[c].pc = "answering" -> "summarizing"

Mut_IsFree(seq) == TRUE
IsFree(seq) == seq \notin Sequences     \* UNIQUE(user_id, thread_id, sequence)

Insert(c) ==
    /\ Adding(c)
    /\ call[c].seen # 0
    /\ IsFree(call[c].seen)
    /\ log' = log \cup {Row(c)}
    /\ Becomes(c, [call[c] EXCEPT !.pc = AfterInsert(c), !.seen = 0,
                                  !.left = IF @ = 0 THEN 0 ELSE @ - 1])
    /\ UNCHANGED <<summary, status, checkpoint, disturbed>>

\* The IntegrityError of the loser of two inserts is caught in _stream only;
\* from prepare_turn it leaves run(), and the run stays "running".
InsertConflicts(c) ==
    /\ Adding(c)
    /\ call[c].seen # 0
    /\ ~IsFree(call[c].seen)
    /\ Ends(c)
    /\ IF call[c].pc = "answering" THEN SetStatus(call[c].run, "failed")
                                   ELSE UNCHANGED status
    /\ UNCHANGED <<log, summary, checkpoint, disturbed>>

-----------------------------------------------------------------------------
(* resume() and the graph's part of _stream                                 *)

\* resume() takes the client's word for which run it is.  Proper: the request
\* is alone, and the conversation waits for that run's approval.
Resume(c, r) ==
    /\ Accepted(c)
    /\ checkpoint.of # NoRun
    /\ \E m \in log : m.role = "user" /\ m.run = r   \* the client knows it
    /\ Becomes(c, [Idle EXCEPT !.pc = "started", !.run = r])
    /\ disturbed' = IF Served = {} /\ checkpoint.wait /\ checkpoint.of = r
                      THEN disturbed ELSE disturbed \cup {r} \cup Meets(r)
    /\ UNCHANGED <<log, summary, status, checkpoint>>

\* A question starts the graph anew with its own values; a resumption goes on
\* with the pending nodes of the conversation's checkpoint, if it has any.
BeginStream(c) ==
    /\ call[c].pc = "started"
    /\ IF call[c].run = c
         THEN /\ Saves(c, TRUE, FALSE)
              /\ Becomes(c, [call[c] EXCEPT !.pc = "streaming", !.carries = c])
         ELSE /\ Saves(checkpoint.of, checkpoint.next, FALSE)
              /\ Becomes(c, [call[c] EXCEPT
                   !.pc = IF checkpoint.next THEN "streaming" ELSE "reading",
                   !.carries = checkpoint.of])
    /\ UNCHANGED <<log, summary, status, disturbed>>

Superstep(c) ==
    /\ call[c].pc = "streaming"
    /\ Saves(call[c].carries, TRUE, FALSE)
    /\ UNCHANGED <<log, summary, status, call, disturbed>>

GraphEnds(c) ==
    /\ call[c].pc = "streaming"
    /\ Saves(call[c].carries, FALSE, FALSE)
    /\ Goes(c, "reading")
    /\ UNCHANGED <<log, summary, status, disturbed>>

GraphWaits(c) ==
    /\ call[c].pc = "streaming"
    /\ Saves(call[c].carries, TRUE, TRUE)
    /\ Goes(c, "interrupting")
    /\ UNCHANGED <<log, summary, status, disturbed>>

MarkInterrupted(c) ==
    /\ call[c].pc = "interrupting"
    /\ SetStatus(call[c].run, "interrupted")
    /\ Goes(c, "reading")
    /\ UNCHANGED <<log, summary, checkpoint, disturbed>>

-----------------------------------------------------------------------------
(* The end of _stream: get_state, complete_turn, update_run                 *)

Mut_GetStateCompletes(c) ==
    /\ call[c].pc = "reading"
    /\ IF checkpoint.next
         THEN Ends(c) /\ UNCHANGED status
         ELSE /\ Becomes(c, [call[c] EXCEPT !.pc = "answering",
                                            !.carries = checkpoint.of])
              /\ SetStatus(call[c].run, "completed")
    /\ UNCHANGED <<log, summary, checkpoint, disturbed>>

\* With pending nodes the turn ends here, and its run keeps the status it has.
GetState(c) ==
    /\ call[c].pc = "reading"
    /\ IF checkpoint.next
         THEN Ends(c)
         ELSE Becomes(c, [call[c] EXCEPT !.pc = "answering",
                                         !.carries = checkpoint.of])
    /\ UNCHANGED <<log, summary, status, checkpoint, disturbed>>

ReadSummary(c) ==
    /\ call[c].pc = "summarizing"
    /\ Becomes(c, [call[c] EXCEPT !.pc = "listing",
                                  !.through = summary.through,
                                  !.covers = summary.covers])
    /\ UNCHANGED <<log, summary, status, checkpoint, disturbed>>

Mut_Pending(through) == {k \in Sequences : k > summary.through}
Pending(through) == {k \in Sequences : k > through}

\* pending[:-recent_limit]
Candidates(pending) ==
    {k \in pending : Cardinality({j \in pending : j > k}) >= RecentLimit}

\* heavy: the pending messages have more tokens than summary_trigger_tokens.
ListPending(c, heavy) ==
    LET pending == Pending(call[c].through)
        due == heavy \/ Cardinality(pending) > 2 * RecentLimit
        old == Candidates(pending)
    IN  /\ call[c].pc = "listing"
        /\ IF due /\ old # {}
             THEN Becomes(c, [call[c] EXCEPT !.pc = "saving",
                                             !.through = Max(old),
                                             !.covers = @ \cup old])
             ELSE Becomes(c, [call[c] EXCEPT !.pc = "completing",
                                             !.through = 0, !.covers = {}])
        /\ UNCHANGED <<log, summary, status, checkpoint, disturbed>>

\* The model has answered.  The row is replaced, whoever wrote it meanwhile.
SaveSummary(c) ==
    /\ call[c].pc = "saving"
    /\ summary' = [through |-> call[c].through, covers |-> call[c].covers]
    /\ Becomes(c, [call[c] EXCEPT !.pc = "completing", !.through = 0,
                                  !.covers = {}])
    /\ UNCHANGED <<log, status, checkpoint, disturbed>>

Complete(c) ==
    /\ call[c].pc = "completing"
    /\ SetStatus(call[c].run, "completed")
    /\ Ends(c)
    /\ UNCHANGED <<log, summary, checkpoint, disturbed>>

Mut_RaiseUnnoted(c) ==
    /\ call[c].pc \in {"streaming", "interrupting", "reading", "answering",
                       "summarizing", "listing", "saving", "completing"}
    /\ Ends(c)
    /\ UNCHANGED <<log, summary, status, checkpoint, disturbed>>

\* A node, the database (locked for 15 s) or the model's answer raises.
Raise(c) ==
    /\ call[c].pc \in {"streaming", "interrupting", "reading", "answering",
                       "summarizing", "listing", "saving", "completing"}
    /\ SetStatus(call[c].run, "failed")
    /\ Ends(c)
    /\ UNCHANGED <<log, summary, checkpoint, disturbed>>

-----------------------------------------------------------------------------
(* Ends without an end: an exception in prepare_turn or in the handler of   *)
(* exceptions, a client that leaves the generator at a yield, the process   *)

Escape(c) ==
    /\ c \in Served
    /\ Ends(c)
    /\ disturbed' = disturbed \cup {call[c].run}
    /\ UNCHANGED <<log, summary, status, checkpoint>>

Crash ==
    /\ Served # {}
    /\ call' = [c \in Calls |-> IF c \in Served
                                  THEN [Idle EXCEPT !.pc = "ended"]
                                  ELSE call[c]]
    /\ disturbed' = disturbed \cup {call[c].run : c \in Served}
    /\ UNCHANGED <<log, summary, status, checkpoint>>

-----------------------------------------------------------------------------
GraphStops(c) == GraphEnds(c) \/ GraphWaits(c)

Step(c) == \/ ReadSequence(c) \/ Insert(c) \/ InsertConflicts(c)
           \/ BeginStream(c) \/ GraphStops(c) \/ MarkInterrupted(c)
           \/ GetState(c) \/ ReadSummary(c)
           \/ \E heavy \in BOOLEAN : ListPending(c, heavy)
           \/ SaveSummary(c) \/ Complete(c)

Next == \/ \E c \in Asks, n \in 0..MaxHistory : CreateRun(c, n)
        \/ \E c \in Approvals, r \in Asks : Resume(c, r)
        \/ \E c \in Calls :
              \/ Step(c) \/ Superstep(c) \/ Raise(c) \/ Escape(c)
        \/ Crash

\* No fairness: a graph may go on for ever, a request may stand still.
Spec == Init /\ [][Next]_vars

-----------------------------------------------------------------------------
Message == [seq : Nat \ {0}, role : {"history", "user", "assistant"},
            run : Runs, answers : Runs]

Places == {"idle", "importing", "asking", "started", "streaming",
           "interrupting", "reading", "answering", "summarizing", "listing",
           "saving", "completing", "ended"}

Request == [pc : Places, run : Runs, carries : Runs, left : Nat, seen : Nat,
            through : Nat, covers : SUBSET Nat]

TypeOK ==
    /\ log \subseteq Message /\ IsFiniteSet(log)
    /\ summary \in [through : Nat, covers : SUBSET Nat]
    /\ status \in [Asks -> {"absent", "running", "interrupted", "completed",
                            "failed"}]
    /\ checkpoint \in [of : Runs, next : BOOLEAN, wait : BOOLEAN]
    /\ call \in [Calls -> Request]
    /\ disturbed \subseteq Asks

\* However requests overlap, the messages are numbered 1, 2, ... without a gap
\* or a double: the number is read before the insert's transaction, and only
\* the UNIQUE constraint tells the loser (database.py:482-497).
LogIsGapFree == Sequences = 1..Cardinality(log)

\* The summary was made from exactly the messages up to through_sequence, also
\* when an older summary, still in the works, replaces a newer one ("summary
\* coverage cannot skip gaps", database.py:510).
SummaryCoversPrefix ==
    /\ summary.covers = 1..summary.through
    /\ summary.covers \subseteq Sequences

\* A question precedes its answer, and a run is completed only when its answer
\* is in the log, whichever requests raced to finish it (agent_service.py:79-89).
Asked(r) == \E m \in log : m.role = "user" /\ m.run = r
Answered(r) == \E m \in log : m.role = "assistant" /\ m.run = r

AnswersFollowQuestions ==
    /\ \A m \in log : m.role = "assistant" =>
           \E q \in log : q.role = "user" /\ q.run = m.run /\ q.seq < m.seq
    /\ \A r \in Asks : status[r] = "completed" => Answered(r)

\* What a request has read and done agrees with what the database has now.
Sound(q) ==
    /\ q.seen \in 0..Cardinality(log) + 1
    /\ q.covers = 1..q.through /\ q.covers \subseteq Sequences
    /\ q.pc \notin {"idle", "ended"} => q.run \in Asks
    /\ q.pc \notin {"idle", "ended", "importing", "asking"} => Asked(q.run)
    /\ q.pc \in {"summarizing", "listing", "saving", "completing"} =>
           Answered(q.run)

RequestsAreSound == \A c \in Calls : Sound(call[c])

IInv == /\ TypeOK /\ LogIsGapFree /\ SummaryCoversPrefix
        /\ AnswersFollowQuestions /\ RequestsAreSound

\* A turn that met no other gets one answer and its own, also when it waited
\* for an approval in between, and its run is not left "running" with nobody
\* working on it, unless its client left or an exception escaped:
\* agent_service.py notes each other end (76, 88, 91), and agent_runs has no
\* lease.
AloneIsClean ==
    \A r \in Asks \ disturbed :
        /\ \A m \in log : m.role = "assistant" /\ m.run = r => m.answers = r
        /\ Cardinality({m \in log : m.role = "assistant" /\ m.run = r}) <= 1
        /\ status[r] = "running" => \E c \in Served : call[c].run = r
=============================================================================
