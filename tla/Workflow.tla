------------------------------ MODULE Workflow ------------------------------
(***************************************************************************)
(* The agent's graph for one conversation: graph/builder.py with the nodes *)
(* of graph/nodes/workflow.py, started and resumed by AgentService.        *)
(*                                                                         *)
(* A step is one node, and its result is the checkpoint from which a later *)
(* call goes on; research_act is a step for each tool it calls.  What a    *)
(* model or a search returns is any value that the node accepts.  A node   *)
(* may fail, or the process end, at any step: what the node did outside    *)
(* the checkpoint stays done.  Requests that overlap are AgentTurns'       *)
(* subject: here a request comes when no other is being served.            *)
(***************************************************************************)
EXTENDS Naturals, Sequences, SequencesExt, FiniteSets

CONSTANTS MaxRewrites,     \* settings.max_rewrite_count
          MaxIterations,   \* settings.research_max_iterations
          MaxToolCalls,    \* settings.research_max_tool_calls
          Reads, Writes,   \* calls of tools, by signature: a tool's name and the
                           \* text of its arguments
          Plan,            \* the write that persist_plan does
          MaxBatch,        \* bound: calls a model asks for at once
          MaxTurns         \* bound: questions

ASSUME WorkflowAssumption == /\ MaxRewrites \in Nat
                             /\ MaxIterations \in Nat \ {0}
                             /\ MaxToolCalls \in Nat \ {0}
                             /\ Reads \cap Writes = {}
                             /\ Plan \notin Reads \cup Writes

VARIABLES settings,   \* require_plan_approval, and whether a web search is configured
          st,         \* the LearningState in the latest checkpoint
          node,       \* the node that is to run next
          status,     \* "idle", "running", "waiting", "failed" or "finished"
          answer,     \* the value interrupt() will return: "none", "yes" or "no"
          act,        \* research_act: how far it is, lost with the process
          turn,       \* ghost: questions so far
          asked,      \* ghost: the writes on the card the user is to answer
          shown,      \* ghost: cards shown to the user: none, one, or more
          granted,    \* ghost: writes the user agreed to in this turn
          written,    \* ghost: writes done in this turn
          late,       \* ghost: an answer was meant for another card
          retried     \* ghost: a node ran again after it had done something

ghosts == <<turn, asked, shown, granted, written, late, retried>>
vars == <<settings, st, node, status, answer, act, ghosts>>

Calls == Reads \cup Writes
Policies == {"auto", "local_only", "web_required"}
Intents == {"chat", "knowledge_qa", "web_search", "create_plan", "deep_research"}

\* input_state of AgentService.run: nothing of an earlier turn is left.
FreshState ==
    [intent |-> "chat", policy |-> "auto", hits |-> FALSE, quality |-> "empty",
     rewrites |-> 0, webSearches |-> 0, action |-> "none", outputs |-> {},
     pending |-> <<>>, iterations |-> 0, toolCalls |-> 0, continue |-> TRUE,
     approved |-> FALSE]

NotActing == [at |-> 0, seen |-> {}, ok |-> FALSE, busy |-> FALSE]

Init == /\ settings \in [approval : BOOLEAN, web : BOOLEAN]
        /\ st = FreshState
        /\ node = "end"
        /\ status = "idle"
        /\ answer = "none"
        /\ act = NotActing
        /\ turn = 0 /\ asked = {} /\ shown = 0
        /\ granted = {} /\ written = <<>>
        /\ late = FALSE /\ retried = FALSE

-----------------------------------------------------------------------------
(* Requests.                                                                *)

Ask ==
    /\ status # "running"
    /\ turn < MaxTurns
    /\ st' = FreshState
    /\ node' = "load_context"
    /\ status' = "running"
    /\ answer' = "none"
    /\ act' = NotActing
    /\ turn' = turn + 1
    /\ asked' = {}
    /\ granted' = {} /\ written' = <<>>
    /\ late' = FALSE /\ retried' = FALSE
    /\ UNCHANGED <<settings, shown>>

\* resume(): the pending node runs with the value it is given, or with the one
\* that was stored for it before it failed.  Nothing ties the value to a card.
Resume(value, inTime) ==
    /\ status \in {"waiting", "failed"}
    /\ IF inTime THEN asked # {} ELSE shown > (IF asked = {} THEN 0 ELSE 1)
    /\ status' = "running"
    /\ answer' \in {value, answer} \ {"none"}
    /\ granted' = IF inTime /\ value = "yes" THEN granted \cup asked ELSE granted
    /\ late' = (late \/ ~inTime)
    /\ UNCHANGED <<settings, st, node, act, turn, asked, shown, written, retried>>

\* A node raises, or the process ends.  (Bound: after something was done, once a
\* turn.)
Fail ==
    /\ status = "running"
    /\ act.at > 0 => ~retried
    /\ status' = "failed"
    /\ act' = NotActing
    /\ retried' = (retried \/ act.at > 0)
    /\ UNCHANGED <<settings, st, node, answer, turn, asked, shown, granted, written, late>>

-----------------------------------------------------------------------------
(* Nodes.                                                                   *)

\* The node n ends with the given state; the graph goes on at next.
Checkpoint(n, state, next) ==
    /\ status = "running"
    /\ node = n
    /\ st' = state
    /\ node' = next
    /\ status' = IF next = "end" THEN "finished" ELSE "running"
    /\ answer' = "none"
    /\ asked' = {}
    /\ UNCHANGED <<settings, turn, shown, granted, late>>

Quietly == UNCHANGED <<act, written, retried>>

Does(n, state, next) == Checkpoint(n, state, next) /\ Quietly

\* The nodes whose result no later decision depends on.
Edge == [load_context           |-> "contextualize_question",
         contextualize_question |-> "route_intent",
         direct_chat            |-> "reflect",
         prepare_query          |-> "retrieve",
         generate_grounded      |-> "reflect",
         draft_plan             |-> "approve_plan",
         research_worker        |-> "research_reason",
         synthesize_research    |-> "reflect",
         reflect                |-> "finalize",
         finalize               |-> "end"]

Pass == \E n \in DOMAIN Edge : Does(n, st, Edge[n])

\* "chat" also stands for the intents that one node answers.
AfterRoute(intent) ==
    CASE intent = "chat" -> "direct_chat"
      [] intent \in {"knowledge_qa", "web_search"} -> "prepare_query"
      [] intent = "create_plan" -> "draft_plan"
      [] intent = "deep_research" -> "plan_research"

RouteIntent ==
    \E intent \in Intents, wish \in Policies :
        LET policy == IF intent = "web_search" /\ wish # "local_only"
                      THEN "web_required" ELSE wish
        IN  Does("route_intent", [st EXCEPT !.intent = intent, !.policy = policy],
                 AfterRoute(intent))

Retrieve == \E hits \in BOOLEAN :
                Does("retrieve", [st EXCEPT !.hits = hits], "grade_retrieval")

GradeRetrieval ==
    \E quality \in (IF st.hits THEN {"good", "weak", "empty"} ELSE {"empty"}) :
        Does("grade_retrieval", [st EXCEPT !.quality = quality], "decide_evidence")

MaySearch == settings.web /\ st.webSearches = 0

Mut_Action ==
    CASE st.policy = "web_required" /\ MaySearch -> "web"
      [] st.quality = "good" -> "generate"
      [] st.rewrites < MaxRewrites -> "rewrite"
      [] MaySearch -> "web"
      [] OTHER -> "refuse"

Action ==
    IF st.policy = "web_required" /\ MaySearch THEN "web"
    ELSE IF st.quality = "good" THEN "generate"
    ELSE IF st.rewrites < MaxRewrites THEN "rewrite"
    ELSE IF st.policy = "local_only" THEN "refuse"
    ELSE IF MaySearch THEN "web"
    ELSE "refuse"

DecideEvidence ==
    Does("decide_evidence", [st EXCEPT !.action = Action],
         CASE Action \in {"generate", "refuse"} -> "generate_grounded"
           [] Action = "rewrite" -> "rewrite_query"
           [] Action = "web" -> "web_search")

Mut_RewriteQuery == Does("rewrite_query", st, "retrieve")

RewriteQuery == Does("rewrite_query", [st EXCEPT !.rewrites = @ + 1], "retrieve")

WebSearch == Does("web_search", [st EXCEPT !.webSearches = @ + 1], "generate_grounded")

-----------------------------------------------------------------------------
(* Approvals.  interrupt() shows a card and ends the request; when the      *)
(* graph is resumed the node runs again from its start.                     *)

Interrupt(n, writes) ==
    /\ status = "running"
    /\ node = n
    /\ answer = "none"
    /\ status' = "waiting"
    /\ asked' = writes
    /\ shown' = IF shown = 0 THEN 1 ELSE 2
    /\ UNCHANGED <<settings, st, node, answer, act, turn, granted, written, late, retried>>

ApprovePlan ==
    \/ /\ settings.approval
       /\ Interrupt("approve_plan", {Plan})
    \/ /\ settings.approval => answer # "none"
       /\ Does("approve_plan", [st EXCEPT !.approved = settings.approval => answer = "yes"],
               "persist_plan")

\* save_plan commits before the checkpoint is written.
PersistPlan ==
    /\ Checkpoint("persist_plan", st, "reflect")
    /\ written' = IF st.approved THEN Append(written, Plan) ELSE written
    /\ UNCHANGED <<act, retried>>

PersistFails ==
    /\ status = "running"
    /\ node = "persist_plan"
    /\ st.approved
    /\ ~retried
    /\ written' = Append(written, Plan)
    /\ status' = "failed"
    /\ retried' = TRUE
    /\ UNCHANGED <<settings, st, node, answer, act, turn, asked, shown, granted, late>>

-----------------------------------------------------------------------------
(* Research.                                                                *)

\* A model may plan tasks of blanks only: then nothing is sent, and the graph
\* ends without an answer.
PlanResearch == \E next \in {"research_worker", "end"} : Does("plan_research", st, next)

Mut_Within(calls) == calls

\* calls[:remaining]
Within(calls) ==
    LET remaining == IF st.toolCalls < MaxToolCalls THEN MaxToolCalls - st.toolCalls ELSE 0
    IN  IF Len(calls) <= remaining THEN calls ELSE SubSeq(calls, 1, remaining)

ResearchReason ==
    \E n \in 0..MaxBatch : \E calls \in [1..n -> Calls] :
        Does("research_reason",
             [st EXCEPT !.pending = Within(calls), !.iterations = @ + 1],
             IF Within(calls) = <<>> THEN "synthesize_research" ELSE "research_act")

PendingWrites == ToSet(st.pending) \cap Writes

AskForTools ==
    /\ PendingWrites # {}
    /\ ~act.busy
    /\ Interrupt("research_act", PendingWrites)

BeginAct ==
    /\ status = "running"
    /\ node = "research_act"
    /\ ~act.busy
    /\ PendingWrites # {} => answer # "none"
    /\ act' = [at |-> 0, seen |-> st.outputs, busy |-> TRUE,
               ok |-> PendingWrites # {} => answer = "yes"]
    /\ UNCHANGED <<settings, st, node, status, answer, ghosts>>

Mut_Executes(call) == call \notin act.seen

\* Calls are compared by their text (workflow.py:339): the same arguments in
\* another order of their keys are another member of Calls.
Executes(call) == (call \in Writes => act.ok) /\ call \notin act.seen

\* A rejected call and a doubled one are only observed.
Mut_CallTool ==
    LET call == st.pending[act.at + 1]
    IN  /\ act' = [act EXCEPT !.at = @ + 1]
        /\ written' = IF call \in Writes /\ Executes(call) THEN Append(written, call)
                      ELSE written

CallTool ==
    LET call == st.pending[act.at + 1]
    IN  /\ act' = [act EXCEPT !.at = @ + 1,
                              !.seen = IF Executes(call) THEN @ \cup {call} ELSE @]
        /\ written' = IF call \in Writes /\ Executes(call) THEN Append(written, call)
                      ELSE written

Act ==
    /\ status = "running"
    /\ act.busy
    /\ act.at < Len(st.pending)
    /\ CallTool
    /\ UNCHANGED <<settings, st, node, status, answer, turn, asked, shown, granted, late,
                   retried>>

EndAct ==
    /\ act.busy
    /\ act.at = Len(st.pending)
    /\ Checkpoint("research_act",
                  [st EXCEPT !.outputs = @ \cup ToSet(st.pending), !.pending = <<>>,
                             !.toolCalls = @ + Len(st.pending)],
                  "research_critic")
    /\ act' = NotActing
    /\ UNCHANGED <<written, retried>>

Exhausted == st.iterations >= MaxIterations \/ st.toolCalls >= MaxToolCalls

ResearchCritic ==
    \E continue \in BOOLEAN :
        /\ continue => ~Exhausted
        /\ Does("research_critic", [st EXCEPT !.continue = continue],
                IF continue THEN "research_reason" ELSE "synthesize_research")

Nodes == \/ Pass \/ RouteIntent
         \/ Retrieve \/ GradeRetrieval \/ DecideEvidence \/ RewriteQuery \/ WebSearch
         \/ ApprovePlan \/ PersistPlan
         \/ PlanResearch \/ ResearchReason \/ AskForTools \/ BeginAct \/ Act \/ EndAct
         \/ ResearchCritic

Next == \/ Ask
        \/ \E value \in {"yes", "no"}, inTime \in BOOLEAN : Resume(value, inTime)
        \/ Fail
        \/ PersistFails
        \/ Nodes

\* A request that is being served goes on.
Spec == Init /\ [][Next]_vars /\ WF_vars(Nodes)

-----------------------------------------------------------------------------
TypeOK ==
    /\ settings \in [approval : BOOLEAN, web : BOOLEAN]
    /\ st.pending \in Seq(Calls) /\ st.outputs \subseteq Calls
    /\ status \in {"idle", "running", "waiting", "failed", "finished"}
    /\ answer \in {"none", "yes", "no"}
    /\ asked \subseteq Writes \cup {Plan}
    /\ written \in Seq(Writes \cup {Plan})

\* "With budgets of rounds and of tools" (README.md:46): the loops stay in
\* their budgets, also when what is counted was decided rounds earlier, and a
\* batch that would cross the limit is cut (workflow.py:165, 307-308, 367-380).
BudgetsHold ==
    /\ st.rewrites <= MaxRewrites
    /\ st.webSearches <= 1
    /\ st.iterations <= MaxIterations
    /\ st.toolCalls + Len(st.pending) <= MaxToolCalls

\* A plan is saved and a tool changes data only when the user has agreed to just
\* that in this turn, through failures and resumptions, unless an answer reaches
\* the graph that was meant for another card (workflow.py:227-240, 323-346).
WritesAreApproved ==
    \A i \in DOMAIN written :
        written[i] \in granted \/ late \/ (written[i] = Plan /\ ~settings.approval)

\* "And no repeated calls" (README.md:46): no write, as its text has it, happens
\* twice in a turn,
\* within a batch or over several rounds, unless a node failed behind it and was
\* run again (workflow.py:334-353).
WritesHappenOnce == retried \/ IsInjective(written)

\* What the user said of sources is kept on every way to a grounded answer: no
\* search of the web when it is to be local, one if it can be when it is required,
\* and without good evidence the query was rewritten first (workflow.py:156-174).
\* Deep research does not look at the policy, and says nothing of it here.
EvidencePolicyKept ==
    node = "generate_grounded" =>
        /\ st.policy = "local_only" => st.webSearches = 0
        /\ st.policy = "web_required" /\ settings.web => st.webSearches = 1
        /\ \/ st.quality = "good"
           \/ st.rewrites = MaxRewrites
           \/ st.policy = "web_required" /\ settings.web

\* A request is not served for ever: the loops end.
TurnEnds == (status = "running") ~> (status # "running")
=============================================================================
