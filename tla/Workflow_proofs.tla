--------------------------- MODULE Workflow_proofs ---------------------------
(***************************************************************************)
(* The budgets, the approvals, the writes that happen once and the policy  *)
(* for evidence, for any limits, any sets of tool calls and any number of  *)
(* failures and resumptions of a node.                                     *)
(***************************************************************************)
EXTENDS Workflow, TLAPS

-----------------------------------------------------------------------------
(* The inductive invariant                                                  *)

LearningState ==
    [intent : Intents, policy : Policies, hits : BOOLEAN,
     quality : {"good", "weak", "empty"}, rewrites : Nat, webSearches : Nat,
     action : {"none", "generate", "refuse", "rewrite", "web"}, outputs : SUBSET Calls,
     pending : Seq(Calls), iterations : Nat, toolCalls : Nat, continue : BOOLEAN,
     approved : BOOLEAN]

Typed ==
    /\ settings \in [approval : BOOLEAN, web : BOOLEAN]
    /\ st \in LearningState
    /\ status \in {"idle", "running", "waiting", "failed", "finished"}
    /\ answer \in {"none", "yes", "no"}
    /\ act \in [at : Nat, seen : SUBSET Calls, ok : BOOLEAN, busy : BOOLEAN]
    /\ asked \subseteq Writes \cup {Plan}
    /\ shown \in {0, 1, 2}
    /\ written \in Seq(Writes \cup {Plan})
    /\ late \in BOOLEAN
    /\ retried \in BOOLEAN

\* Before an intent is routed the state is the fresh one.
Start == {"load_context", "contextualize_question", "route_intent"}

\* After an answer, or a plan, exists.
Closing == {"reflect", "finalize", "end"}

\* What each node may rely on: the edge into it was taken for a reason.
NodesReliable ==
    /\ node \in Start => st = FreshState
    /\ node \in {"plan_research", "research_worker"} => st.iterations = 0
    /\ node \in {"rewrite_query"} => st.rewrites < MaxRewrites
    /\ node = "research_reason" => st.iterations < MaxIterations
    /\ node # "research_act" => st.pending = <<>>
    /\ node \in {"generate_grounded"} \cup Closing \/ st.webSearches = 0
    /\ node = "web_search" =>
           /\ settings.web
           /\ st.policy # "local_only"
           /\ st.policy = "web_required" \/ st.rewrites = MaxRewrites

\* research_act: what it has seen is what was seen before and, of its own batch,
\* the calls it has got past.
ActReliable ==
    /\ ~act.busy => act = NotActing
    /\ act.busy => /\ status = "running"
                   /\ node = "research_act"
                   /\ act.at <= Len(st.pending)
                   /\ st.outputs \subseteq act.seen
                   /\ act.seen \subseteq st.outputs \cup ToSet(st.pending)
                   /\ act.at = 0 => act.seen = st.outputs
                   /\ act.ok => PendingWrites \subseteq granted \/ late

\* A card asks for what its node is about to write, and a yes is an answer to it.
CardsReliable ==
    /\ asked # {} => \/ node = "approve_plan" /\ asked = {Plan}
                     \/ node = "research_act" /\ asked = PendingWrites
    /\ answer = "yes" => late \/ (asked # {} /\ asked \subseteq granted)
    /\ st.approved => Plan \in granted \/ late \/ ~settings.approval

\* Where a write that was done can be told from: a plan by the node, a tool's
\* write by the outputs, or while a batch is on its way by what it has seen.
WritesRemembered ==
    \A i \in DOMAIN written :
        \/ retried
        \/ written[i] = Plan /\ node \in Closing
        \/ written[i] \in (IF act.busy THEN act.seen ELSE st.outputs)

IInv == /\ Typed /\ NodesReliable /\ ActReliable /\ CardsReliable /\ WritesRemembered
        /\ BudgetsHold /\ WritesAreApproved /\ WritesHappenOnce /\ EvidencePolicyKept
-----------------------------------------------------------------------------
(* Sequences of calls                                                       *)

\* A batch is cut to what the budget leaves, and nothing is put into it.
LEMMA WithinBudget ==
    ASSUME Typed, WorkflowAssumption, st.toolCalls <= MaxToolCalls,
           NEW calls \in Seq(Calls)
    PROVE  /\ Within(calls) \in Seq(Calls)
           /\ st.toolCalls + Len(Within(calls)) <= MaxToolCalls
<1> DEFINE r == IF st.toolCalls < MaxToolCalls THEN MaxToolCalls - st.toolCalls ELSE 0
<1>1. r \in Nat /\ st.toolCalls + r <= MaxToolCalls /\ st.toolCalls \in Nat
  BY DEF Typed, LearningState, WorkflowAssumption
<1>2. Within(calls) = IF Len(calls) <= r THEN calls ELSE SubSeq(calls, 1, r)
  BY DEF Within
<1> HIDE DEF r
<1>3. CASE Len(calls) <= r
  BY <1>1, <1>2, <1>3, MaxToolCalls \in Nat DEF WorkflowAssumption
<1>4. CASE ~(Len(calls) <= r)
  <2>1. SubSeq(calls, 1, r) \in Seq(Calls) /\ Len(SubSeq(calls, 1, r)) = r
    BY <1>1, <1>4
  <2> QED BY <1>1, <1>2, <1>4, <2>1
<1> QED BY <1>3, <1>4

\* A write that was not done yet can be appended once.
LEMMA AppendOnce ==
    ASSUME NEW S, NEW s \in Seq(S), NEW e \in S, IsInjective(s),
           \A i \in DOMAIN s : s[i] # e
    PROVE  IsInjective(Append(s, e))
<1>1. /\ DOMAIN s = 1..Len(s) /\ Len(s) \in Nat
      /\ DOMAIN Append(s, e) = 1..(Len(s) + 1)
      /\ Append(s, e)[Len(s) + 1] = e
      /\ \A i \in 1..Len(s) : Append(s, e)[i] = s[i]
  OBVIOUS
<1>2. SUFFICES ASSUME NEW a \in 1..(Len(s) + 1), NEW b \in 1..(Len(s) + 1),
                      Append(s, e)[a] = Append(s, e)[b]
               PROVE  a = b
  BY <1>1 DEF IsInjective
<1>3. CASE a \in 1..Len(s) /\ b \in 1..Len(s)
  BY <1>1, <1>2, <1>3 DEF IsInjective
<1>4. CASE a = Len(s) + 1 \/ b = Len(s) + 1
  BY <1>1, <1>2, <1>4
<1> QED BY <1>1, <1>3, <1>4

-----------------------------------------------------------------------------
(* Steps of a node                                                          *)

\* What a node leaves alone that ends with a state and does nothing besides.
Kept == /\ Typed /\ ActReliable /\ CardsReliable /\ WritesRemembered
        /\ WritesAreApproved /\ WritesHappenOnce

LEMMA QuietNode ==
    ASSUME IInv, NEW n, NEW state \in LearningState, NEW next, Does(n, state, next),
           n # "research_act", state.outputs = st.outputs,
           state.approved => Plan \in granted \/ late \/ ~settings.approval,
           n \in Closing => next \in Closing
    PROVE  Kept'
<1> USE DEF Does, Checkpoint, Quietly, IInv
<1>1. ~act.busy /\ act' = NotActing
  BY DEF ActReliable
<1>2. Typed'
  BY DEF Typed
<1>3. ActReliable'
  BY <1>1 DEF ActReliable, NotActing
<1>4. CardsReliable'
  BY DEF CardsReliable
<1>5. WritesRemembered'
  BY <1>1 DEF WritesRemembered, NotActing
<1>6. WritesAreApproved'
  BY DEF WritesAreApproved
<1>7. WritesHappenOnce'
  BY DEF WritesHappenOnce
<1> QED BY <1>2, <1>3, <1>4, <1>5, <1>6, <1>7 DEF Kept

\* A state stays one when something is counted in it.
LEMMA Counting ==
    ASSUME NEW s \in LearningState, NEW batch \in Seq(Calls), NEW done \in SUBSET Calls
    PROVE  /\ [s EXCEPT !.rewrites = s.rewrites + 1] \in LearningState
           /\ [s EXCEPT !.webSearches = s.webSearches + 1] \in LearningState
           /\ [s EXCEPT !.pending = batch, !.iterations = s.iterations + 1]
                  \in LearningState
           /\ [s EXCEPT !.outputs = done, !.pending = <<>>,
                        !.toolCalls = s.toolCalls + Len(batch)] \in LearningState
<1>1. /\ s.rewrites + 1 \in Nat /\ s.webSearches + 1 \in Nat
      /\ s.iterations + 1 \in Nat /\ s.toolCalls + Len(batch) \in Nat
      /\ <<>> \in Seq(Calls)
  BY DEF LearningState
<1>2. ASSUME NEW k \in Nat PROVE [s EXCEPT !.rewrites = k] \in LearningState
  BY DEF LearningState
<1>3. ASSUME NEW k \in Nat PROVE [s EXCEPT !.webSearches = k] \in LearningState
  BY DEF LearningState
<1>4. ASSUME NEW k \in Nat
      PROVE  [s EXCEPT !.pending = batch, !.iterations = k] \in LearningState
  BY DEF LearningState
<1>5. ASSUME NEW k \in Nat, NEW p \in Seq(Calls)
      PROVE  [s EXCEPT !.outputs = done, !.pending = p, !.toolCalls = k] \in LearningState
  BY DEF LearningState
<1> QED BY <1>1, <1>2, <1>3, <1>4, <1>5, Zenon

\* The invariant is kept whole when the rest of it is.
LEMMA Together ==
    ASSUME Kept', NodesReliable', BudgetsHold', EvidencePolicyKept'
    PROVE  IInv'
BY DEF Kept, IInv

LEMMA PassStep ==
    ASSUME IInv, Pass
    PROVE  IInv'
<1>1. PICK n \in DOMAIN Edge : Does(n, st, Edge[n])
  BY DEF Pass
<1>2. /\ n \in {"load_context", "contextualize_question", "direct_chat", "prepare_query",
                "generate_grounded", "draft_plan", "research_worker",
                "synthesize_research", "reflect", "finalize"}
      /\ n \in Start => Edge[n] \in Start
      /\ n = "research_worker" => Edge[n] = "research_reason"
      /\ n # "research_worker" => Edge[n] # "research_reason"
      /\ n = "generate_grounded" => Edge[n] = "reflect"
      /\ n \in Closing => Edge[n] \in Closing
      /\ Edge[n] \in Start => n \in Start
      /\ Edge[n] \notin {"research_act", "plan_research", "research_worker", "web_search",
                         "rewrite_query", "generate_grounded"}
  BY <1>1 DEF Edge, Start, Closing
<1>3. n # "research_act" /\ st \in LearningState
  BY <1>2 DEF IInv, Typed
<1>4. Kept'
  <2>1. st.approved => Plan \in granted \/ late \/ ~settings.approval
    BY DEF IInv, CardsReliable
  <2> QED BY <1>1, <1>2, <1>3, <2>1, QuietNode
<1>5. st' = st /\ node = n /\ node' = Edge[n] /\ settings' = settings
  BY <1>1 DEF Does, Checkpoint
<1>6. NodesReliable'
  <2>1. st.iterations < MaxIterations \/ node' # "research_reason"
    BY <1>2, <1>5, WorkflowAssumption DEF IInv, NodesReliable
  <2> HIDE DEF Edge
  <2> QED BY <1>2, <1>3, <1>5, <2>1 DEF IInv, NodesReliable, Start, Closing
<1>7. BudgetsHold'
  BY <1>5 DEF IInv, BudgetsHold
<1>8. EvidencePolicyKept'
  BY <1>2, <1>5 DEF EvidencePolicyKept
<1> QED BY <1>4, <1>6, <1>7, <1>8, Together

LEMMA RouteIntentStep ==
    ASSUME IInv, RouteIntent
    PROVE  IInv'
<1>1. PICK intent \in Intents, policy \in Policies :
          Does("route_intent", [st EXCEPT !.intent = intent, !.policy = policy],
               AfterRoute(intent))
  <2>1. PICK intent \in Intents, wish \in Policies :
            Does("route_intent",
                 [st EXCEPT !.intent = intent,
                            !.policy = IF intent = "web_search" /\ wish # "local_only"
                                       THEN "web_required" ELSE wish],
                 AfterRoute(intent))
    BY DEF RouteIntent
  <2> QED BY <2>1 DEF Policies
<1> DEFINE state == [st EXCEPT !.intent = intent, !.policy = policy]
<1>2. /\ st = FreshState
      /\ state \in LearningState /\ state.outputs = st.outputs
      /\ state.approved = st.approved /\ state.rewrites = 0 /\ state.webSearches = 0
      /\ state.iterations = 0 /\ state.toolCalls = 0 /\ state.pending = <<>>
  <2>1. st = FreshState
    BY <1>1 DEF Does, Checkpoint, IInv, NodesReliable, Start
  <2>2. st \in LearningState
    BY DEF IInv, Typed
  <2>3. state \in LearningState
    BY <2>2 DEF LearningState
  <2> QED BY <2>1, <2>3 DEF FreshState
<1>3. AfterRoute(intent) \in {"direct_chat", "prepare_query", "draft_plan", "plan_research"}
  BY DEF AfterRoute, Intents
<1>4. Kept'
  BY <1>1, <1>2, <1>3, QuietNode DEF Closing, IInv, CardsReliable
<1>5. st' = state /\ node' = AfterRoute(intent) /\ settings' = settings
  BY <1>1 DEF Does, Checkpoint
<1> HIDE DEF state
<1>6. NodesReliable'
  BY <1>2, <1>3, <1>5, WorkflowAssumption DEF NodesReliable, Start
<1>7. BudgetsHold'
  BY <1>2, <1>5, WorkflowAssumption DEF BudgetsHold
<1>8. EvidencePolicyKept'
  BY <1>3, <1>5 DEF EvidencePolicyKept
<1> QED BY <1>4, <1>6, <1>7, <1>8, Together, SMTT(30)

LEMMA RetrieveStep ==
    ASSUME IInv, Retrieve
    PROVE  IInv'
<1>1. PICK hits \in BOOLEAN :
          Does("retrieve", [st EXCEPT !.hits = hits], "grade_retrieval")
  BY DEF Retrieve
<1>2. Kept'
  BY <1>1, QuietNode DEF Closing, IInv, CardsReliable, Typed, LearningState
<1>3. NodesReliable' /\ BudgetsHold' /\ EvidencePolicyKept'
  BY <1>1 DEF Does, Checkpoint, IInv, Typed, LearningState, NodesReliable, BudgetsHold,
              EvidencePolicyKept, Start, Closing
<1> QED BY <1>2, <1>3, Together

LEMMA GradeRetrievalStep ==
    ASSUME IInv, GradeRetrieval
    PROVE  IInv'
<1>1. PICK quality \in {"good", "weak", "empty"} :
          Does("grade_retrieval", [st EXCEPT !.quality = quality], "decide_evidence")
  BY DEF GradeRetrieval
<1>2. Kept'
  BY <1>1, QuietNode DEF Closing, IInv, CardsReliable, Typed, LearningState
<1>3. NodesReliable' /\ BudgetsHold' /\ EvidencePolicyKept'
  BY <1>1 DEF Does, Checkpoint, IInv, Typed, LearningState, NodesReliable, BudgetsHold,
              EvidencePolicyKept, Start, Closing
<1> QED BY <1>2, <1>3, Together

\* What the routing rule has looked at is what the next nodes rely on.
LEMMA DecideEvidenceStep ==
    ASSUME IInv, DecideEvidence
    PROVE  IInv'
<1> DEFINE next == CASE Action \in {"generate", "refuse"} -> "generate_grounded"
                     [] Action = "rewrite" -> "rewrite_query"
                     [] Action = "web" -> "web_search"
           state == [st EXCEPT !.action = Action]
<1>1. Does("decide_evidence", state, next)
  BY DEF DecideEvidence
<1>2. node = "decide_evidence" /\ st' = state /\ node' = next /\ settings' = settings
  BY <1>1 DEF Does, Checkpoint
<1>3. Action \in {"generate", "refuse", "rewrite", "web"}
  BY DEF Action
<1>4. /\ st \in LearningState /\ st.pending = <<>> /\ st.webSearches = 0
      /\ st.rewrites <= MaxRewrites
  BY <1>2 DEF IInv, Typed, NodesReliable, BudgetsHold, Closing
<1>5. /\ state \in LearningState
      /\ state.outputs = st.outputs /\ state.approved = st.approved
      /\ state.policy = st.policy /\ state.quality = st.quality
      /\ state.rewrites = st.rewrites /\ state.webSearches = st.webSearches
      /\ state.pending = st.pending /\ state.iterations = st.iterations
      /\ state.toolCalls = st.toolCalls
  BY <1>3, <1>4 DEF LearningState
<1>6. next \in {"generate_grounded", "rewrite_query", "web_search"}
  BY <1>3
<1> HIDE DEF state
<1>7. Kept'
  <2> HIDE DEF next
  <2> QED BY <1>1, <1>5, QuietNode DEF Closing, IInv, CardsReliable
<1>8. st.rewrites \in Nat /\ MaxRewrites \in Nat /\ st.policy \in Policies
      /\ settings \in [approval : BOOLEAN, web : BOOLEAN]
  BY <1>4, WorkflowAssumption DEF LearningState, IInv, Typed
<1>9. /\ next = "rewrite_query" => st.rewrites < MaxRewrites
      /\ next = "web_search" => /\ settings.web
                                /\ st.policy # "local_only"
                                /\ st.policy = "web_required" \/ st.rewrites = MaxRewrites
      /\ next = "generate_grounded" =>
             /\ ~(st.policy = "web_required" /\ settings.web)
             /\ st.quality = "good" \/ st.rewrites = MaxRewrites
  BY <1>3, <1>4, <1>8 DEF Action, MaySearch
<1> HIDE DEF next
<1>10. NodesReliable'
  BY <1>2, <1>4, <1>5, <1>6, <1>9 DEF NodesReliable, Start
<1>11. BudgetsHold'
  BY <1>2, <1>5 DEF BudgetsHold, IInv
<1>12. EvidencePolicyKept'
  BY <1>2, <1>4, <1>5, <1>6, <1>9 DEF EvidencePolicyKept
<1> QED BY <1>7, <1>10, <1>11, <1>12, Together

LEMMA RewriteQueryStep ==
    ASSUME IInv, RewriteQuery
    PROVE  IInv'
<1>1. Does("rewrite_query", [st EXCEPT !.rewrites = @ + 1], "retrieve")
  BY DEF RewriteQuery
<1>2. [st EXCEPT !.rewrites = @ + 1] \in LearningState
  <2>1. <<>> \in Seq(Calls) /\ {} \in SUBSET Calls
    OBVIOUS
  <2> QED BY <2>1, Counting, Zenon DEF IInv, Typed
<1>3. Kept'
  BY <1>1, <1>2, QuietNode DEF Closing, IInv, CardsReliable, Typed, LearningState
<1>4. NodesReliable' /\ BudgetsHold' /\ EvidencePolicyKept'
  BY <1>1, WorkflowAssumption
  DEF Does, Checkpoint, IInv, Typed, LearningState, NodesReliable, BudgetsHold,
      EvidencePolicyKept, Start, Closing
<1> QED BY <1>3, <1>4, Together

LEMMA WebSearchStep ==
    ASSUME IInv, WebSearch
    PROVE  IInv'
<1>1. Does("web_search", [st EXCEPT !.webSearches = @ + 1], "generate_grounded")
  BY DEF WebSearch
<1>2. Kept'
  <2>1. [st EXCEPT !.webSearches = @ + 1] \in LearningState
    <3>1. <<>> \in Seq(Calls) /\ {} \in SUBSET Calls
      OBVIOUS
    <3> QED BY <3>1, Counting, Zenon DEF IInv, Typed
  <2> QED BY <1>1, <2>1, QuietNode DEF Closing, IInv, CardsReliable, Typed, LearningState
<1>3. NodesReliable' /\ BudgetsHold' /\ EvidencePolicyKept'
  BY <1>1, WorkflowAssumption
  DEF Does, Checkpoint, IInv, Typed, LearningState, NodesReliable, BudgetsHold,
      EvidencePolicyKept, Start, Closing
<1> QED BY <1>2, <1>3, Together

LEMMA PlanResearchStep ==
    ASSUME IInv, PlanResearch
    PROVE  IInv'
<1>1. PICK next \in {"research_worker", "end"} : Does("plan_research", st, next)
  BY DEF PlanResearch
<1>2. Kept'
  BY <1>1, QuietNode DEF Closing, IInv, CardsReliable, Typed
<1>3. NodesReliable' /\ BudgetsHold' /\ EvidencePolicyKept'
  BY <1>1 DEF Does, Checkpoint, IInv, NodesReliable, BudgetsHold,
              EvidencePolicyKept, Start, Closing
<1> QED BY <1>2, <1>3, Together

\* A round is counted when it begins, and its batch is cut before it is kept.
LEMMA ResearchReasonStep ==
    ASSUME IInv, ResearchReason
    PROVE  IInv'
<1>1. PICK calls \in Seq(Calls) :
          Does("research_reason",
               [st EXCEPT !.pending = Within(calls), !.iterations = @ + 1],
               IF Within(calls) = <<>> THEN "synthesize_research" ELSE "research_act")
  <2>1. PICK n \in 0..MaxBatch : \E calls \in [1..n -> Calls] :
            Does("research_reason",
                 [st EXCEPT !.pending = Within(calls), !.iterations = @ + 1],
                 IF Within(calls) = <<>> THEN "synthesize_research" ELSE "research_act")
    BY DEF ResearchReason
  <2>2. [1..n -> Calls] \subseteq Seq(Calls)
    OBVIOUS
  <2> QED BY <2>1, <2>2
<1> DEFINE state == [st EXCEPT !.pending = Within(calls), !.iterations = @ + 1]
           next == IF Within(calls) = <<>> THEN "synthesize_research" ELSE "research_act"
<1>2. /\ node = "research_reason" /\ st' = state /\ node' = next /\ settings' = settings
      /\ act' = act
  BY <1>1 DEF Does, Checkpoint, Quietly
<1>3. /\ st \in LearningState /\ st.pending = <<>> /\ st.webSearches = 0
      /\ st.iterations < MaxIterations /\ st.toolCalls <= MaxToolCalls
  BY <1>2, WorkflowAssumption DEF IInv, Typed, NodesReliable, BudgetsHold, Closing, LearningState
<1>4. /\ Within(calls) \in Seq(Calls)
      /\ st.toolCalls + Len(Within(calls)) <= MaxToolCalls
  BY <1>3, WithinBudget, WorkflowAssumption DEF IInv
<1>5. /\ state \in LearningState
      /\ state.outputs = st.outputs /\ state.approved = st.approved
      /\ state.rewrites = st.rewrites /\ state.webSearches = st.webSearches
      /\ state.pending = Within(calls) /\ state.iterations = st.iterations + 1
      /\ state.toolCalls = st.toolCalls
  <2>1. PICK batch \in Seq(Calls) : batch = Within(calls)
    BY <1>4
  <2>2. /\ st \in LearningState
        /\ state = [st EXCEPT !.pending = batch, !.iterations = st.iterations + 1]
    BY <1>3, <2>1
  <2> HIDE DEF state
  <2>3. state \in LearningState
    BY <2>2, Counting
  <2> QED BY <2>1, <2>2, <2>3 DEF LearningState
<1> HIDE DEF state
<1>6. Kept'
  BY <1>1, <1>5, QuietNode DEF Closing, IInv, CardsReliable, state
<1>7. NodesReliable'
  BY <1>2, <1>3, <1>5 DEF NodesReliable, Start
<1>8. BudgetsHold'
  BY <1>2, <1>3, <1>4, <1>5, WorkflowAssumption DEF BudgetsHold, IInv, LearningState
<1>9. EvidencePolicyKept'
  BY <1>2 DEF EvidencePolicyKept
<1> QED BY <1>6, <1>7, <1>8, <1>9, Together

LEMMA ResearchCriticStep ==
    ASSUME IInv, ResearchCritic
    PROVE  IInv'
<1>1. PICK continue \in BOOLEAN :
          /\ continue => ~Exhausted
          /\ Does("research_critic", [st EXCEPT !.continue = continue],
                  IF continue THEN "research_reason" ELSE "synthesize_research")
  BY DEF ResearchCritic
<1>2. Kept'
  BY <1>1, QuietNode DEF Closing, IInv, CardsReliable, Typed, LearningState
<1>3. NodesReliable' /\ BudgetsHold' /\ EvidencePolicyKept'
  BY <1>1, WorkflowAssumption
  DEF Does, Checkpoint, IInv, Typed, LearningState, NodesReliable, BudgetsHold,
      EvidencePolicyKept, Start, Closing, Exhausted
<1> QED BY <1>2, <1>3, Together

-----------------------------------------------------------------------------
(* Steps of an approval                                                     *)

\* A card is shown: its node is known, and the answer to it is awaited.
LEMMA InterruptStep ==
    ASSUME IInv, NEW n, NEW writes \in SUBSET (Writes \cup {Plan}), Interrupt(n, writes),
           ~act.busy,
           \/ n = "approve_plan" /\ writes = {Plan}
           \/ n = "research_act" /\ writes = PendingWrites
    PROVE  IInv'
<1> USE DEF Interrupt, IInv
<1>1. Typed'
  BY DEF Typed
<1>2. NodesReliable'
  BY DEF NodesReliable, Start
<1>3. ActReliable'
  BY DEF ActReliable, NotActing
<1>4. CardsReliable'
  BY DEF CardsReliable, PendingWrites
<1>5. WritesRemembered'
  BY DEF WritesRemembered
<1>6. BudgetsHold' /\ WritesAreApproved' /\ WritesHappenOnce' /\ EvidencePolicyKept'
  BY DEF BudgetsHold, WritesAreApproved, WritesHappenOnce, EvidencePolicyKept
<1> QED BY <1>1, <1>2, <1>3, <1>4, <1>5, <1>6

LEMMA ApprovePlanStep ==
    ASSUME IInv, ApprovePlan
    PROVE  IInv'
<1>1. CASE settings.approval /\ Interrupt("approve_plan", {Plan})
  <2>1. ~act.busy
    BY <1>1 DEF Interrupt, IInv, ActReliable
  <2> QED BY <1>1, <2>1, InterruptStep
<1>2. CASE /\ settings.approval => answer # "none"
           /\ Does("approve_plan",
                   [st EXCEPT !.approved = settings.approval => answer = "yes"],
                   "persist_plan")
  <2> DEFINE yes == settings.approval => answer = "yes"
  <2>1. node = "approve_plan"
    BY <1>2 DEF Does, Checkpoint
  <2>2. yes => Plan \in granted \/ late \/ ~settings.approval
    BY <2>1 DEF IInv, CardsReliable
  <2>3. yes \in BOOLEAN
    OBVIOUS
  <2>4. Does("approve_plan", [st EXCEPT !.approved = yes], "persist_plan")
    BY <1>2
  <2> HIDE DEF yes
  <2>5. PICK b \in BOOLEAN : b = yes
    BY <2>3
  <2>6. Kept'
    BY <2>2, <2>4, <2>5, QuietNode DEF Closing, IInv, Typed, LearningState
  <2>7. NodesReliable' /\ BudgetsHold' /\ EvidencePolicyKept'
    BY <2>4, <2>5 DEF Does, Checkpoint, IInv, Typed, LearningState, NodesReliable,
                      BudgetsHold, EvidencePolicyKept, Start, Closing
  <2> QED BY <2>6, <2>7, Together
<1> QED BY <1>1, <1>2 DEF ApprovePlan

\* The plan is saved at one node, and the graph has not been past it.
LEMMA PlanIsNew ==
    ASSUME IInv, node = "persist_plan", WorkflowAssumption
    PROVE  retried \/ \A i \in DOMAIN written : written[i] # Plan
BY DEF IInv, Typed, LearningState, Calls, WritesRemembered, ActReliable, Closing,
       WorkflowAssumption

LEMMA SavedPlanIsSound ==
    ASSUME IInv, node = "persist_plan", status = "running", st.approved,
           written' = Append(written, Plan), UNCHANGED <<settings, granted, late>>,
           retried' \in BOOLEAN, retried => retried', st'.outputs = st.outputs,
           act' = act, retried' \/ node' \in Closing
    PROVE  /\ written' \in Seq(Writes \cup {Plan})
           /\ WritesRemembered' /\ WritesAreApproved' /\ WritesHappenOnce'
<1>1. /\ written \in Seq(Writes \cup {Plan})
      /\ Plan \in Writes \cup {Plan}
      /\ ~act.busy
  BY DEF IInv, Typed, ActReliable
<1>2. /\ written' \in Seq(Writes \cup {Plan})
      /\ DOMAIN written = 1..Len(written) /\ Len(written) \in Nat
      /\ DOMAIN written' = 1..(Len(written) + 1)
      /\ written'[Len(written) + 1] = Plan
      /\ \A i \in 1..Len(written) : written'[i] = written[i]
  BY <1>1
<1>3. WritesRemembered'
  BY <1>1, <1>2 DEF WritesRemembered, IInv, Closing
<1>4. WritesAreApproved'
  BY <1>2 DEF WritesAreApproved, IInv, CardsReliable
<1>5. WritesHappenOnce'
  <2> SUFFICES ASSUME ~retried'
               PROVE  IsInjective(written')
    BY DEF WritesHappenOnce
  <2>1. IsInjective(written) /\ \A i \in DOMAIN written : written[i] # Plan
    BY PlanIsNew, WorkflowAssumption DEF IInv, WritesHappenOnce
  <2> QED BY <1>1, <2>1, AppendOnce, Zenon
<1> QED BY <1>2, <1>3, <1>4, <1>5

LEMMA PersistPlanStep ==
    ASSUME IInv, PersistPlan
    PROVE  IInv'
<1> USE DEF PersistPlan, Checkpoint
<1>1. /\ node = "persist_plan" /\ status = "running" /\ st' = st /\ act' = act
      /\ settings' = settings /\ node' = "reflect"
      /\ UNCHANGED <<granted, late, retried, shown>>
      /\ status' = "running" /\ answer' = "none" /\ asked' = {}
      /\ written' = IF st.approved THEN Append(written, Plan) ELSE written
  OBVIOUS
<1>2. CASE st.approved
  <2>1. /\ written' \in Seq(Writes \cup {Plan})
        /\ WritesRemembered' /\ WritesAreApproved' /\ WritesHappenOnce'
    BY <1>1, <1>2, SavedPlanIsSound DEF IInv, Typed, Closing
  <2> QED BY <1>1, <2>1 DEF IInv, Typed, NodesReliable, ActReliable, NotActing, CardsReliable,
                            BudgetsHold, EvidencePolicyKept, Start, Closing
<1>3. CASE ~st.approved
  BY <1>1, <1>3 DEF IInv, Typed, NodesReliable, ActReliable, NotActing, CardsReliable,
                    WritesRemembered, BudgetsHold, WritesAreApproved, WritesHappenOnce,
                    EvidencePolicyKept, Start, Closing
<1> QED BY <1>2, <1>3

LEMMA PersistFailsStep ==
    ASSUME IInv, PersistFails
    PROVE  IInv'
<1>1. /\ written' \in Seq(Writes \cup {Plan})
      /\ WritesRemembered' /\ WritesAreApproved' /\ WritesHappenOnce'
  BY SavedPlanIsSound DEF PersistFails
<1> QED BY <1>1 DEF PersistFails, IInv, Typed, NodesReliable, ActReliable, NotActing,
                    CardsReliable, BudgetsHold, EvidencePolicyKept, Start, Closing,
                    PendingWrites

-----------------------------------------------------------------------------
(* Steps of research_act                                                    *)

LEMMA AskForToolsStep ==
    ASSUME IInv, AskForTools
    PROVE  IInv'
BY InterruptStep DEF AskForTools, PendingWrites

\* The batch begins with the answer in hand: it is a yes to just its writes.
LEMMA BeginActStep ==
    ASSUME IInv, BeginAct
    PROVE  IInv'
<1> USE DEF BeginAct, IInv, ghosts
<1>1. Typed'
  BY DEF Typed, LearningState
<1>2. NodesReliable' /\ CardsReliable'
  BY DEF NodesReliable, CardsReliable, PendingWrites
<1>3. ActReliable'
  <2>1. act'.ok => PendingWrites \subseteq granted \/ late
    BY DEF CardsReliable
  <2>2. st.outputs \subseteq Calls /\ Len(st.pending) \in Nat
    BY DEF Typed, LearningState
  <2> QED BY <2>1, <2>2 DEF ActReliable, PendingWrites
<1>4. WritesRemembered'
  BY DEF WritesRemembered, ActReliable
<1>5. BudgetsHold' /\ WritesAreApproved' /\ WritesHappenOnce' /\ EvidencePolicyKept'
  BY DEF BudgetsHold, WritesAreApproved, WritesHappenOnce, EvidencePolicyKept
<1> QED BY <1>1, <1>2, <1>3, <1>4, <1>5

\* A tool is called: a write only with consent, and not twice.
LEMMA ActStep ==
    ASSUME IInv, Act
    PROVE  IInv'
<1> DEFINE call == st.pending[act.at + 1]
<1>1. /\ st.pending \in Seq(Calls) /\ act.at \in Nat /\ act.at < Len(st.pending)
      /\ act \in [at : Nat, seen : SUBSET Calls, ok : BOOLEAN, busy : BOOLEAN]
      /\ act.busy /\ node = "research_act" /\ status = "running"
  BY DEF Act, IInv, Typed, LearningState, ActReliable
<1>2. call \in Calls /\ call \in ToSet(st.pending) /\ act.at + 1 <= Len(st.pending)
  BY <1>1 DEF ToSet
<1>3. /\ act'.at = act.at + 1 /\ act'.busy = act.busy /\ act'.ok = act.ok
      /\ act'.seen = IF Executes(call) THEN act.seen \cup {call} ELSE act.seen
      /\ act' \in [at : Nat, seen : SUBSET Calls, ok : BOOLEAN, busy : BOOLEAN]
      /\ written' = IF call \in Writes /\ Executes(call) THEN Append(written, call)
                    ELSE written
  <2>1. act' = [act EXCEPT !.at = act.at + 1,
                           !.seen = IF Executes(call) THEN act.seen \cup {call} ELSE act.seen]
    BY DEF Act, CallTool
  <2>2. act.at + 1 \in Nat /\ act.seen \subseteq Calls
    BY <1>1
  <2> HIDE DEF call
  <2>3. (IF Executes(call) THEN act.seen \cup {call} ELSE act.seen) \in SUBSET Calls
    BY <1>2, <2>2
  <2>4. PICK seen \in SUBSET Calls :
            seen = IF Executes(call) THEN act.seen \cup {call} ELSE act.seen
    BY <2>3
  <2>5. /\ act'.at = act.at + 1 /\ act'.busy = act.busy /\ act'.ok = act.ok
        /\ act'.seen = seen
        /\ act' \in [at : Nat, seen : SUBSET Calls, ok : BOOLEAN, busy : BOOLEAN]
    BY <1>1, <2>1, <2>2, <2>4
  <2>6. written' = IF call \in Writes /\ Executes(call) THEN Append(written, call)
                   ELSE written
    BY DEF Act, CallTool, call
  <2> QED BY <2>4, <2>5, <2>6, Zenon
<1> HIDE DEF call
<1>4. /\ UNCHANGED <<settings, st, node, status, answer, turn, asked, shown, granted, late,
                     retried>>
      /\ PendingWrites' = PendingWrites
  BY DEF Act, PendingWrites
<1>5. ActReliable'
  <2>1. /\ st.outputs \subseteq act.seen
        /\ act.seen \subseteq st.outputs \cup ToSet(st.pending)
        /\ act.ok => PendingWrites \subseteq granted \/ late
    BY <1>1 DEF IInv, ActReliable
  <2>2. /\ st.outputs \subseteq act'.seen
        /\ act'.seen \subseteq st.outputs \cup ToSet(st.pending)
    BY <1>2, <1>3, <2>1
  <2>3. act'.at <= Len(st.pending) /\ act'.at # 0
    BY <1>1, <1>2, <1>3
  <2> QED BY <1>1, <1>3, <1>4, <2>1, <2>2, <2>3 DEF ActReliable
<1>6. CASE call \in Writes /\ Executes(call)
  <2>1. written' = Append(written, call) /\ call \notin act.seen /\ act.ok
    BY <1>3, <1>6 DEF Executes
  <2>2. written \in Seq(Writes \cup {Plan}) /\ call \in Writes \cup {Plan}
    BY <1>6 DEF IInv, Typed
  <2>3. /\ written' \in Seq(Writes \cup {Plan})
        /\ DOMAIN written = 1..Len(written) /\ Len(written) \in Nat
        /\ DOMAIN written' = 1..(Len(written) + 1)
        /\ written'[Len(written) + 1] = call
        /\ \A i \in 1..Len(written) : written'[i] = written[i]
    BY <2>1, <2>2
  <2>4. WritesRemembered'
    BY <1>1, <1>3, <1>4, <1>6, <2>3, SMTT(30) DEF IInv, WritesRemembered
  <2>5. WritesAreApproved'
    <3>1. call \in granted \/ late
      BY <1>1, <1>2, <1>6, <2>1 DEF IInv, ActReliable, PendingWrites
    <3> QED BY <1>4, <2>3, <3>1 DEF IInv, WritesAreApproved
  <2>6. WritesHappenOnce'
    <3> SUFFICES ASSUME ~retried
                 PROVE  IsInjective(written')
      BY <1>4 DEF WritesHappenOnce
    <3>1. \A i \in DOMAIN written : written[i] # call
      BY <1>1, <2>1 DEF IInv, WritesRemembered, Closing
    <3>2. IsInjective(written)
      BY DEF IInv, WritesHappenOnce
    <3> QED BY <2>1, <2>2, <3>1, <3>2, AppendOnce, Zenon
  <2>7. Typed'
    BY <1>3, <1>4, <2>3 DEF IInv, Typed
  <2> QED BY <1>4, <1>5, <2>4, <2>5, <2>6, <2>7
          DEF IInv, NodesReliable, CardsReliable, BudgetsHold, EvidencePolicyKept
<1>7. CASE ~(call \in Writes /\ Executes(call))
  <2>1. written' = written
    BY <1>3, <1>7
  <2>2. act.seen \subseteq act'.seen
    BY <1>3
  <2>3. WritesRemembered'
    BY <1>1, <1>3, <1>4, <2>1, <2>2 DEF IInv, WritesRemembered
  <2>4. Typed'
    BY <1>3, <1>4, <2>1 DEF IInv, Typed
  <2> QED BY <1>4, <1>5, <2>1, <2>3, <2>4
          DEF IInv, NodesReliable, CardsReliable, BudgetsHold, EvidencePolicyKept,
              WritesAreApproved, WritesHappenOnce
<1> QED BY <1>6, <1>7

\* The batch is over: what was seen of it is among the outputs.
LEMMA EndActStep ==
    ASSUME IInv, EndAct
    PROVE  IInv'
<1> DEFINE outputs == st.outputs \cup ToSet(st.pending)
           state == [st EXCEPT !.outputs = outputs, !.pending = <<>>,
                               !.toolCalls = st.toolCalls + Len(st.pending)]
<1>1. /\ node = "research_act" /\ node' = "research_critic" /\ status' = "running"
      /\ answer' = "none" /\ asked' = {} /\ act' = NotActing /\ st' = state
      /\ UNCHANGED <<settings, shown, granted, late, written, retried>>
  BY DEF EndAct, Checkpoint
<1>2. /\ st \in LearningState /\ outputs \in SUBSET Calls /\ st.pending \in Seq(Calls)
  BY DEF IInv, Typed, LearningState, ToSet
<1>3. state \in LearningState
  BY <1>2, Counting, Zenon
<1>4. /\ state.outputs = outputs /\ state.pending = <<>>
      /\ state.toolCalls = st.toolCalls + Len(st.pending)
      /\ state.rewrites = st.rewrites /\ state.webSearches = st.webSearches
      /\ state.iterations = st.iterations /\ state.approved = st.approved
  BY <1>2 DEF LearningState
<1> HIDE DEF state
<1>5. Typed'
  BY <1>1, <1>3 DEF IInv, Typed, NotActing
<1>6. NodesReliable'
  BY <1>1, <1>4 DEF IInv, NodesReliable, Start, Closing
<1>7. ActReliable' /\ CardsReliable'
  BY <1>1, <1>4 DEF IInv, ActReliable, CardsReliable, NotActing
<1>8. WritesRemembered'
  <2>1. act.seen \subseteq outputs /\ act.busy
    BY DEF EndAct, IInv, ActReliable
  <2> QED BY <1>1, <1>4, <2>1 DEF IInv, WritesRemembered, NotActing, Closing
<1>9. BudgetsHold'
  BY <1>1, <1>2, <1>4 DEF IInv, BudgetsHold, LearningState
<1>10. WritesAreApproved' /\ WritesHappenOnce' /\ EvidencePolicyKept'
  BY <1>1 DEF IInv, WritesAreApproved, WritesHappenOnce, EvidencePolicyKept
<1> QED BY <1>5, <1>6, <1>7, <1>8, <1>9, <1>10 DEF IInv

-----------------------------------------------------------------------------
(* Steps of a request                                                       *)

LEMMA FreshStateIsState == FreshState \in LearningState
BY DEF FreshState, LearningState, Intents, Policies

LEMMA NotActingIsTyped ==
    NotActing \in [at : Nat, seen : SUBSET Calls, ok : BOOLEAN, busy : BOOLEAN]
BY DEF NotActing

LEMMA AskStep ==
    ASSUME IInv, Ask
    PROVE  IInv'
<1>1. Typed'
  <2>1. written' \in Seq(Writes \cup {Plan})
    BY DEF Ask
  <2>2. st' \in LearningState
    BY FreshStateIsState DEF Ask
  <2>3. act' \in [at : Nat, seen : SUBSET Calls, ok : BOOLEAN, busy : BOOLEAN]
    BY NotActingIsTyped DEF Ask
  <2> QED BY <2>1, <2>2, <2>3 DEF Ask, IInv, Typed
<1>2. NodesReliable' /\ ActReliable' /\ CardsReliable' /\ WritesRemembered'
  BY DEF Ask, FreshState, NotActing, NodesReliable, ActReliable, CardsReliable,
         WritesRemembered, Start
<1>3. BudgetsHold' /\ WritesAreApproved' /\ WritesHappenOnce' /\ EvidencePolicyKept'
  BY WorkflowAssumption
  DEF Ask, FreshState, BudgetsHold, WritesAreApproved, WritesHappenOnce,
      EvidencePolicyKept, IsInjective
<1> QED BY <1>1, <1>2, <1>3 DEF IInv

\* An answer in time is an answer to the card that is shown.
LEMMA ResumeStep ==
    ASSUME IInv, NEW value \in {"yes", "no"}, NEW inTime \in BOOLEAN, Resume(value, inTime)
    PROVE  IInv'
<1> USE DEF Resume, IInv
<1>1. ~act.busy
  BY DEF ActReliable
<1>2. Typed'
  BY DEF Typed
<1>3. NodesReliable'
  BY DEF NodesReliable
<1>4. ActReliable' /\ WritesRemembered'
  BY <1>1 DEF ActReliable, WritesRemembered
<1>5. CardsReliable'
  <2>1. granted \subseteq granted' /\ (late => late')
    OBVIOUS
  <2>2. answer' = "yes" => late' \/ (asked # {} /\ asked \subseteq granted')
    <3>1. CASE inTime /\ value = "yes"
      BY <3>1
    <3>2. CASE inTime /\ value = "no"
      BY <3>2 DEF CardsReliable
    <3>3. CASE ~inTime
      BY <3>3
    <3> QED BY <3>1, <3>2, <3>3
  <2> QED BY <2>1, <2>2 DEF CardsReliable, PendingWrites
<1>6. WritesAreApproved'
  <2>1. granted \subseteq granted' /\ (late => late')
    OBVIOUS
  <2> QED BY <2>1 DEF WritesAreApproved
<1>7. BudgetsHold' /\ WritesHappenOnce' /\ EvidencePolicyKept'
  BY DEF BudgetsHold, WritesHappenOnce, EvidencePolicyKept
<1> QED BY <1>2, <1>3, <1>4, <1>5, <1>6, <1>7

\* What research_act had seen is forgotten, and with it what may be done again.
LEMMA FailStep ==
    ASSUME IInv, Fail
    PROVE  IInv'
<1> USE DEF Fail, IInv
<1>1. Typed'
  BY DEF Typed, NotActing
<1>2. NodesReliable' /\ ActReliable' /\ CardsReliable'
  BY DEF NodesReliable, ActReliable, CardsReliable, NotActing, PendingWrites
<1>3. WritesRemembered'
  <2>1. act.at \in Nat
    BY DEF Typed
  <2>2. ~retried' => ~retried /\ ~(act.at > 0)
    OBVIOUS
  <2>3. ~retried' => ~retried /\ act.at = 0
    BY <2>1, <2>2
  <2> QED BY <2>3 DEF WritesRemembered, ActReliable, NotActing
<1>4. BudgetsHold' /\ WritesAreApproved' /\ WritesHappenOnce' /\ EvidencePolicyKept'
  BY DEF BudgetsHold, WritesAreApproved, WritesHappenOnce, EvidencePolicyKept
<1> QED BY <1>1, <1>2, <1>3, <1>4

-----------------------------------------------------------------------------
(* The theorems                                                             *)

LEMMA NextKeepsIInv ==
    ASSUME IInv, [Next]_vars
    PROVE  IInv'
<1>1. CASE Ask
  BY <1>1, AskStep
<1>2. CASE \E value \in {"yes", "no"}, inTime \in BOOLEAN : Resume(value, inTime)
  BY <1>2, ResumeStep
<1>3. CASE Fail
  BY <1>3, FailStep
<1>4. CASE PersistFails
  BY <1>4, PersistFailsStep
<1>5. CASE Nodes
  BY <1>5, PassStep, RouteIntentStep, RetrieveStep, GradeRetrievalStep,
     DecideEvidenceStep, RewriteQueryStep, WebSearchStep, ApprovePlanStep,
     PersistPlanStep, PlanResearchStep, ResearchReasonStep, AskForToolsStep,
     BeginActStep, ActStep, EndActStep, ResearchCriticStep
  DEF Nodes
<1>6. CASE UNCHANGED vars
  BY <1>6 DEF vars, ghosts, IInv, Typed, NodesReliable, ActReliable, CardsReliable,
              WritesRemembered, BudgetsHold, WritesAreApproved, WritesHappenOnce,
              EvidencePolicyKept, PendingWrites
<1> QED BY <1>1, <1>2, <1>3, <1>4, <1>5, <1>6 DEF Next

\* In every state the workflow can reach, each node may rely on what the edges
\* before it have looked at, a yes is an answer to the card of its node, and a
\* write that was done is known by the state it left (workflow.py, builder.py).
THEOREM WorkflowInvariant == Spec => []IInv
<1>1. ASSUME Init PROVE IInv
  <2>1. Typed
    <3>1. written \in Seq(Writes \cup {Plan})
      BY <1>1 DEF Init
    <3>2. st \in LearningState
      BY <1>1, FreshStateIsState DEF Init
    <3>3. act \in [at : Nat, seen : SUBSET Calls, ok : BOOLEAN, busy : BOOLEAN]
      BY <1>1, NotActingIsTyped DEF Init
    <3> QED BY <1>1, <3>1, <3>2, <3>3 DEF Init, Typed
  <2>2. NodesReliable /\ ActReliable /\ CardsReliable /\ WritesRemembered
    BY <1>1 DEF Init, FreshState, NotActing, NodesReliable, ActReliable, CardsReliable,
                WritesRemembered, Start, Closing
  <2>3. BudgetsHold /\ WritesAreApproved /\ WritesHappenOnce /\ EvidencePolicyKept
    BY <1>1, WorkflowAssumption
    DEF Init, FreshState, BudgetsHold, WritesAreApproved, WritesHappenOnce,
        EvidencePolicyKept, IsInjective
  <2> QED BY <2>1, <2>2, <2>3 DEF IInv
<1> QED BY <1>1, NextKeepsIInv, PTL DEF Spec

\* For any limits of rewrites, rounds and tool calls the loops stay in them
\* (workflow.py:165, 307-308, 367-380).
THEOREM BudgetsAlwaysHold == Spec => []BudgetsHold
<1>1. IInv => BudgetsHold
  BY DEF IInv
<1> QED BY <1>1, WorkflowInvariant, PTL

\* However nodes fail and are resumed, a write has the user's consent to just
\* that write, or an answer came for another card (workflow.py:227-240, 323-346).
THEOREM WritesAlwaysApproved == Spec => []WritesAreApproved
<1>1. IInv => WritesAreApproved
  BY DEF IInv
<1> QED BY <1>1, WorkflowInvariant, PTL

\* No write happens twice in a turn, for any batches and rounds, but behind a
\* failure (workflow.py:334-353).
THEOREM WritesHappenOnlyOnce == Spec => []WritesHappenOnce
<1>1. IInv => WritesHappenOnce
  BY DEF IInv
<1> QED BY <1>1, WorkflowInvariant, PTL

\* The answer is written only after the user's policy for sources was kept, for
\* any number of rewrites (workflow.py:156-174).
THEOREM EvidencePolicyAlwaysKept == Spec => []EvidencePolicyKept
<1>1. IInv => EvidencePolicyKept
  BY DEF IInv
<1> QED BY <1>1, WorkflowInvariant, PTL
=============================================================================
