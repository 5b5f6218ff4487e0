# A TLA+ verification of ai-chat-server

The system has two halves. A C++ gateway (`src/src`, `src/include`, `src/log`)
serves HTTP on a hand-written reactor in the style of muduo; a Python agent
(`src/agent/backend/app`) behind it keeps learners' data in SQLite, runs a
LangGraph workflow and schedules reminders. This directory holds TLA+ modules
that model their concurrent and persistent parts, TLC configurations that check
the models on small instances, and TLAPS proofs of the invariants the rest
stands on.

## 1. The system

| Component | State | Operations | Talks to |
|---|---|---|---|
| `EventLoop` | `quit_`, `callingPendingFunctors_`, `pendingFunctors_`, the eventfd | `loop`, `quit`, `queueInLoop`/`runInLoop`, `wakeup`, `doPendingFunctors` | every thread posts functors to it |
| `EventLoopThread`, `EventLoopThreadPool` | `loop_`, `next_` | `startLoop`, `threadFunc`, destructor, `getNextLoop` | creates and destroys loops |
| `TcpServer`, `Acceptor` | `connections_`, `nextConnId_` | `start`, `newConnection`, `removeConnection(InLoop)` | base loop; I/O loops by functors |
| `TcpConnection` | `state_`, input and output buffers | `connectEstablished`, `handleRead/Write/Close`, `send`, `shutdown`, `connectDestroyed` | its I/O loop, the application's callbacks |
| `Channel`, `EPollPoller` | `index_`, `events_`, `channels_` | `updateChannel`, `removeChannel`, `handleEvent` | the kernel |
| `TaskExecutor` | `tasks_`, `running_` | `submit`, `workerLoop`, `stop` | I/O threads submit, workers run |
| `HttpServer`, `HttpContext` | `contexts_`, parse state | `onConnection`, `onMessage`, `handleRequest`, the asynchronous handlers | I/O loop, executor, upstream clients, cache |
| `KLfuCache` | `nodeMap_`, `freqToFreqList_`, `minFreq_`, counters | `get`, `put` | workers |
| `OpenAIClient`, `AgentClient` | one `StreamContext` or string per call | `chatCompletionStream`, `streamRequest`, `requestJson` | workers call them; libcurl calls back with pieces |
| `Buffer` | a vector and two indices | `append`, `retrieve`, `readFd`, `makeSpace` | `TcpConnection`, `HttpContext` |
| `AsyncLogging` | four buffers, `buffers_` | `append`, `threadFunc`, `stop` | every thread that logs |
| `LogFile`, `FileUtil` | the open file, `count_`, `lastRoll_`, `lastFlush_` | `append`, `rollFile`, `flush` | the log's back end, the clock |
| `ReminderService`, reminder tables | `status`, notifications; jobs in memory | `create`, `cancel`, `run_now`, `_restore_jobs` | APScheduler, SQLite, a second process |
| `ConversationService` | messages, summaries | `prepare_turn`, `complete_turn`, `maybe_summarize` | SQLite, model client |
| `AgentService` | run status; the graph's checkpoint of the conversation | `run`, `resume`, `_stream` | the workflow, `ConversationService`, SQLite |
| LangGraph workflow | the graph's state, a checkpoint behind each node | the nodes: route, retrieve, decide, approve, save, research | model, search, stores, reminders; `AgentService` starts and resumes it |
| `MemoryService`, plans | profiles, plans | extract, save, mark a day | SQLite |
| `KnowledgeStore` | SQLite chunks, Qdrant points | index, delete, search | Qdrant, embeddings |
| `SkillService` | skill directories | install, load | the file system |
| timers, memory pool, HTTP messages, log formatting, front end | | | |

What is hard in this code:

* **Interleaving.** Functors cross threads; whether a blocked `epoll_wait` is
  ended depends on the order of a push, a flag and an eventfd write. Closing a
  connection takes two hops between loops, with requests and responses in
  flight.
* **Order.** A response is produced by an I/O loop (its head) and a worker (its
  events and end), and written partly at once and partly on `EPOLLOUT`.
* **Stopping.** `quit`, `TaskExecutor::stop`, `AsyncLogging::stop` and
  `TcpConnection::shutdown` each have to let something finish first.
* **Crashes.** Reminder jobs live in memory and their rows in SQLite; two
  processes (web application, standalone MCP server) serve the same rows.
* **Stale reads.** Nothing keeps two requests for one conversation apart. Each
  reads a sequence number, a summary or a checkpoint, and writes what follows
  from it after another thread, or a model call of many seconds, has been there.
* **Bookkeeping.** The LFU cache keeps a minimum by increments and resets,
  through ageing in an unspecified order; a buffer slides or grows by index
  arithmetic; the log rolls its files by a clock that may be set back, and names
  them after the local time.
* **Pieces.** Upstream services send a stream that libcurl cuts anywhere, and
  may fail in the middle of it; what was relayed cannot be taken back.
* **Resumption.** A node of the workflow that asks the user, or fails, runs again
  from its start, with whatever it had already done outside the checkpoint.

`PROJECT.json` lists the hazards with their lines and the properties that cover
them. What makes each component correct is stated at the end of its module.

## 2. Modules

Each module states the component's constants, variables, one action per
handler or critical section, its fairness, and its properties. Operators named
`Mut_...` are plausible wrong versions of the operator that follows them. No
specification uses them: they show that each property can fail, by being put
in that operator's place.

| Module | Models | A step is |
|---|---|---|
| `FunctorQueue` | what a loop promises: each functor once, in order | a post or a run |
| `EventLoop` | `EventLoop.cc` | a section under the mutex, a flag write, an eventfd write, one functor |
| `EventLoopThread` | `EventLoopThread.cc`, on top of `EventLoop` | a step of the owner or of the thread |
| `ConnLifecycle` | what the application may rely on: up, down, freed | a callback or the last reference going |
| `TcpServer` | `TcpServer.cc`, `Acceptor.cc`, the pool, the input side of `TcpConnection.cc`, channel indices, `HttpServer::onConnection` | a channel handler or a functor of one loop |
| `TcpOutput` | the output side of `TcpConnection.cc` | one `send`, `shutdown` or handler |
| `Buffer` | `Buffer.h`, `Buffer.cc` | (operators on one buffer) |
| `TcpBuffers` | `TcpOutput` with both buffers as they are, and `handleRead` | as in `TcpOutput`, and one `readFd` with its message callback |
| `TaskExecutor` | `TaskExecutor.cc` | a section under the mutex, a notify, a task |
| `HttpGateway` | `HttpServer.cc`, `HttpContext.cc` | one `onMessage`, one functor, one upstream event |
| `Upstream` | `OpenAIClient.cc`, `AgentClient.cc`, the handlers of `HttpServer.cc` that use them | one callback of libcurl, or the end of a call |
| `CachePromise` | what the chat path expects of its cache | one `put` |
| `LfuCache` | `LFU.h` | one `get` or `put` (both hold the mutex throughout) |
| `LogFile` | `LogFile.cc`, `FileUtil.cc` | (operators on one log file) |
| `AsyncLogging` | `AsyncLogging.cc`, on `LogFile` | a section under the mutex, one buffer written, a second of the clock |
| `Reminders` | `scheduling/service.py` and the reminder part of `db/database.py` | one transaction, one SELECT outside a transaction, one scheduler action |
| `AgentTurns` | `services/agent_service.py`, the turns and summaries of `conversation/service.py`, messages, summaries and runs of `db/database.py` | one transaction, one SELECT outside a transaction, one checkpoint of the graph |
| `Workflow` | `graph/builder.py`, `graph/nodes/workflow.py`, started and resumed as `AgentService` does | one node; in `research_act`, one call of a tool |
| `*_proofs` | theorems about the module they extend | |
| `MC*` | the module a run checks | |

How they fit together: `EventLoopThread` extends `EventLoop` and composes the
two state machines. `TcpBuffers` extends `TcpOutput` and `Buffer`: each of its
steps is one of `TcpOutput` together with what it does to the vectors, and
`BuffersHold` says that the output buffer implements the sequence `outBuf` that
`TcpOutput` (and its proofs) speak of. `AsyncLogging` extends `LogFile` and
writes through it. `TcpServer` and `HttpGateway` take from `EventLoop` that
functors are delivered once and in order (`RefinesFunctorQueue`), and use
mailboxes. `Upstream` is the inside of what `HttpGateway` sees as upstream
events, and its cache is one entry of what `CachePromise` describes; `Workflow`
is the inside of what `AgentTurns` sees as supersteps that end, wait or raise.
`HttpGateway` takes from `TaskExecutor` that tasks are taken once and
in order, and from `TcpOutput` that what `send` accepts arrives in order. What
a handler or functor does on a connection is a list of calls of `send` and
`shutdown`, one operator for each place of `HttpServer.cc` that writes to it
(`SendResponse`, `JsonReply`, `StreamHead`, `AgentEnds`, `ChatEnds`,
`ChatFromCache`); `Perform` carries a list out as `TcpConnection` does, up to the
first `shutdown`, behind which every call does nothing. Three abstract specifications are implemented
by detailed ones: `FunctorQueue` by `EventLoop` (the queue is the batch
followed by the pending vector), `ConnLifecycle` by `TcpServer` (freed is "no
`shared_ptr` is left in the ledger, in a functor or in a task"), `CachePromise`
by `LfuCache` (the store is `nodeMap_`).

Abstractions worth knowing:

* The eventfd counter is the Boolean "is it readable": `handleRead` resets it
  and its value is not used. A functor is its ticket in the order of posting.
* A message is a number of bytes, a byte its position in the stream; the kernel
  takes any part of what fits.
* A request has two parts (head, body) that TCP may deliver together or apart,
  and one of six kinds: answered in `onMessage`, refused there by an error that
  always closes (405, 413), unparsable (400, which closes too), proxied, the
  agent's stream, and the model's stream with its cache.
* `LfuCache` keeps one list per frequency. `nodeMap_` is unordered, so ageing
  visits it in any order. When `kickOut` meets an empty list it takes the
  sentinel, as the code does; `RefinesCachePromise` fails if this happens.
* In `Buffer`, indices count from 0 as in the code, and `CopyTo` drops what is
  copied behind the end of the vector, which in the code would be undefined.
  The stack array of 65536 bytes is `ExtraSize`.
* In `Upstream`, a byte is its position; a line is a number of bytes (two at
  least, so that what stands before the newline is its own), and stands
  for one frame: a delta of one UTF-8 character, an error, or anything the parser
  passes over. All chats ask the same question, so that the cache is one entry;
  `Evict` is what other questions do to it.
* In `LogFile`, a byte is a line. A file is named after the local time of its
  opening: `LocalTime` is any function of the second, because a zone's rules may
  put the clock back. An opening whose name was there before appends to that
  file, as `fopen(name, "ae")` does; `files` lists the openings. `count_` starts as
  one of the values memory may hold.
* In `Workflow`, a call of a tool is its signature, the name with the JSON text of
  the arguments (`workflow.py:339`): the same arguments in another order of their
  keys are another call, and may be done again. What a model, a search or the user's wording decides is any value
  the node accepts. Nodes whose results no later decision depends on are the
  edges of `Edge`. `Fail` is an exception or the end of the process: the
  checkpoint stays, what the node did elsewhere stays too. `Resume` may come in
  time, for the card on the screen, or late, for an earlier one; `interrupt()`
  returns to the node whatever value came, and keeps it for the node's next try.
* In `Reminders`, a process may end at any step, for good or not. `RunFails` is
  a call that raises because SQLite stayed locked for `busy_timeout`.
  `Misfire` and `Dispatch` are APScheduler's, as `_schedule` configures it. The
  SELECT of `fire_reminder` is a step of its own, because Python's `sqlite3`
  opens the transaction at the INSERT or UPDATE that follows.
* In `AgentTurns`, the same holds of `add_conversation_message`: the number is
  read in one step and used in another, and `Insert` or `InsertConflicts` is
  what the UNIQUE constraint makes of it. A message is its number, its role, its
  run, and whose answer it is. A summary is its `through_sequence` and the set
  of messages it was made from; its text and `version` are left out. LangGraph is
  external: a question starts the graph anew, each superstep replaces the
  conversation's checkpoint by the request's values, a resumption goes on with
  the pending nodes of the latest checkpoint and does nothing when there are
  none. `disturbed` is a ghost: the runs that met another request, were resumed
  out of turn, or lost their client or their process.

## 3. Runs

| Run | Question | Instance | What it shows |
|---|---|---|---|
| `io_thread` | does the reactor lose, double, reorder or strand work? | owner, 2 posting threads, 4 functors | `NoStrandedFunctor`, `UsersSeeLiveLoop`, the refinement of `FunctorQueue`, and `PostedIsRun` without traffic or timeout |
| `tcp_server` | does a connection's object outlive its uses and go away? | 2 connections, 0 to 2 I/O loops, 2 requests each | channels never dangle, parsing contexts match the connections that are up, one up and one down callback before the object is freed, and it is freed |
| `tcp_output` | do direct and buffered writes make one stream, and do the buffers keep it? | 4 bytes out, messages up to 3, room for 2; 3 bytes in; vectors for 2 bytes, overflow of 2 | order, FIN last, delivery, shutdown completes; both buffers hold what was put in, through sliding, growing and overflow |
| `task_executor` | does a task sleep in the queue, does stop drain? | 3 workers, 2 submitters, 4 tasks | work conservation with `notify_one`, each task taken once in order, `stop` drains and returns, what is submitted is taken |
| `http_gateway` | are responses whole and in order, and is the connection closed behind the last? | 2 connections (one pipelines), 2 workers, 2 requests, 2 events | frame order within and between responses; the connection is shut down with the response to the request that asks for it, on every path, not before and not without it, and a client that waits is then owed nothing; every awaited response ends |
| `upstream` | do client, cache and upstream agree on an answer? | 2 requests, 2 lines of 3 bytes, characters of 1 to 3 bytes, pieces of 2 | see below |
| `lfu_cache` | is the least used key evicted? | 4 keys, room for 3, 12 accesses, ageing above 2 | the victim is a least used key; the store holds the last values put, within its capacity |
| `async_logging` | are lines lost between a front end and the disk? | 2 lines a buffer, 7 lines, files of 3 lines, 4 seconds in 3 periods, summer time ends between them | nothing lost, doubled or reordered through swaps and rolls, files are opened in different seconds and named in the order of writing as long as local time goes on, buffers never run out, everything reaches the disk while running |
| `reminders` | does a reminder fire once, and in the end? | 2 processes, a once and a daily reminder, faults at any time | see below |
| `agent_turns` | do overlapping requests of one conversation corrupt it? | 2 questions, 1 approval, 2 at a time, history of 0 or 1 | see below |
| `workflow` | does the graph end, and change only what the user agreed to? | 2 questions, 3 rounds, 3 calls, batches of 2, 1 rewrite, a reading and a writing tool | see below |
| `quit_before_loop` | (violation) | | the finding of section 4 |

`upstream` shows that the parser takes each complete line exactly once and in
order, however the stream is cut (`StreamIsReassembled`); that a chat that ends
with `done` has shown the client, in whole characters, exactly the answer its
history now holds, whether it came from the model or was cut anew from the cache
(`ShownIsAnswer`); that the cache holds only what a stream said that ended
without an error of the connection, of HTTP or among its events
(`CacheHoldsGoodAnswers`); and that an agent stream that ends without an error
event has been relayed whole (`AgentIsRelayed`). What it does not show, because
it is not so: that a cached answer is complete. A stream that ends cleanly but
early, even with no text at all, counts as an answer.

`workflow` shows that rewrites, searches, rounds and tool calls stay in their
budgets (`BudgetsHold`); that a plan is saved, and a writing tool called, only
when the user agreed to just that in this turn, unless an answer meant for an
earlier card reaches the graph, which nothing in `resume` prevents
(`WritesAreApproved`); that no write is done twice in a turn unless a node
failed behind it and was run again, which repeats it (`WritesHappenOnce`); that
the user's wish about sources is kept on the way to a grounded answer
(`EvidencePolicyKept`); and that no request is served for ever (`TurnEnds`). It
also has behaviours to know of: a call that was rejected, or failed, counts as
done when the same call is approved later; a plan of blank research tasks ends
the graph without an answer; the research tools do not look at the policy of
sources, so `EvidencePolicyKept` speaks of the retrieval loop only.

`reminders` shows that a once reminder notifies exactly when it is completed and
once, whatever dies on the way, and that a cancelled daily reminder notifies at
most once more per process (`FiresAsPromised`); that without faults a scheduled
once reminder is settled when due (`DueIsSettled`); and that a restart recovers
an overdue one whatever was missed (`RestartRecovers`).

`agent_turns` shows that, however requests overlap, die or fail, messages are
numbered without a gap, a summary covers exactly the messages up to its
`through_sequence` (an older summary may replace a newer one, and is then still
true of itself), an answer follows its question, and a completed run has an
answer. One property holds only of a run that met no other request, and the
model shows why: a request that overlaps another takes its answer from whatever
checkpoint is the latest, so it may store the other's answer as its own, store
an answer twice, or leave with its run `running`. `AloneIsClean` says that a
run that was alone gets its own answer, once, and that it is never left
`running` with nobody serving it.

**Bounds.** Each bound lets the case it bounds happen more than once: two
functors in a batch with more behind them; a connection that closes while
another is established on the same or another loop; a partial write of a
buffered remainder; more tasks than workers and a second submitter between push
and notify; more full log buffers (4) than the two that are kept, and files
rolled for each of the two reasons, in one second and in different ones; ageing
with one, two and three cached keys; a buffer that slides, one that grows, and
one that overflows to the stack and then does either; a line and a character cut
at every byte, and a second chat that hits what the first one stored; a batch of
tool calls cut at the limit, and a call repeated in its batch and in a later
round; in `agent_turns` (`MaxServed`, `MaxHistory`) two
requests at every pair of places, a third before, between or after them, and
with `RecentLimit` 1 summaries of summaries. Questions are symmetric in
`agent_turns` and requests in `upstream`. In `workflow`, `retried` bounds the
failures after something was done to one a turn. The proofs remove the bounds where they apply.
`CHECK_DEADLOCK FALSE` is given where the system may rest: after a stop, when
the peers are silent, or when a bound is used up.

**Fairness.** Weak fairness stands for "threads are scheduled": loop steps, a
poster's second step, workers, submitters between push and notify. It is never
assumed of peers (except that a peer that neither closes nor resets reads, in
`TcpOutput` and `TcpBuffers`, and that a client ends the request it began, in `HttpGateway`), of
the poll timeout, of spurious wakeups, of `quit`, `stop` or a restart.
`HttpGateway` assumes that an upstream call ends: the agent client sets timeouts
(`AgentClient.cc:42-43`), `OpenAIClient` does not, and a silent model pins its
worker (a listed hazard). `AsyncLogging`'s waits end by themselves
(`wait_for`, 3 s). In `Workflow` the nodes of a request that is being served go on
(a call of a model or a search ends, by its timeout at the latest), but nobody
has to resume a graph that waits or failed. `Upstream` has safety properties
only. In `Reminders` the scheduler hands over due once jobs;
nothing makes a process start. `AgentTurns` has safety properties only and no
fairness: a graph may run for ever.

## 4. Findings

**A quit before the loop starts is forgotten** (`quit_before_loop`).
`EventLoopThread` publishes its loop before it calls `loop()`, and `loop()`
starts with `quit_ = false` (`EventLoop.cc:80`). A destructor that runs in
between sets the flag, the thread clears it, and the join never returns.

Also visible in the models, and either no promise of the code or of little
consequence:

* `quit()` may write the eventfd of a loop that is gone (`QuitTouchesLiveLoop`
  in `EventLoopThread`).
* At the end of summer time a log's file name may sort before an older one, or be
  an older one's, whose file then gets the new lines at its end (`SummerEnds` in
  `MCAsyncLogging`; `LogFile.cc:53`). The names are promised nowhere to be unique.
* Responses to pipelined requests interleave, and a pipelined request waits for
  more input (`HttpGateway`).
* After ageing, `curAverageNum_` is not the average of the frequencies
  (`LFU.h:167`, 275-303): ageing lowers them but not `curTotalNum_`, so every
  later access ages the whole cache again (`LfuCache`).
* Lines logged after the last swap and before `stop()` are lost
  (`AsyncLogging.cc:58`): the flush at line 101, commented as making sure that
  everything is emptied, cannot see what is still in the front-end buffers.
  `NothingLost` says that these lines, and no others, are lost.
* A daily reminder notifies once per process that serves the database.
* A stream of the model that ends early is cached as an answer; the last line of
  a stream is dropped when no newline follows it (`Upstream`).
* A rejected or failed tool call is skipped as a double when it is approved later;
  a node that fails behind a write repeats the write when it is resumed; an
  approval is not tied to the card it answers (`Workflow`).

## 5. Proofs

The provers are asked for every value of the constants; each theorem is under
the named assumptions of its module only (`MaxPostedAssumption`,
`OwnerAssumption`, `SizesAssumption`, `BufferAssumption`, `PoolAssumption`, `LogAssumption`, `LogFileAssumption`,
`CacheAssumption`, `AgeingAssumption`, `UpstreamAssumption`, `BoundsAssumption`, `GatewayAssumption`, `ReminderAssumption`, `TurnAssumption`,
`WorkflowAssumption`: finite sets, natural bounds, who is a member of what). The
bounds of section 3 therefore do not apply to what is proved here.

**`Threads_proofs`, the loop.** `LoopInvariant` is `Spec => []IInv` with
`IInv == TypeOK /\ FunctorsInOrder /\ Control`. That the loop never sleeps on
unserved work (`NoStrandedFunctor`) speaks of the poll only and is not
inductive: what makes it true is decided earlier. `Control` therefore says, from
the moment the loop has swapped its batch until it has polled, that whatever it
has not served is announced (the eventfd is readable, or the thread that
pushed is about to make it so). `FunctorsInOrder` makes exactly-once and order
one statement: functors run, batch and pending vector, one after the other, are
the tickets in the order of posting. `FunctorNeverStranded` and
`QuitNeverStranded` follow. `LoopRefinesQueue` maps each step to a post, a run
or a stutter of `FunctorQueue`; its lemmas are about appending behind and
taking from the front of batch and pending vector together.

Then `EventLoopThread`: each step of the
composition is a step, or a stutter, of the loop (`ThreadStepIsLoopStep`), so
that the loop's invariant carries over (`ThreadedLoopInvariant`).
`UsersCallLiveLoop` adds `ThreadInv`, which ties the owner's place in the code to
the thread's.

**`Threads_proofs`, the log.** `NothingLost` cuts what was appended into pieces (the lines of each
file, each buffer being written, each full one, the current one) and says that
they hold 1, 2, ... in this order. `LogInvariant` keeps this per part, and adds
where the parts meet: the last swap cuts the log in two (`SwapDivides`), with the
files and the buffers being written on one side, and each part lies below the next
(`PartsAreOrdered`). The lemmas put two logs, or two pieces, one behind the other
(`JoinOrder`, `JoinWithin`), and say what one `append` does to the files when it rolls
or not (`FilesGrow`); a rolled file is opened later than all others because
`lastRoll_` is the second of the last, and its name follows theirs wherever local
time goes on: nothing is assumed of `LocalTime`. `BuffersAreRecycled` needs that a front end
that took the next buffer left a full one behind.

**`TcpOutput_proofs`.** `OutputInvariant`: `IInv` joins `StreamIntact`,
`FinIsLast` and `OutputIsWatched` (the channel watches `EPOLLOUT` exactly while
bytes wait). They need each other: a direct write is in order only because an
empty buffer is one that is not watched, and a FIN is last only because nothing
is accepted after it. The lemmas cut a sequence and join it again at every point
at which the kernel may cut a message.

The second part is about `TcpBuffers`. `BuffersAlwaysHold` needs one more fact
than the property it states, `BInv`: the cells of both vectors are blank or
natural numbers, and the input side counts from what the application took. Each
operation of `Buffer` gets a lemma that says what it does to the readable bytes
(`EnsureKeeps`, `AppendAppends`, `ReadFdAppends`, `RetrieveDrops`); sliding to the
front (`SlideKeeps`) overlaps with itself, which `CopiedInPlace` shows to be
harmless, because the bytes only move to the left. `BuffersImplementOutput` says that every
step of the detailed model is a step of `TcpOutput` or leaves its variables
alone, so `BufferedStreamIsIntact` inherits the stream and the FIN.

**`TcpServer_proofs`.** A connection is in one of six stages: fresh,
establishing, up, closing, removed, gone. `InStage` says what each means for the
ledger, the poller, the context and the counters at once. `MailIsDue`: a functor
is queued only in the loop that has to run it and only in the stage it ends
(`establish` while establishing, `remove` while closing, `destroy` once removed; a
response may wait in any later stage). `Once`: neither is queued twice.
`DestroyIsQueued`: a removed connection has its `connectDestroyed` still to come.
From these `NoChannelDangles`, `ContextsAlwaysMatch`, and
`ServerRefinesLifecycle`: each step is a step of `ConnLifecycle`, or leaves it unchanged.

**`Workers_proofs`, the pool.** `PoolInvariant`: tasks are taken in the order of
submission, and no task waits beside sleepers without somebody who will wake one
or take it (`WorkConserving`), which is a statement about cardinalities; the
lemmas move one worker or one submitter from set to set. `StoppedPoolIsDrained`
adds that after `stop()` a worker leaves only when the queue is empty: when all
are joined, what was submitted has run. It is the safety half of `StopDrains`.

**`Workers_proofs`, the cache.** That eviction takes what was used least depends on
bookkeeping spread over six variables. `CacheInv` says that each list holds the
cached keys of its frequency once (`Sorted`), that `minFreq_` is the least
frequency in use (`Least`), and that it never exceeds `maxAverageNum_` while a key
is cached. The last part is why ageing works: it lowers every frequency and then
looks for the least below a sentinel, `INT8_MAX`, which must be out of reach.
`maxAverageNum_` bounds the least frequency because it bounds the average: `Accesses`
has one element for each access that a frequency stands for, there are no more of
them than `curTotalNum_` counts, and if each key had more than the maximum the
average would have aged them. After ageing `curTotalNum_` is
not the sum of the frequencies (section 4), but it is never below it, which is all
that is used.
`AgeingAssumption` says what this needs of the two numbers; the code's 10 and 127
satisfy it. `VictimIsLeastUsed` then gives `EvictionIsLeastUsed`, and
`CacheKeepsPromise` maps each step to a step of `CachePromise`: a full cache always
finds a victim, never the sentinel node.

**`Workers_proofs`, the calls.** `CallsInv` says of each call what it has done with
the bytes it got. For a stream of the model that is `Reads`: the parser has taken
m lines, said what they say and keeps the bytes behind them, where m is the
number of complete lines received. One callback runs a loop over the lines in what
is pending, so the proof has a loop invariant, kept by one round
(`LineIsTaken`) and hence by all (`AllLinesAreTaken`); after as many rounds as
there are bytes no newline is left (`NoLineIsLeft`). That a stream cut anywhere
gives the same lines rests on `FirstNewline`: the first newline behind m lines ends
line m + 1. For an answer from the cache the loop invariant is `CutUpTo`: what has
been shown is the text up to a boundary between characters (`CutEndsWhole`). It
needs `WholeText` of what is cached: a character starts where the one before ends.
An answer has this because frames hold whole characters (`SaidIsText`). An entry of
the cache stays good because a call that is over never changes (`Answered`).

**`HttpGateway_proofs`.** `ResponsesInOrder` speaks of frames a client has
received, and frames are received that were decided upon long before. The
invariant therefore speaks of lines: what a client was sent, followed by what is
queued for it. `LinesHold` keeps every line well formed. Who may add to a line is
decided by who holds its request (`PartsAreKept`, `HeldOnce`, `PendingIsHanded`:
the parser, the queue of the executor or one worker, and never two of them).
`ClientsWait` ties a client that does not pipeline to this: its earlier requests
are complete on the line before the next is parsed, which is what puts the
responses in order (`OneByOne`, `Ascending`). For clients that pipeline the
theorem claims only what the property does, that each response is whole.
`ClosesBehindTheAnswer` needs more of the line than its order: the handlers that
close in it are exactly those that end the response to a request that asks for it
(`Marked`), on the wire of a connected client there is none (`NoneCloses`), and a
response that is still owed has not ended (`Owed`). That each path has such a list
is shown for each by itself (`ReplyShape`, `HeadShape`, `EventShape`,
`StreamEndShape`). When a client that waits is sent the list that closes, its
other responses are complete (`ClientsWait`), so nothing is queued behind it
(`NothingBehind`, `LastHandler`) and nobody holds a request of its; `AllAnswered`
keeps this while the connection is half closed.

**`Workflow_proofs`.** `WorkflowInvariant` joins the four properties with
`NodesReliable`, `ActReliable` and `CardsReliable`, which say what the checkpoint
guarantees to a node that is entered, or entered again after a failure, and
`WritesRemembered`: a write that happened can be told from the plan's node, from the
outputs or, while a batch is on its way, from what the batch has seen. `BudgetsAlwaysHold`, `WritesAlwaysApproved`,
`WritesHappenOnlyOnce` and `EvidencePolicyAlwaysKept` follow, for any limits and
any number of resumptions; of the failures behind which something was already
done there is one in a turn (`retried`).

**`Reminders_proofs`.** `ReminderInvariant`: `FiresAtMostOnce` is inductive
because the guarded UPDATE and the INSERT are one transaction. `EventsAreBacked`
and `LateIsBounded` are strengthened by the runs that are on their way: a run
that has committed holds one notification its event will use, and a run that
has selected a row that is cancelled in the meantime will make one late
notification. The lemmas move one process of such a set at a time
(`RunMoves`). `RemindersFireAsPromised` follows, for any number of processes: the
safety property the run checks.

**`AgentTurns_proofs`.** `TurnInvariant`: what a request has read says something
about the database that other requests cannot make false (`Sound`). A number it
has read is at most one more than the length of the log, so it is the next one
if it is still free; a cover it has read, or extended, is a prefix of the log;
a run that has got past its question has it in the log. Hence a stale write is
either harmless or refused. The lemmas are about intervals:
`ExtendedCoverIsPrefix` says that a prefix and the pending messages but for the
last few make a prefix again. `LogHasNoGap`, `SummaryCoversAPrefix` and
`AnswersComeAfter` follow, for any number of requests and any `RecentLimit`. `AloneStaysClean` adds
`CleanInv`: while a run meets no other, its checkpoint is open exactly as long as
it lacks its answer (`CheckpointIsOpen`), and one request serves it
(`ServedAlone`).

## 6. Only model-checked

Liveness is out of the prover's reach: `PostedIsRun`, `ClosedIsFreed`,
`AllDelivered`, `ShutdownCompletes`, `SubmittedIsTaken`, `StopDrains`,
`SentIsAnswered`, `AppendedIsFlushed`, `DueIsSettled`, `RestartRecovers` and
`TurnEnds` are checked on the instances only. All invariants and all other action
properties and refinements the runs check are proved.

The induction theorems of the library take an operator as a parameter, which the
provers cannot instantiate. Where a proof needs induction over the rounds of a loop
or the length of a sequence, `AllAreReached` states it with a set for the
predicate, from the well-founded order of the natural numbers; loops are recursive
functions, whose existence is shown the same way (`RoundsExist`, `CutsExist`,
`JoinsExist`).

## 7. Not modelled

* `sendFile`, `purge`, `KHashLfuCache`, the blocking `chatCompletion`, the memory
  pool and the timers: no caller in the repository. `timerQueue_` is never even
  constructed. (The pool would need work before it gets a user:
  `allocateNewBlock` clears `freeList_` without its mutex,
  `memory/memoryPool.cc:99`.)
* `~TcpServer`: `main()` leaves `loop()` only when a signal ends the process.
* High-water-mark and write-complete callbacks: the gateway sets none.
* SIGPIPE: a write to a connection that was reset is an error of `write` in the
  models. In `TcpServer` every message of a peer hands a worker a task.
* Parsing and formatting (headers, JSON, URLs, reminder texts), routing, static
  files, the text of log lines, addresses, system calls, errors of the disk.
* Exceptions thrown by library calls inside tasks and functors.
* Of the conversations: what `context` and `contextualize` select and rewrite
  (they write nothing), lists of more than 1000 unsummarized messages, answers
  of blanks only, and the text and `version` of a summary.
* Of the workflow: the texts, the citations `reflect` checks, and what the nodes
  `reminder`, `update_progress`, `quiz` and `draft_plan` write at the user's
  direct request, without a card and before their checkpoint.
* Plans and profiles (single rows; two edits of a plan at once lose one), the
  knowledge store (a vector whose deletion fails stays, and `search` drops it
  because its row is gone) and the skills: little state, and no step whose order
  a model would tell more about than the hazard list does.

## 8. Plan

1. `Plans`: `save_plan` and `mark_plan_day` under concurrent edits.
2. `KnowledgeStore`: the two copies of a document through indexing, deletion
   and failure.
