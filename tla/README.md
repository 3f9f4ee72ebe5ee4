# Agent Network on Dify: a TLA+ model

This directory models the concurrent core of the repository: the agent run server
(`dify-agent`), the Agent App conversations that drive it, the queues, limits and event
channels of the Dify API, and the Agent Network panel that this fork adds. The modules are
checked with TLC on small instances; the results that matter most are proved with TLAPS for
every value of the constants.

Paths below are relative to `src/dify-main/`, unless they start with `src/`.

- [1. The system](#1-the-system)
- [2. Modules and how they correspond to the code](#2-modules-and-how-they-correspond-to-the-code)
- [3. What the runs check](#3-what-the-runs-check)
- [4. Fairness](#4-fairness)
- [5. What is proved](#5-what-is-proved)
- [6. Disagreements between code and documentation](#6-disagreements-between-code-and-documentation)
- [7. Behaviours seen in the models that no property forbids](#7-behaviours-seen-in-the-models-that-no-property-forbids)
- [8. What is not modelled, and why](#8-what-is-not-modelled-and-why)
- [9. Plan](#9-plan)
- [10. Running it](#10-running-it)

## 1. The system

The repository is a fork of Dify (API in Python, web front end in TypeScript) with two
additions of its own: `dify-agent`, a FastAPI server that runs agents, and the Agent Network
panel of the workflow editor with its offline tools in `src/Dify_workflow`. What carries
protocol state, and so what can go wrong between two steps, is the following.

### 1.1 Agent run server (`dify-agent/src/dify_agent`)

| | |
|---|---|
| State | Redis: one record per run (`status`), one event stream per run, both with a retention. In the process: `active_tasks`, `stopping`, the lifecycle lock. |
| Operations | `POST /runs` (`RunScheduler.create_run`), the run's task (`AgentRunRunner.run`), `RunScheduler.shutdown`, `GET /runs/{id}`, the event page and SSE endpoints. |
| Interactions | The API's Agent App and agent nodes call it through `Client`; it calls model providers and layers (sandbox, drive, plugins) through the Agenton compositor. |
| Hard | Every await is a point where another coroutine runs or a cancellation lands. Outcome event and final status are two store calls. Shutdown writes outcomes for runs whose own task may have written one already. Redis calls fail with the effect done or not done. Keys expire under a running task. |
| Correct when | Shutdown covers every admitted run and returns; a final status always has its event; the status changes after it is final only because shutdown says so; a client's view obeys one small contract. |

### 1.2 Event stream of a run (`server/routes/runs.py`, `server/sse.py`, `client/_client.py`)

| | |
|---|---|
| State | The stream in Redis, the server's read cursor, bytes on the connection, the client's cursor and reconnect budget. |
| Operations | Replay by pages, blocking reads, yield, reconnect after the cursor, stop at an outcome. |
| Hard | An event appended between the last empty page and the first blocking read; a connection that breaks between two frames; expiry of the run while a client waits. |
| Correct when | Each event is yielded exactly once and in order, the client stops at the first outcome and at nothing else, and the outcome arrives. |

### 1.3 Agent App conversation (`api/core/app/apps/agent_app`)

| | |
|---|---|
| State | `agent_runtime_sessions`: one row per scope (conversation, agent, configuration snapshot or NULL) with a session snapshot, a status and the pause correlation (`pending_form_id`, `pending_tool_call_id`); `human_input_forms`. |
| Operations | A chat turn (load, run, save), a pause on `ask_human` (create the form, save the correlation), submission of a form, its deadline, the Celery task that resumes the conversation. |
| Interactions | Turn to run server by `create_run` and the event stream; form submission to Celery; the timeout job to Celery. |
| Hard | Load, run and save of a turn are separate steps and nothing serialises two turns; a save is a transaction of several statements without a lock on the conversation. The form is checked in one transaction and written in another. The resume has to name the same session scope as the turn that paused. |
| Correct when | An answer goes to the call its snapshot is suspended on; a save leaves one active session per conversation; a settled form's answer reaches a run; a turn continues the session the conversation had. |

### 1.4 Tenant-isolated task queue (`api/core/rag/pipeline/queue.py`)

| | |
|---|---|
| State | A flag key with a time to live and a list, per tenant and kind of job. |
| Operations | Submit (start a task, or push behind the flag), end of a task (pull up to N jobs and send them, or delete the flag). |
| Interactions | Proxies in the API process, tasks in Celery workers, Redis between them. |
| Hard | Each Redis command is atomic and no two are; the flag expires; a worker dies with pulled jobs in its hands. |
| Correct when | A waiting job is in exactly one place, the flag is not left without a task, waiting jobs get their turn while a task is under way; to the tenant it is one line, first come, first taken. |

### 1.5 App generation: slots and quota (`api/services/app_generate_service.py`)

| | |
|---|---|
| State | A Redis hash of active requests per app; the reservation in the billing service. |
| Operations | Reserve, enter (flush old slots, count, put), commit, generate, exit, refund. |
| Hard | Count and put are two commands; streamed workflows enter and exit twice; each of many ways to raise has to give back slot and quota. |
| Correct when | A request that has ended holds no slot, the limit holds where the code can hold it, a refusal has a cause and is not charged. |

### 1.6 Workflow run events (`api/libs/broadcast_channel`, `api/core/app/apps`, `api/services/workflow_event_snapshot_service.py`)

| | |
|---|---|
| State | A Redis topic per run (pub/sub, sharded pub/sub or a stream); per subscription a listener thread, a queue and a closed flag; per response with a snapshot a buffering thread and its buffer. |
| Operations | Subscribe, start of the task on subscription or by a timer, publish, pause and resume of the run on the same topic, a failed terminal event in place of a broken stream, receive, snapshot before the live events, idle timeout, close (which publishes a control message). |
| Hard | Subscribe races publish; `$` of a Redis stream moves; bounded queues and buffers drop; the database is read before the topic is subscribed; events may follow the one that ends the run; all subscriptions share the topic the control message travels on. |
| Correct when | A client sees no gap and no duplicate; one that asked for a snapshot first sees everything from its subscription on; the end survives a full queue as long as what follows it leaves room; a broken task is announced; every thread and connection ends. |

### 1.7 Agent Network panel (`web/features/agent-network-workflow`, `api/services/agent_network_conversation_service.py`)

| | |
|---|---|
| State | Conversation row (`applied_message_id`, `applied_task`), message rows (`apply_status`, execution results), the workflow draft with its hash; per browser tab the panel's copy, the canvas and `syncWorkflowDraftHash`. |
| Operations | Plan a task, apply a plan (canvas, draft save, mark applied or apply-failed), execute from the panel or the toolbar, clear the history, reload, edits that save the draft. |
| Interactions | Tabs call the conversation endpoints, the draft endpoint and the external Agent Network service (`plan_code`, `execute_code`). |
| Hard | Several tabs, each with stale copies; every operation spans awaits; two transactions write different columns of one row; an UPDATE or DELETE acts on the rows it found when it began. |
| Correct when | One plan is marked applied and the conversation points to it; the task belongs to the plan; a stored result belongs to the plan it is stored under; the code that runs belongs to the task it runs with. |

### 1.8 Commands from outside (`web/app/api/agent-network`, `web/features/agent-network-workflow`)

| | |
|---|---|
| State | The command store in the memory of the web server: compiled graph, status and time of the last update of each command. Per open editor the consumer's memory of what it handled and the query cache of its poll. |
| Operations | `POST` pseudocode (compiled and stored), poll by app id (hands out the oldest pending command), query by command id, `PATCH` of the outcome, expiry after ten minutes. |
| Interactions | An outside client posts and polls; every open editor of the app polls, applies the graph to its canvas, saves the draft and reports. |
| Hard | Two editors poll one store; a claim has no lease and its answer may be lost; the outcome overwrites whatever is there, or comes after the command is forgotten; an editor is reloaded or remounted in the middle. |
| Correct when | A command is handed to one editor only, and a client that has read an outcome or a 404 never sees the command at work again; the panel's own guarantees survive the foreign graphs. |

### 1.9 Collaboration room (`api/services/workflow_collaboration_service.py`, `web/app/components/workflow/collaboration`)

| | |
|---|---|
| State | Redis: the hash of a workflow's online users, a mapping per socket, the leader's key, each with its expiry. In each browser: the socket, `isLeader`. |
| Operations | Join, disconnect, relay of an event (which re-elects a missing leader), refresh of the user list (which prunes stale sessions and re-elects), rejoin after a 401. |
| Hard | Every event has a greenlet of its own, and they interleave at each Redis command; sockets break unnoticed; keys expire one after the other while a socket stays open. |
| Correct when | The server and the editors agree on one leader, which alone saves the draft and stays leader while it is there; after departures, expiry and races there is a leader again. |

### 1.10 Everything else

`PROJECT.json` lists every component with its files and status. Section 8 gives the reasons
for what is left out; section 9 says what is planned.

## 2. Modules and how they correspond to the code

| Module | Models | Proofs | TLC |
|---|---|---|---|
| `AgentRuns` | scheduler, runner and store of the run server | `AgentRunsProofs` | `MCAgentRuns` |
| `RunContract` | what a client of a run may rely on (abstract) | `AgentRunsProofs`, `RunStreamProofs` | through `AgentRuns` and `RunStream` |
| `RunStream` | SSE server and client of one run | `RunStreamProofs` | itself |
| `AgentConversation` | turns, pauses, forms and resumes of one conversation | `AgentConversationProofs` | `MCAgentConversation` |
| `TenantQueue` | queue of one tenant and one kind of job | `TenantQueueProofs` | itself |
| `JobContract` | what a tenant may rely on of its jobs (abstract) | | through `TenantQueue` |
| `AppGenerate` | slots and quota of one app | `AppGenerateProofs` | `MCAppGenerate` |
| `RunEvents` | topic, task and live responses of one workflow run | | through `RunSnapshots`, and itself |
| `RunSnapshots` | responses with a snapshot first; extends `RunEvents` | `RunSnapshotsProofs` | itself |
| `AgentNetwork` | conversation, draft and tabs of one App | `AgentNetworkProofs` | through the next, and itself |
| `AgentNetworkCommands` | command store and consumers; extends `AgentNetwork` | `AgentNetworkProofs` | `MCAgentNetwork` |
| `CollabRoom` | leader election of one workflow's room | `CollabRoomProofs` | itself |

`RunContract` joins two of the modules. `AgentRuns` is shown to implement it, by TLC and by proof
(`ImplementsContract`, an `INSTANCE` with `status <- record`, `events <- log`,
`forgotten <- expired`), and `RunStream` is built on it: the run whose events it follows takes
the contract's steps instead of the scheduler's, and is proved to keep it
(`FollowedRunKeepsContract`). What the contract promises by itself (`ContractStatusHasEvent`)
therefore holds in both. That the client is served by a run of `AgentRuns` rests on `RunNext`
being the contract's steps, for a run that was accepted and up to `MaxEvents`; after its keys
expired, `RunStream` lets the run write nothing, where the contract allows anything. `AgentConversation` uses the outcome of a run only
(succeeded with or without a deferred call, failed), which the contract permits at any time.
`JobContract` is the abstract specification of `TenantQueue` (`line <- queue`, `stage` computed
from a job's counter and the list).

An action stands for everything the code does between two points where something else can
happen: an `await`, a Redis command, a commit, an HTTP request. Definitions headed MUTANT are
not part of any specification; they are wrong variants of the definition below them, used to
see that a property notices them. `PROJECT.json` maps the definitions that stand for code to its
lines.

### 2.1 `AgentRuns`

`record` and `log` are Redis; `active`, `lock` and `shutdown` are the scheduler's registry,
lifecycle lock and the progress of `shutdown()`; `step` is the await a run's coroutine is
suspended in. A store call takes three steps: it is sent (`Goto`), Redis executes it
(`Execute`), the coroutine resumes (`Resume`, with `AfterCall` and `AfterError` as the table
of what comes next). `LoseCall` breaks it before or after its effect. `create_run` holds
`lock` while it awaits the store; `StopAdmitting` needs it free. `EndWait` is the end of the
grace period, at any time. `ObserveCancel` delivers a cancellation: either the task ends, or a
layer's exit hook raises inside `_run_agent` and the run reports that failure instead. After
the gather, `_mark_cancelled_run_failed` runs the same store calls for each pending run
(`MarkNext` and the `mark_` steps).

Abstractions. The effect of a store call that is in flight when its task is cancelled is
resolved before shutdown starts its own writes. Retries inside the Redis client are not
modelled: a retried XADD could duplicate an event, which is the client library's promise.
`Crash` leaves runs in `running`, as `dify-agent/docs/dify-agent/guide/index.md:86-88` says.
`Expire` drops the stream before or together with the record, because every write that
refreshes the stream refreshes the record. Bounds: `MaxStream`, the stream events of each run,
and `MaxFaulty`, the runs that meet a lost call or an expired key.

### 2.2 `RunStream`

`conn`, `readPos` and `wire` are the server side (`iter_events` in `storage/redis_run_store.py`
behind the route), `client`, `cursor` and `attempts` are `Client.stream_events`; an event's id
is its position. `Fetch` is one XRANGE page or one XREAD, `GoLive` the change from one to the
other, `Drop` any failure of the connection (the frames on the wire are lost), `Vanish` the
`RunNotFoundError` in the middle of a replay.

Abstractions. There is no read timeout by default, so a client of a run that crashed or
expired waits forever: `OutcomeIsDelivered` therefore promises nothing for an expired run.
One client, initial cursor `0-0`. Bounds: `MaxEvents`, `MaxDrops` (one more than the reconnect
budget in the run, so that the budget is exhausted).

### 2.3 `AgentConversation`

A turn is identified by its message; a turn that pauses creates one form, so form, tool call
and suspended snapshot carry the turn's name, and comparing names is comparing correlations.
`row` is the committed table: a row is named by the turn that inserted it and has a scope
(`NullScope` for previews and resumes, the published configuration otherwise: `SessionScope`,
`ResumeScope`). `Load`, `StartRun`, `RunSucceeds` and `CreateForm` are the steps of the worker
thread up to its save; `CheckForm` and `MarkSubmitted` are
the two transactions of a submission, `ReadTimeout` and `WriteTimeout` those of the timeout
job; `EnqueueResume` hands a turn to Celery, `TakeResume` starts it.

The save (`save_active_snapshot`, `session_store.py:141-182`) is the transaction it is under
PostgreSQL's default isolation, READ COMMITTED (the code sets no other): `SelectRow` reads a row
of the scope and with it the columns that the ORM will find changed (`Columns`); `FlushRow`
sends the INSERT or the UPDATE of those columns, once no other open transaction holds the row,
and selects the other active rows that are committed; `CommitSave` retires those, once nobody
holds them, and makes all of it visible (`Written`: the row as committed meanwhile, with the
columns that were sent). The partial unique index makes a second insert into a configuration's
scope wait or fail (`Duplicate`) and lets any number of NULL scopes in. The flush and the second
SELECT are one step: between the two nobody can commit to the row that is locked, and a commit
to any other row is also possible just before the flush, with the same result. A transaction that
loses a deadlock, or meets a duplicate, is `SaveFails`. `overlap` is a history variable: the
turns whose save was open together with another one. Only their snapshots may carry another
turn's correlation (`AnswerMatchesSnapshot`), and only they may leave several active sessions; the
next save that is alone retires all but its own (`SaveLeavesOneSession`). The run reaches
both exceptions: without `overlap` in its formula either property is violated there.

Three environments, chosen by constants. `Debug`: the console preview, which uses the NULL
scope for its turns. `Orderly`: people and deadlines act only when the conversation is at
rest, and not while another of them has read the form and is about to settle it. `Faulty`:
saves, enqueues and worker threads may fail. The second half of `Orderly` is needed: when two
people have both found a form waiting, the second to write enqueues a second resume, which finds
the session answered and gives its run no answer (section 7).

Abstractions. What the backend does with a
suspended snapshot that gets no answer is left open: the run ends in any way. Bounds: the
messages, `MaxSnapshot` configurations, and a form is settled only while a message id is left
for the resume.

### 2.4 `TenantQueue`

`pc` follows each job from its submission through the task that runs it to the hand-over;
`hold` is what a task that ended has pulled. `ReadFlag`, `Push` and `Start` are
`_send_to_tenant_queue` (`services/document_indexing_proxy/batch_indexing_base.py`); `Pull`,
`EndPull`, `PassOn` and `ClearFlag` are the `finally` block of
`tasks/document_indexing_task.py`; `ExpireFlag` is the time to live of an hour; `Die` is a dead
process or a broker that refuses.

`Stage` is where a tenant sees a job: submitted, waiting in the line, taken by a task that ended,
sent, or lost. `JobContract` knows stages and line only: `Push` is its `Wait`, `Pull` its `Take`,
`Start` and `PassOn` its `Send`, `Die` and a refused `Start` its `Lose`, which spares the line; the
flag is not seen at all.

Abstractions. Refreshing the flag and sending are one step, as sending commutes with the
commands of other tasks. Entries in the legacy string format, the choice of the Celery queue by
billing plan and the job's own work are left out. `hurt` is a history variable: a process died
or the broker refused.

### 2.5 `AppGenerate`

`slots` is the app's hash of active requests, `old` those stamped more than ten minutes ago,
`charge` the reservation. The path of a request is `new`, `count`, `put`, `commit`, `work`,
`stream`, `done`; a streamed workflow (mode `workflow`) goes through a second enter and an
exit in `rate_limit_context` first (`recount`, `reput`, `inside`). `Fail`, `Refund` and `Drop`
are the exception paths. `Count` and `Put` are the two Redis commands of `enter`.

Abstractions. The app's limit is constant (an administrator's change, and the copies of the
limit in process and Redis, are left out). `flush_cache`'s HGETALL and HDEL are one step. The
billing service is external: reserve answers yes, no or not at all, commit and release may
fail. A blocking request is a `plain` one that ends from `work`. A streaming response that is
never iterated keeps its slot until it ages: that is the same state as a dead request, `Die`.
`loose` is a history variable: two requests entered at once, or a slot has aged.

### 2.6 `RunEvents`

The events of a run are numbered as they are published (`published`). What is between the topic
and a listener is its `wire`: `Broadcast` appends to the wire of each listener that is `reading`,
which for pub/sub is from the SUBSCRIBE on, and for a stream while an XREAD is waiting or once
`last_id` is `fixed` to an entry. `Submit`, `StartByTimer` and `OnSubscribe` are the start of the
Celery task (`_build_streaming_task_on_subscribe`). `LookUp` is what the task does before it has
a stream of events: it may end there without a word. `Publish`, `PublishTail`, `TaskFails` and
`PublishFailure` are `_publish_streaming_response`, which publishes all that its stream yields,
with the failed `workflow_finished` that it sends for a stream that broke before a terminal
event; the chat pipelines go on after a pause or an end with `error`, `message_end` and audio
events (`PublishTail`), also while another task has resumed the run. `Resume` is the task that
goes on after a pause. `ListenPubSub`, `SendRead` and
`ReadStream` are the listener threads; `Receive`, `FindClosed`, `Idle`, `Disconnect` and
`PublishClose` are the response and `close()`. `Terminal` are the events that end a response:
none at all with `continue_on_pause`, for which the service API passes an empty list.

Abstractions. The Redis SUBSCRIBE is in force when `__enter__` returns. The idle timeout
fires only when nothing can come any more (`Silent`), which is the interesting case: earlier
it is `Disconnect`. Retention and MAXLEN of streams, `count=100` of XREAD and pings are left
out. A run pauses once, and is resumed after its pause was published (the code stores the pause
first, so that a very quick answer could start the next task before that). Of the events only
the number matters, and which are the pause (`pause`) and the end (`ended`).
What a response has sent is forgotten when it is over, as no property looks at it then.
`dropped` (an overflow) and `early` (the timer fired) are history variables. Bounds: `MaxEvents`
before the end, or before the task fails; one event more after the end; `QueueMax` in place of
1024, the watchers.

### 2.6.1 `RunSnapshots`

Responses that ask with `include_state_snapshot`. `ReadRun` is what `build_workflow_event_stream`
reads from the database before it subscribes. `Subscribe` opens the subscription of `RunEvents`
and starts the buffering thread (`Move`, `StopMoving`), which discards `SIG_CLOSE` and drops the
oldest event of a full buffer; `SendSnapshot`, `SendLive` and `GiveUp` are the generator. Of what
the snapshot says only one thing is in the model: whether the run was found paused, which ends a
response that does not continue on a pause. It is not a prefix of the events: text chunks,
iterations and logs are never stored, node executions are stored by another Celery task, and the
answer of a message is saved only when its run has ended or was found paused, after the pause was
published (`generate_task_pipeline.py:708-720`, `:811`). So no property says that snapshot and
live events together are the whole run; what is promised, and checked, is that the live part
begins where the response subscribed (`since`, a history variable) and leaves out nothing.

Abstractions. The reads of run, pause and node executions are one step. The buffer's drop and put
are one step: the response can only take an event in between, which leaves room. Bound:
`BufferMax` in place of 2048.

### 2.7 `AgentNetwork`

A round is a user message with the assistant message planned for it, and names its task, its
pseudocode and the graph compiled from it. `used`, `asked`, `status`, `ran` and `conv` are the
database rows, `draft` is the workflow draft; `view`, `canvas` and `hash` are per tab, as are
the flows `planning`, `applying`, `executing` and `clearing`, each with the local variables the
code keeps over its awaits.

The requests that write several rows are transactions under READ COMMITTED, statement by
statement. `mark_message_applied` loads (`MarkLoad`; a plan whose task is gone is refused), its
UPDATE finds the applied rows (`MarkFind`), waits for the locked ones and locks those of them
that are applied still (`MarkSweep`), and it commits (`MarkCommit`); the commit writes only the
columns that differ from what was loaded, as SQLAlchemy does. `clear_messages` loads
(`ClearLoad`), its DELETE finds the messages (`ClearFind`), waits for the locked ones, removes
what it found and commits (`ClearCommit`). `create_message` is one step at its commit
(`StorePlan`): between its INSERT and the commit nobody sees the new row, and the task's row is
locked by the foreign key, so that a DELETE waits. What such a DELETE has not found survives: a
plan stored meanwhile stays without its task (`parent_message_id` is set to NULL: the round is
not in `asked` any more), a task submitted meanwhile stays. `Saved` and `NotSaved` are `performSync` with the draft's hash
check. With `Faulty`, any request or reply may be lost and an apply may throw.

Abstractions. Every round has a text of its own; error messages, the message page limit,
collaboration and read-only mode and edits of the graph by hand are left out. A draft's hash is
its content. The draft request, its processing and its reply are one step, and so are
`apply-failed`, `execution-result`, message creation, and `loadHistory`'s read and display. An
UPDATE or DELETE takes its row locks at once, when all are free; a request that PostgreSQL
aborts for a deadlock is one that failed. A tab has one execution and one clear under way. `raced` is
a history variable: `"overlap"` when mark and clear transactions overlapped, `"outlived"` when a
clear committed and a task was left that had been submitted since its DELETE began. `MaxActs` bounds what people do; the flows they
start run to their ends.

### 2.8 `AgentNetworkCommands`

Extends `AgentNetwork`: its actions, unchanged, interleave with the command store's and the
consumers', and both write `canvas`, `draft` and `hash`. `row` and `posted` are the Map of
`command-store.ts`, `handling` is what the tab that was handed a command does with it, `polled`
the last answer in the query cache of the page. `Post`, `Claim`, `Query` and `Report` are the
route's handlers, each of which first removes expired commands (`Kept`); `ApplyCommand` and
`SaveCommand` are the consumer's `applyCompiledGraph`, with the await of the draft save between
them. `Reopen` is a consumer that is mounted again while the query cache still holds its last
answer.

Abstractions. A command's graph is named by a round that the panel does not plan. The store
belongs to one web server process; with several each has a store of its own. `Age` is the ten
minutes passing for one command and counts as an act. A tab is left and reopened only while
nothing of it is under way; when the page is loaded again (`Forgotten`), its commands are lost.

### 2.9 `CollabRoom`

`hash`, `map` and `key` are Redis; `link`, `leads` and `rejoin` the clients; `run` has the
handlers that are under way, each at one of the steps of `Step`. A step is a decision with the
reads it rests on, or the writes that follow. `Enter` to `Status` are
`authorize_and_join_workflow_room`, `Leave` to `Vacate` `disconnect_session`, `Ensure` to `Route`
the relays; `List`, `Prune`, `Pick`, `Install` and `Tell` are shared
(`_prune_inactive_sessions`, `broadcast_online_users`, `broadcast_leader_change`).

Abstractions. One process with one greenlet per event, as the Socket.IO server runs. Events of
people who may not open the workflow change nothing and are left out, as are the contents that
are relayed. A socket that reconnects has a new sid, used once. A leader that was chosen is told
by one broadcast. `raced` is a history variable: a handler ran beside another one, or a key
expired under one. `MaxTrouble` bounds both together, an overlap counting twice; `Greenlet` how
many run at a time.

Time is in `Lapse` only: which key may expire next. `refresh_session_state` refreshes the room's
hash and then the sender's mapping, so the hash outlives every mapping but that of the session
refreshed last; `late` has the sids of which that may be so (several only after overlapping
refreshes). Whoever writes or refreshes the leader's key did so after its holder's mapping was
refreshed, except that a leader that joins again, after a 401, refreshes its session alone
(`get_or_set_leader` returns at line 164): `keyOld`. While a hash that has just been created has
no time to live the model may still let it expire; that only adds behaviours with `raced`.
`orphan` is a history variable: whose leadership expired in Redis, until a broadcast, its own
status or its disconnect tells it.

## 3. What the runs check

State counts are distinct states; every run ends within three minutes with two workers.

| Run (cfg) | Instance | States | Properties |
|---|---|---|---|
| `agent_runs` (`AgentRuns.cfg`) | 2 runs, one of them streams an event, one meets lost calls or expiry | 677,000 | `ShutdownCoversEveryTask`, `TerminalStatusHasEvent`, `GracefulShutdownSettlesRuns`, `OnlyShutdownOverrules`, `ImplementsContract`, `ShutdownCompletes`, `EveryTaskEnds` |
| `run_stream` (`RunStream.cfg`) | 5 events, pages of 2, budget of 2 reconnects, 3 drops | 11,700 | `ExactlyOnceInOrder`, `StopsAtOutcome`, `OutcomeIsDelivered` |
| `conversation_races` (`AgentConversation_races.cfg`) | published app, 3 turns, 1 submitter, 2 configurations, anything may overlap and fail; symmetry | 3,125,000 | `TypeOK`, `AnswerMatchesSnapshot`, `SaveLeavesOneSession` |
| `conversation_preview` (`AgentConversation_preview.cfg`) | preview, 4 turns, 2 submitters, orderly, no faults | 122,000 | `ResumeCarriesAnswer`, `KeepsContext`, `AnswerDelivered` |
| `conversation_published_resume` (`AgentConversation_published.cfg`) | published app, 2 turns, orderly, no faults | 439 | `ResumeCarriesAnswer`, violated (section 6) |
| `tenant_queue` (`TenantQueue.cfg`) | 4 jobs, concurrency 2, expiry, deaths | 26,000 | `OnePlaceEach`, `FlagHasTask`, `ImplementsContract`, `WaitingJobSent` |
| `app_generate` (`AppGenerate.cfg`) | 3 requests, both modes, limit 2; symmetry | 1,900,000 | `FinishedHoldsNoSlot`, `LimitRespected`, `RefusedNotCharged`, `NoSpuriousRefusal` |
| `run_events` (`RunEvents.cfg`, module `RunSnapshots`) | both transports, 2 responses, a pause, at most 4 events, queue and buffer of 2 | 1,220,000 | `AllTypesOK`, `NoGap`, `EndKept`, `RequesterSeesAll`, `LateWatcherSeesAll`, `AllThreadsEnd`, `EndAnnounced` |
| `run_events_cutoff` (`RunEvents_cutoff.cfg`) | 2 live responses, at most 4 events, queue of 2 | 17,000 | `NotCutOff`, violated (section 6) |
| `agent_network` (`AgentNetwork.cfg`) | panel and commands together: 2 rounds or commands, 2 tabs, 5 acts, any fault; symmetry | 1,319,000 | `AllTypesOK`, `OneAppliedPlan`, `TaskOfAppliedPlan`, `ResultForItsTask`, `HandedToOneTab`, `NeverReopened` |
| `agent_network_execute` (`AgentNetwork_execute.cfg`) | panel alone: 2 rounds, 1 tab, 6 acts, no fault | 3,800 | `ExecutesTaskOfCanvas`, violated (section 6) |
| `collab_room` (`CollabRoom.cfg`) | 2 sockets, 2 handlers at a time; 3 expiries, or an overlap and an expiry | 629,000 | `Agreement`, `LeaderStays`, `LeaderRecovers` |

The types of `AgentRuns`, `RunStream`, `TenantQueue`, `AppGenerate` and `CollabRoom` are not
checked again by their runs, as they are proved (section 5).

Deadlock is not checked: all of these systems stop of themselves (a run ends, a server shuts
down, a response is over), and the bounds stop them too. What must not stop is stated as a
liveness property instead.

Why the bounds are enough.

- **Two runs** are what the scheduler's code distinguishes: one that is being created, ends
  or is marked while another is in any state. `MaxFaulty = 1` lets one run fail in every way
  while the other must still be settled. Only one run streams an event, which keeps the
  liveness check small; the runs are the same otherwise.
- **Five events in pages of two** give a full page, a partial one and an empty one, before
  and after the change to live reads; three drops exhaust the budget of two reconnects.
- **Three turns** are the least in which a pausing turn, a turn that overtakes it and a
  resume meet; two configurations make two scopes besides NULL. Four turns in the preview give
  two pauses, one after the other, and two submitters a person each to answer them.
- **Four jobs, two at a time** give a task that pulls two, one that pulls one, and one that
  finds nothing, with a submission in between.
- **Three requests, limit two** give a refusal, two enters at a time, and a slot that ages
  under both.
- **Two responses** are needed for one to close on the other, and to have one that starts
  the task and one that joins late. Queue and buffer of two overflow with three events, and can
  hold the end and one event after it; a start, a pause or an end, and what follows them, are the
  events that the code tells apart. With two events before the end the pause is the second, and
  the first task's tail has no room left; `EndKept` and the other invariants are proved for any
  number (section 5). Both transports are initial states of the same run.
- **Two rounds and two tabs** give a plan that replaces another, or meets a command, and a tab
  that has not seen it. Five acts are enough for plan, plan, apply, apply, clear, or for a
  command posted, lost by a reload and expired beside a plan. The panel alone was
  checked once with six acts (2.6 million states).
- **Two sockets and two handlers** give a leader and one successor, and each pair of handlers
  in each order. Three sockets with one overlap were checked once for `Agreement` and `LeaderStays`
  (485,000 states), so that there are two to choose a successor from.

## 4. Fairness

Weak fairness everywhere, of what the process itself does. Nobody is obliged to act: clients,
people, publishers of configurations, shutdown requests, failures and crashes have no fairness.

- `AgentRuns`: the event loop schedules ready coroutines, Redis executes what it received,
  the grace period ends, an agent ends (HTTP calls have timeouts, the number of its requests
  a limit). Weak fairness is enough for the lock, as `asyncio.Lock` is first come first served
  and there are finitely many runs. Both liveness properties allow for a crash.
- `RunStream`: both event loops run. Nothing makes the run emit: `OutcomeIsDelivered`
  starts from a run that has its outcome.
- `AgentConversation`: worker threads run, Celery delivers, the backend ends every run.
- `TenantQueue`: proxies, workers and broker go on and task bodies end; the flag need not
  expire and no submission is owed.
- `RunSnapshots`: a task that has its stream goes on to its terminal event or dies, threads are
  scheduled, the idle timeout fires. It is stated as one weak fairness condition over the disjunction of these
  steps (`Progress`). There are finitely many of them: each moves an event on, or a response,
  thread or task nearer to its end, and none can be repeated for ever, so that each that stays
  enabled is taken in the end, as under a condition for each. An XREAD that times out and is
  sent again (`SendRead`) can be repeated, and is left out. Nobody has to resume a paused run,
  ask, join or leave, and Celery need not deliver a task.
- `CollabRoom`: handlers go on (weak). The pings of a socket notice that it is lost, and the
  server starts the handler: strong, because the bound on overlaps makes the model start a
  handler only while no other runs, where the code may at any time. That an open editor keeps
  sending events is an assumption on the environment, without which the
  code elects nobody.
- `AgentNetworkCommands`: none, as its properties are about steps.

## 5. What is proved

TLAPS checks every leaf of eight proof modules, with no assumption beyond the named ASSUMEs of
the modules (types of the constants, finiteness of `Runs` and `Request`); TLC evaluates those in
the runs.

**`AgentRunsProofs`** (any finite set of runs, any bounds, crashes and faults included)

- `TypeCorrect`.
- `ShutdownSafe`: `ShutdownCoversEveryTask`. It is not inductive: that shutdown misses no
  task depends on who holds the lifecycle lock. `AdmissionInv` adds that a `create_run` that
  awaits the store holds the lock, alone; that every live task is registered; and which tasks
  are left in each phase of shutdown.
- `StatusFollowsStream`: `TerminalStatusHasEvent`. The status is stored long after the
  event was sent, so `OutcomeInv` adds that the event is in the stream from the step in which
  the coroutine can know that it was appended, and that a run with a final status is in no step
  that could append anything but shutdown's failure.
- `FinalStatusStands`: `OnlyShutdownOverrules`, an action property, from the same invariant.
- `StoreImplementsContract`: the refinement `ImplementsContract`. The initial states map to
  those of `RunContract`, and every action to one of its steps or a stutter. Whether a store
  call is a step of the contract depends on what Redis holds when it is executed, so
  `ProgressInv` says of each run how far its coroutine is and what is in Redis at that point,
  and `PendingInv` that shutdown fails admitted runs only.
- `ShutdownSettlesRuns`: `GracefulShutdownSettlesRuns`. `CancelledInv`: a run whose task was
  cancelled stays on shutdown's list until it was failed. `SettledInv`: without a fault, the
  coroutine that works for a run ends with the status and the event that it stored.

**`RunStreamProofs`** (any page size, budget and length of the stream)

- `StreamTypeCorrect`; `YieldsExactlyOnceInOrder`: `ExactlyOnceInOrder`. `ResponseInv`: a
  response is open exactly while the client reads it, and what is on the wire leads from the
  client's cursor to the server's, over pages, the change to live reads, drops and reconnects.
- `ReturnsWithFirstOutcome`: `StopsAtOutcome`. `WireInv`: what is on the wire are entries of the
  stream, which only grows until it expires (`RunAppends`), and a client that returned has no
  request under way that could make it read again.
- `FollowedRunKeepsContract`: `RunStream` implements `RunContract` for its one run.
- `ContractStatusHasEvent`: in every behaviour of the contract, a final status has its event,
  and a failed one is the last. The invariant is inductive because after an outcome only
  `run_failed` may be reported, and `Settle` follows the last event.

**`AgentConversationProofs`** (any messages, people, configurations, all environments)

- `ConversationTypeCorrect`, with the fact that an active row has a snapshot.
- `AnswersMatch`: `AnswerMatchesSnapshot`. The correlation travels through rows, threads
  and forms; `CorrelationInv` says that it is paired with its snapshot at each stop, or the
  snapshot was saved in an overlap.
- `SavesLeaveOneSession`: the action property `SaveLeavesOneSession`. `AloneInv` says that two open
  saves are both in `overlap`, and that for a save that is not, the columns it will send and the
  rows it will retire are still those that a select would find; `RowInv`, that it writes its own
  row or one of its scope. Both properties need all of it: the row a save writes is the one it
  read, changed by nobody else, exactly when it was alone.
- `PreviewResumeCarriesAnswer` and `PreviewKeepsContext`: `ResumeCarriesAnswer` and the action
  property `KeepsContext`, in the environment of the run `conversation_preview` (`Preview`: debug,
  orderly, without faults), for any number of messages, people and configurations. Both come from
  `PreviewInv`: one turn at a time, and one submitter about to write (`OneAtATime`); all turns use
  the one row there is (`OneScope`); a form that waits has a turn that is about to save, or nothing
  runs and the row is suspended on it (`FormInv`); who is about to settle a form still finds it
  waiting (`SettlerInv`); the row stays suspended on a settled form until the resume loads it, and
  what a turn loaded stays stored until it saves, which it does alone and to that row
  (`CarriedBy`, `LoadedBy`, `SavedBy`).
- `PublishedResumeMissesAnswer`: what goes wrong in section 6, item 1, for every instance and
  with faults and overlaps allowed: in a published app a resume is never given the answer to what
  a user's turn asked. `PublishedInv` follows the NULL row: nobody but resumed turns reads or
  writes it, so the only correlation it can ever hold is one that a resumed turn asked.

**`TenantQueueProofs`** (any number of submissions, any concurrency)

- `QueueTypeCorrect`.
- `EveryWaitingJobHasOnePlace`: `OnePlaceEach`, with expiry and deaths. `ListInv`,
  `HandsInv` and `NoneDropped` say that the list and the hands of tasks name waiting jobs only,
  none twice, and each that waits; `Holders` which tasks hold any.
- `FlagIsNeverLeftBehind`: `FlagHasTask`, while no process died and the broker refused nothing.
- `QueueImplementsContract`: the refinement `ImplementsContract`, a lemma for each action that
  the tenant sees. That a pull takes one job out of the line and no other needs `ListInv` (a job
  stands in it once); that what is passed on or dies with a task is not in the line, `HandsInv`.

**`AppGenerateProofs`** (any finite set of requests, any limit)

- `GenerateTypeCorrect`.
- `NoSlotLeft`: `FinishedHoldsNoSlot`, by `SlotsHeld` (nor does a request hold a slot before
  its first put).
- `RefusalsHaveCause`: `NoSpuriousRefusal`, by `OneEnter` and a counting argument: the slots
  counted are those of others.
- `RefusalsAreFree`: `RefusedNotCharged`, by `ChargedLate`.
- `LimitHolds`: `LimitRespected`, by `RoomForOne`: as long as nothing has raced or aged,
  whoever has counted has room for its put.

**`RunSnapshotsProofs`** (any responses, any length of a run, any bounds, both transports)

- `SnapshotTypes`: `AllTypesOK`, with the bounds of queue and buffer.
- `NoEventSkipped`: `NoGap`. An event passes through a listener's wire, its queue and, for a
  response with a snapshot, a buffer, before it is sent. `Ordered` says that these four hold
  events in the order of publication, each and one after another, which Redis streams keep
  although an XREAD may start over from "$": until an entry was seen, `ControlInv` says, nothing is
  on the way. `KnownInv` says that what a response has sent or still has ahead of it has no hole
  unless it overflowed, and reaches up to what was published last as long as somebody reads.
  `SentInv` is what remains of that for the events sent, when the rest is thrown away at the end.
- `RequesterSeesTheRun` and `LateWatcherSeesTheRun`: `RequesterSeesAll` and `LateWatcherSeesAll`,
  both by `Whole(w, k)`: nothing from event k on was published before w listened. The
  requester is a case with k = 1, a snapshot one with the first event after its subscription,
  before which `KnownInv` says it has nothing.
- `EndOfRunKept`: `EndKept`, by the last part of `KnownInv`: a listening response has every event,
  from the first it has, after which as many were published as still leave room (`Room`). An
  overflow drops the head of a full queue in order, and by `RisingLong` (a full queue has as
  many different numbers as its bound, all below the one that comes in) that event has no room.

**`AgentNetworkProofs`** (any rounds, any tabs, any bound, any fault; then with any commands)

- `NetworkTypeCorrect`, with the fact that no result is stored without its plan. Needs `LockInv`:
  what a transaction holds is applied, and held by it alone; one tab waits for a round.
- `TaskFollowsPlan`: `TaskOfAppliedPlan`, for transactions that overlap in any way, with plans
  that lose their task to an overlapping clear among them. The commit writes id and task
  separately, each only if it differs from what was loaded. `Paired` says of the row that an id
  goes with its task and that a task that stands alone has no user message; as a plan without
  its user message is refused when it is loaded, each open mark will write both columns or
  neither (`WritesBoth`). Excepted are behaviours in which a task outlived a clear (section 7).
- `ResultsHoldTheirTask`: `ResultForItsTask`, with the same exception. `ResultInv` adds that every copy in a tab is
  paired, and what an execution carries with it.
- `AppliedPlanIsLinked`: `OneAppliedPlan`. `LinkInv`: while nothing overlapped, at most one
  transaction is open, what it loaded is what is stored, and the rows its UPDATE or DELETE found
  include all the applied ones.
- `CommandsTypeCorrect`, with the fact that a command that waits in the store was handed to
  nobody.
- `TaskFollowsPlanWithCommands`, `ResultsHoldTheirTaskWithCommands`,
  `AppliedPlanIsLinkedWithCommands`: the panel's three invariants in the composition. The steps of
  the panel are those of `AgentNetwork`, so its lemmas are cited; a step of the commands changes
  the canvas and the draft and none of the rows.
- `CommandStaysWithItsTab`: `HandedToOneTab`; `SettledStaysSettled`: `NeverReopened`, both action
  properties.

**`CollabRoomProofs`** (any sockets, any number of handlers and overlaps)

- `RoomTypeCorrect`, with the facts that a handler that evicts or installs does so to somebody.
- `EditorsAgreeOnLeader`: `Agreement`: a present leader knows that it leads, and no other present
  editor believes it but one in `orphan`. `RoomInv` holds until a handler is overlapped or a key
  expires under one: the handler that runs is alone, and what it read is still so (`ReadInv`: the
  leader it evicts is the one in the key and is not active, the successor it installs is not the
  one that left). An editor that joins is excused from agreeing until it gets its status, and
  every editor while a change is about to be told; with no handler running nobody is excused.
- `ActiveLeaderStays`: `LeaderStays`, an action property, from the same invariant: of a handler
  that is about to make somebody leader, `ReadInv` says that the leader it found inactive, in an
  earlier step, still is. No handler replaces an active leader; its key may only expire, when it is
  older than its holder's session (`keyOld`).

**Only model-checked**: the liveness properties (`ShutdownCompletes`, `EveryTaskEnds`,
`OutcomeIsDelivered`, `AnswerDelivered`, `WaitingJobSent`, `AllThreadsEnd`, `EndAnnounced`,
`LeaderRecovers`), as liveness under fairness is out of the prover's reach, and ENABLED with it.
Every other property that a passing run checks is a theorem.

## 6. Disagreements between code and documentation

Each is a run with `expect: violation`; the trace of the run is the scenario.

1. **The answer to a published Agent App's form does not reach the agent**
   (`conversation_published_resume`). `resume_after_form_submission`
   (`api/core/app/apps/agent_app/app_generator.py:229`) builds its entity without
   `agent_runtime_session_snapshot_id`, so the resumed turn looks for a session with a NULL
   scope. A published turn saved its session under its configuration. The resumed turn starts
   afresh without `deferred_tool_results`, and its save retires the paused session. The
   docstring at `app_generator.py:177-178` says that the reply is threaded into the run.
   Previews do use the NULL scope: there the same property holds (`conversation_preview`). Neither
   is an accident of the instance: `PreviewResumeCarriesAnswer` and `PublishedResumeMissesAnswer`
   are proved for every one (section 5).
2. **A watcher that leaves breaks the other responses of a run** (`run_events_cutoff`).
   `close()` publishes `SIG_CLOSE` on the topic that all subscriptions share
   (`api/libs/broadcast_channel/redis/_subscription.py:121`); every listener queues it and
   stops, and `json.loads` in `streaming_utils.py:51` fails on it. `channel.py:129` says that a
   subscription "should receive all subsequent messages published".
3. **A canvas is executed with another plan's task** (`agent_network_execute`).
   `executeCurrentCanvas` takes the task before it awaits the draft save
   (`chat-panel.tsx:312`) and exports the canvas after it (line 332). Another plan can be
   applied in between, as the Apply button is disabled by another apply only.
   `api/models/agent_network_conversation.py:38` says that `execute_code` must reuse the task
   of the active canvas.

## 7. Behaviours seen in the models that no property forbids

They follow from the code and contradict nothing it documents, or too little to make a run of
it; each explains a premise in a property.

- **Run server.** Shutdown appends `run_failed` after a `run_succeeded` that the cancelled
  task had already appended (`RunContract` allows it, and a client stops at the first).
  `guide/index.md:118-120` says that blank prompts are rejected before a run is persisted; the
  code rejects them in the run (`runner.py:179-180`), which fails it. Not modelled.
- **Forms.** A second submission, or the timeout job, that has read the form as waiting
  rewrites it after it was settled (`human_input_repository.py:604`), and a second resume is
  enqueued, whose run gets no answer even in a preview. `FormSubmittedError`
  (`human_input_service.py:108`) is raised by the check only.
- **Conversation.** Two saves whose transactions are open together do not see each other's
  rows: with different scopes, or two rows of NULL scope, both stay active, although
  `session_store.py:4-6` says that one conversation maps to one session; the next load picks
  one of them. If they write the same row, the one that found no correlation and writes none leaves
  the column out (`:166`), and its snapshot ends up beside the other turn's call: the answer to that
  call is then sent with a snapshot that does not wait for it. A turn started before a configuration was published saves the retired
  scope as the active one. A user's turn sent while a form waits clears the correlation: the
  form's answer then reaches no run, which is why `AnswerDelivered` is checked in the orderly
  environment.
- **Tenant queue.** Two submissions that both read the flag as clear start two tasks. A job
  pushed between the last pull and `delete_task_key` waits without flag or task for the end of
  a later task of the tenant; hence `UnderWay` in `WaitingJobSent`.
- **App generation.** Two requests that count at once exceed the limit (`loose`). Streamed
  workflows leave `rate_limit_context` before they stream (`app_generate_service.py:168`), so
  running ones are not counted against the limit that `configs/feature/__init__.py:92` calls
  "maximum number of concurrent active requests". Such a request can also be refused by its own
  first slot, after it was charged. A request that fails after the commit stays charged.
- **Run events.** With streams, events published before the first XREAD that returns are
  lost, since `$` is resolved by each XREAD, although `streams_channel.py:22` speaks of
  "at-least-once delivery for late subscribers" and `app_generate_service.py:46` of replay. A
  stream's listener that meets another subscription's `SIG_CLOSE` reads it again until its own
  subscription closes.
- **Snapshots.** An event that is published after the database was read and before the topic is
  subscribed is in neither part of the response, and of what came before only what is stored is
  in the snapshot (section 2.6.1). A foreign `SIG_CLOSE` does not break such a response, but
  silences it until its idle timeout. With `continue_on_pause` and without a snapshot nothing ends a
  response, as the empty list of terminal events (`controllers/service_api/app/workflow_events.py:147`)
  leaves out `workflow_finished` too.
- **Ends of runs.** What a pipeline yields after `workflow_finished` is published too, and can push
  it out of a full queue; it then also meets responses that have ended. A task that does not find
  its workflow or user (`workflow_execute_task.py:154-169`), or a resume that fails before it has a
  stream (line 622), publishes nothing, although a resume has cleared the pause by then; the
  docstring at line 351 calls the stream's helper the last place that can guarantee a terminal
  event, and it is not reached. Watchers then wait for the idle timeout (`task = "lost"`).
- **Agent Network.** Overlapping transactions of two tabs can leave two plans marked
  applied (an UPDATE misses the row that was marked by the request it waited for), or a pointer
  to a deleted message (`"overlap"` in `OneAppliedPlan`). A plan stored while a clear waits for
  its task's row outlives the task, is shown in the history and can never be marked applied
  (`agent_network_conversation_service.py:151`). A task submitted while a clear is under way
  outlives it; if it is planned and applied before the clear commits, the commit of the clear takes
  the pointer and leaves `applied_task`. A later mark of the same plan then writes the pointer
  alone, and, if another mark overlaps it, `applied_task` is the other plan's (found with the
  checker from such a state; `"outlived"` excepts this in `TaskOfAppliedPlan` and
  `ResultForItsTask`). The clear has to last as long as a `plan_code` call for it. A plan is marked
  applied although its draft save failed (`use-agent-network-workflow.ts:59`), while the
  endpoint's docstring expects the save to have succeeded
  (`controllers/console/app/agent_network_conversation.py:242-246`). `README.md:46` of the
  feature says that execution reuses the first planned task; the code uses `applied_task`.
  Clearing the history keeps `applied_task` and drops the pointer, after which the toolbar
  refuses to execute the canvas that is still there.
- **Commands from outside.** A claim has no lease: when its answer is lost, or the editor is
  closed before it reports, the command stays in processing until it expires and is handed to
  nobody else. An editor that is left and reopened within the life of the query cache applies its
  last command again, under the same tab (`Reopen`). `PATCH` overwrites any outcome, also after
  the ten minutes if nobody has removed the row. A command completes although its draft save
  failed, and replaces the canvas without changing the plan that is marked applied.
- **Collaboration room.** Without any overlap: a leader whose mapping expired joins again and
  refreshes its session but not its key (`workflow_collaboration_service.py:164`); the key expires
  under it, nobody is told, and the next join claims the leadership without a broadcast
  (`:171-174`): two present editors take themselves for the leader (`orphan` in `Agreement`). The
  hash can expire just before the last mapping; its editor is then listed nowhere, passes the
  relay's checks and may even hold the leader's key, until it joins again. With an overlap
  (`raced`): a join reports the
  leadership it computed before it refreshed the user list, so that the holder of the key may
  take itself for a follower, and drafts are saved by nobody. A handler that pruned by an older
  user list takes the leadership from a session that has just been told it leads: two believe
  it. A session that is pruned between its two writes keeps a mapping, passes every check of the
  relay and is never listed or told anything. A leader that left before it was
  entered is replaced at the next event.

## 8. What is not modelled, and why

- **Within the modelled components**: the abstractions listed in section 2.
- **Out of this repository**: the workflow engine (`graphon`), the plugin daemon, the billing
  service, model providers, the Agent Network service; `src/mock-agent-network-server.mjs` is a
  test double of the last.
- **Sequential translation**: the Agent Network compilers, the offline pipeline in
  `src/Dify_workflow`, RAG extraction and splitting. They keep no state between calls. The
  compilers' round trip is a candidate for a module of pure functions.
- **Row-at-a-time services, controllers, models, migrations**: no protocol between steps.
- **The rest of the web front end, command line, SDKs, deployment, end-to-end tests**:
  rendering, thin clients and build material.
- **Planned**: section 9.

## 9. Plan

Order of construction: the run server and its contract first, as everything this fork adds
runs through it; then its clients (`RunStream`, `AgentConversation`); then the shared queues,
limits and channels of the API; then the Agent Network panel, the commands that reach it from
outside, the snapshots of run events and the collaboration room. That much is done. Next:

1. **`WorkflowPause`**: the workflow side of human input (`tasks/app_generate/workflow_execute_task.py`
   from line 469): pause, submission, form timeout, global timeout, resume. Shares its
   form actions with `AgentConversation` and its topic with `RunEvents`. Property: a run is
   resumed at most once per pause and does not stay paused with all its forms settled.
2. **`DocumentIndexing`**: pause, recover, retry and delete against a running task. Most steps of
   the code read a row and write it back without a check, so that the properties that hold are
   few; which ones is to be found out first.
3. The migration lock; the schedule poller; the credit pool; the queue manager's stop flag; the
   device flow.
4. **`Compositor`**: enter and exit of the Agenton slots (`agenton/compositor/run.py:127-245`),
   abstractly specified as "each entered layer is exited once, in reverse order", to be used
   under `AgentRuns`.
5. **Pure functions**: the compilers' round trip on small graphs.

To be proved next: that each single run of `AgentRuns`, seen through `record`, `log` and
`expired`, takes steps of `RunNext` and `Expire` of `RunStream`, so that the two modules are
joined by a theorem and not through the contract's wording.

## 10. Running it

    tlc -workers 2 -config AgentRuns.cfg MCAgentRuns.tla
    tlapm AgentRunsProofs.tla

and likewise for the others; `PROJECT.json` lists for every run its module, its configuration
and its properties, for every property a mutant of the code that violates it, the hazards the
properties are for, and the theorems.
