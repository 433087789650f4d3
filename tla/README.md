# Verification of koraku-cloud

TLA+ models of the parts of koraku-cloud in which concurrency, failure or order
decide whether the program is right: the buffers and checkpoints of detached runs,
the turn of the agent and its streams, the session and what surrounds a turn, the
iMessage channel, automations and what triggers them, the files and accounts the
tools work on, and the chat page in the browser. Each module is translated from the
Python or TypeScript source; `PROJECT.json` ("map") names the lines of every
definition. TLC checks the models on small instances; TLAPS proves the theorems for
all values of the constants.

    tlc -workers 2 -config MCRunBuffers.cfg MCRunBuffers.tla
    tlapm RunBuffersProofs.tla

## 1. The system

The backend (`koraku/`, `koraku_cloud/`) is a FastAPI application, run as one
process without Redis or as several with it. The browser runs the chat page
(`web/`), which reaches the backend through routes of its own. The table lists the
parts that keep state; `PROJECT.json` ("components") has the same list with what is
left out of each.

| Part | State it keeps | Operations | Hard because |
|---|---|---|---|
| In-process run buffer (`core/detached_run_store.py`) | retained chunks, next id, done flag, one bounded queue per subscriber | `append`, `finish`, `subscribe` | readers come, leave and come back at any moment; full queues; trimming |
| Redis run buffer (same file) | list, counter, done mark and record of the run in Redis, a pub/sub channel | the same, each several awaits | list and channel overlap and leave gaps; the worker dies; keys expire |
| Detached runs (`koraku_cloud/api/detached_runs.py`) and checkpoints (`core/run_checkpoint.py`) | record of the run, two copies of a checkpoint, worker task, GC task | `POST /runs`, `_run_worker`, `save/load/mark_checkpoint_completed`, `drop` | look-then-register over awaits; processes that die; a local copy that grows old |
| Agent turn (`agent/run.py`, `tool_executor.py`, `delegation.py`) | messages, step count, pins, tool calls, permits, cancel event, the loops of delegated workers | rounds, tool phase with retries and a time limit, delegation, resumption | cancellation at any await; permits held while waiting for permits |
| Context window (`agent/context_manager.py`, `context_pins.py`) | none of its own | five passes over the messages | they must not separate a tool call from its result, or lose the question |
| Model streams and client events (`llm/`, `streaming/koraku_sse.py`, `credits/`) | held-back text, open blocks, suppressed indexes, usage | attempts, filter and parser of inline calls, mapping to events | chunks cut anywhere, broken attempts, parallel workers on one connection |
| Chat stream (`api/chat_routes.py`) | producer task, bounded queue, cancel event, disconnect watcher | `emit`, keepalive, end mark, settlement | slow or vanished clients; an end mark that does not fit |
| Rate limiter (`core/rate_limit.py`, `redis_async.py`) | window counters in Redis or in the process, a cached client | `enforce_rate_limit` | fallback between the two |
| Credits (`credits/service.py`, `store.py`, `integrations/supabase_admin.py`) | balance, limit and ledger of an organisation, its suspension | check before a run, settle after it; grants, limits and suspensions by operators | nothing is reserved in between; repeats; a period that ends between two calls |
| Sessions and history (`core/session_store.py`, `supabase_chat_history.py`) | sessions, rows of a thread | load, hydrate, save whole | last write wins; two sources of one history |
| iMessage channel (`channels/`, `sendblue_routes.py`) | claims of handles, the link of a phone, the shared agent, typing, bubbles | webhook, turn, bubbles, answer | repeated deliveries; several tasks that send |
| Automation runs (`automations/runner.py`, `supabase_store.py`) | automation row, run rows, a lock per process | queue, execute, finish, record, pause, patch | several triggers, several processes, calls that fail half-way |
| Automation triggers (`scheduler.py`, routes and tools that change automations, event routes, `webhook_guard.py`) | leader lock, jobs, the trigger at Composio, claims | tick, resync, create/patch/delete, events | syncs with rows read earlier; a leader that dies; repeated deliveries |
| Workspace files (`tools/registry.py`, `blaxel_dispatch.py`, `blaxel_lazy.py`, `file_attachments.py`) | files on the host or in the VM of the user, the cached VM and its lock, queued attachments | read, write, append, edit, build, export | parallel calls, read-then-write, a VM that vanishes |
| Connected accounts (`integrations/composio.py`, `core/ttl_cache.py`) | accounts at Composio, three caches per process | overview, connect with cleanup, prompt section, tools, calls | lists that are old when they are used or stored |
| Web client (`web/src/hooks/useKorakuChat.ts` and the thread routes) | threads, transcript, queues, streams, drafts; rows at the server | send, queue, resume, select, delete, refresh, persist | answers that come late; one transcript kept in two places |
| Organisation, profile and skills of a turn (`integrations/supabase_tenant.py`, `supabase_personalization.py`, `supabase_skills.py`, `tools/skills.py`, the settings routes) | rows of members, profiles and skills; four caches per process; `SKILL.md` files of a workspace and a catalog of them | resolve the organisation, read, list and load skills; save, upsert, delete | a row read before a save and stored after it; other processes' caches; one index for several organisations; times that do not change |
| Memory, web tools | rows of one user, answers of services | – | not modelled |

How they interact: `POST /stream` runs `_stream_agent_sse` for a connected client.
`POST /runs` registers a buffer and starts `_run_worker`, which iterates the same
generator and appends each of its SSE rows to the buffer; `GET /runs/{id}/stream`
subscribes to the buffer. The page starts detached runs, reads them from the start
whenever it resumes, and stores the transcript; the next turn takes its history from
the page or from what it stored. The agent leaves a checkpoint after each step and
marks it completed at the end of its loop; the next `POST /runs` of the turn id loads
it. Automations and iMessage call the agent directly. The limiter and the credits stand
before a run, and the settlement after it; between them a turn reads who it is for.

What makes each part correct:

- *run buffers*: a reader gets every chunk it is owed, in order, and only chunks that
  were trimmed may be missing; an ended stream is complete; every stream ends.
- *detached runs*: one worker per turn at a time, findable while it works; a resumed
  run starts where the last one was saved and skips nothing; runs are forgotten.
- *agent turn*: requests the model can read, with the question in them; a checkpoint is
  of the turn's own loop; permits come back; a turn ends.
- *model streams*: prose and only prose is shown, announced tools get results and are
  charged for once, no round is free or billed beyond what was reported.
- *chat stream*: what is billed is the whole turn; the session is saved before the
  stream ends; agent and stream end.
- *limiter, credits*: what is let in, and what is overdrawn, is bounded; what a period has
  used is what its ledger explains.
- *organisation, profile, skills*: a turn has the rows of its own user and organisation;
  skills that its prompt lists load; a saved profile is seen.
- *sessions*: a turn is asked after the earlier turns of its owner, and only those.
- *iMessage*: a message has one turn, a turn's answer reaches the user once and whole, and it
  gives back what it borrowed.
- *automations*: runs do not overlap; a run that is over has closed its row and nothing
  points at it; every failed row is counted once; no run hangs; the job agrees with
  the row; an event reaches an active automation, once.
- *files, accounts*: no successful write is lost; the latest content is sent; an
  active account survives the cleanup; caches come to agree with Composio.
- *web client*: what it shows and stores of a run is exact; stored turns stay; a message
  that waits is sent.

## 2. Modules

| Module | Models | Checked as |
|---|---|---|
| `RunStream` | what a run buffer promises a reader (abstract specification) | property of `run_buffer` |
| `MemoryRunBuffer` | the in-process buffer; implements `RunStream` | `run_buffer`, part `memory` |
| `RedisRunBuffer` | the Redis buffer; implements `RunStream` | `run_buffer`, part `redis` |
| `DetachedRuns` | `start_detached_run`, `_run_worker`, checkpoints, GC | `detached_runs`, part `runs` |
| `WebClient` | the chat page and the routes of threads and messages | `detached_runs`, part `page` |
| `ContextManager` | the passes of `process_messages` and the pins, as operators | through `AgentLoop` |
| `AgentLoop` | the step loop, tools, permits, delegates, checkpoints | `agent_turn`, part `loop` |
| `TurnStream` | model backends, filter, parser, client events, usage | `agent_turn`, part `stream` |
| `Workspace` | file tools of a turn, VM, attachments | `agent_turn`, part `files` |
| `ChatStream` | `_stream_agent_sse` with the agent's loop from await to await | `chat_stream`, part `stream` |
| `Admission` | limiter, credits, what operators change of them | `chat_stream`, parts `limiter`, `credits` |
| `OrgContext` | the organisation a request acts for, the cached reads of profile and skills, the settings pages | `chat_stream`, part `context` |
| `SkillCatalog` | the skills of a workspace without a product layer, and their cached catalog | `chat_stream`, part `catalog` |
| `ChatSession` | session stores, hydration, saving, the browser's rows | `chat_stream`, part `session` |
| `IMessage` | webhook, linking, a turn and its bubbles | `chat_stream`, part `imessage` |
| `AutomationRunner` | `queue_automation_run`, `execute_automation` and their rows | `automation`, part `runs` |
| `AutomationTriggers` | scheduler, changes of an automation, events | `automation`, part `causes` |
| `Connections` | accounts at Composio and the caches of them | `automation`, part `accounts` |
| `RunBuffers`, `AgentTurn`, `Conversations`, `Automations` | two to seven of the modules above side by side, and what is promised of them | `run_buffer`, `agent_turn`, `chat_stream`, `automation` |
| `MC…` | the instances that TLC checks: scenes, shapes and fairness | |
| `…Proofs` | theorems and proofs | |

`RunBuffers`, `AgentTurn`, `Conversations` and `Automations` put several modules side by
side (`PartInit`, `PartNext`, `PartSpec`), and so does `MCDetachedRuns`. A behaviour of
such a module is one of one *part*, chosen in the initial state; the variables of the other parts
stay as they are. So the parts do not interact, and a run explores the sum, not the
product, of their states. The properties are stated there, and the theorems are about
`PartSpec` or about the `Spec` of a part; an `MC…` module adds only the values of constants that a
`.cfg` cannot hold and the fairness. Where parts do meet in the program, a module has what it needs
of the other in small: `WebClient` has detached runs as a count of events that goes on
whoever reads, `ChatSession` the browser that persists its rows, `DetachedRuns` the
checkpoints of `AgentLoop` as a step count. Several modules take *scenes*: a set of
records, one chosen at the start, that say which actors there are and bound what may
happen.

Concurrency on the server is asyncio, in the browser the event loop of JavaScript: code
between two suspensions is atomic within a process. So an action is what runs from one
`await` that can suspend to the next, a task or handler is a program counter (`pc`,
`wpc`, `cpc`, `at`, …), and processes interleave at the awaits. `Connections` and the host
tools of `Workspace` run in threads; there an action is what runs between two calls of a
service or of the file system. Locks held over no suspension disappear into that
atomicity (`MemoryRunBuffer._lock`); a lock held over awaits is state
(`AutomationRunner.lock`, `Workspace.lock`). Data is abstracted to what the properties
tell apart: a chunk is its number, the text of a file the sequence of calls that wrote its
pieces, a message who wrote it and which questions can be read in it.

**MemoryRunBuffer.** `append` is one action, and so are the locked parts of `finish`
and `subscribe`. `finish` then puts one end-of-stream mark after the other
(`FinishPut`), each of which may wait for room. A subscriber sends what it replays,
then tails its queue. Two workers of one run are possible (section 4), so `Workers`
is a set. The history variables `start` and `got` are what a reader is owed and was sent.

**RedisRunBuffer.** One action per command: `append` is EXISTS, INCR, RPUSH with LTRIM
and PUBLISH in a pipeline; `finish` is SET, GET, SET, PUBLISH; `subscribe` replays the
list, reads the record, subscribes, then alternates between channel and polling. The
keys of a run expire when no living worker refreshes them. The channel is external: a
sequence per subscription. `RunStream` is implemented under a mapping in which a reader
that was sent a jump over trimmed chunks, or whose stream ended early in the one way
that `EndedIsComplete` shows, counts as one that left; chunks that come again are
left out by the id they carry.

**DetachedRuns.** The run is its record (`none`, `running`, `done`); the agent is a
step count with a checkpoint after every step. `backend` is chosen at the start:
without Redis the POST is one action, with it three. `ckMem` is the copy in a process
that `load_checkpoint` prefers, `ckRedis` the one all processes see. `saved` is a
history variable: the step a worker ought to start from.

**WebClient.** The page is one record, and what handlers call (`runOutboundJob`,
`tryDrainGlobalQueue`, `resumeStreamingTurns`, …) is an operator from page to page: a
handler runs them in a row. A turn is one entry of the transcript, its user message and
its answer; `shown` is the list of events it was built from. `list`, `queue`, `stream`,
`loaded`, `drafts` and `creating` are the refs of the hook; `due` are persists whose
timer runs; `drain` and `resume` are timers set with delay 0. Requests on their way are
state (`get`, `creating`, `deleting`, `posts`), and so is what the server has (`known`,
`rows`): the POST of messages is two steps, delete and insert. `fate`, `ever`, `torn`,
`rough` and `over` are history variables for the properties.

**ContextManager, AgentLoop.** A message is a record of who wrote it, the ids of its
tool calls, its results and the questions that can be read in it; every pass of
`process_messages` is an operator, composed in the code's order in `Request`. `AgentLoop`
runs the loop of the turn and those of workers over such messages: `at` says where a
loop is, `calls` what became of the calls of its round. A delegating call holds its
permit while its workers run. Aborts leave at any point; the next turn goes on with the
messages that were left, or resumes from the checkpoint.

**TurnStream.** Text comes in pieces: prose, the start and the end of an inline call, a
whole one, and text that may or may not be a start. `Feed` is the filter of
`llm/sanitize.py`, `Prose` the parser of `llm/tool_call_parse.py`, which is another
implementation of the same notion; `ShownIsProse` relates them. `[` and `]` are the halves of
a start that is cut where the filter lets its first half through (`Cut`). An inline call is
named by its place in the answer (`Numbered`), whatever round or worker it is of; a native one
has an id of its own if the provider sends any. Every chunk with usage counts. `sse` is
`KorakuStreamState`, shared by the streams of parallel workers; `given` (ids of
attempts that broke), `texted` (answers with calls in the text) and `billed` are history variables.

**ChatStream.** The agent's side follows `_iterate_react_steps` from await to await;
`Offer(n)` is n calls of `emit` in a row, with the events that do not fit dropped and
the cancellation that this brings. The generator's side is
`_yield_sse_events_from_queue` and what follows it. `mode` distinguishes `POST /stream`
(client, watcher, cancel event) from the worker of a detached run (none of them). The
branch of `_stream_agent_sse` for a task that is not done after the loop
(`chat_routes.py:520-533`) can not be reached and has no action: the loop ends on the
end mark, which is put in the step in which the task ends, or on silence once the task
is done. The client that leaves is met by `Abandon`, the cancellation of the generator
by the server, after which neither `settle_run` nor anything else in it is run.

**Admission.** `Limiting(r)` are the steps of `enforce_rate_limit` for request r,
`Charging(r)` those of the check, the run and the settlement. The limiter's clock has
buckets of `Window`, the ledger's has periods of `Month`. Two instances are checked, one
for each, since neither reads what the other writes. The operators act in requests of
their own: a grant is one call, the change of a limit is two, the second of which
may find the period over. `charged`, `granted`, `highest`, `unchecked` and
`peak` are history variables: what the rows of the ledger add up to, the highest limit
so far, who came in without a summary, and how many were in at once.

**OrgContext.** A thread takes up a topic in the process it runs in, for a user: a turn of a chat,
a run of an automation, or a request of the settings pages. It resolves the organisation
(`Named`, `Unnamed`, `AutomationStarts`), reads profile and skills (`Hit`, `Touch`, `Miss`, `Fetch`,
`Store`: what runs between two looks at a cache or a call) and prepares the prompt, or
writes a row and then drops the entry of its own process. A scene says where its two threads
are, for whom, and what they may be about. `ever`, `saved` and `crossed` are history
variables: who was ever a member, which save of a profile was answered last, and
where a save met another process' entry or a read that was not yet stored.

**SkillCatalog.** Somebody edits the directory of skills while prompts are built from it. A file
is its size and the time it was written, times are no finer than a tick,
and the files that come with the program are no newer than the directory. `See` is the look
at the times, `Build` the reading of the texts. `blurred` is a history variable: an
edit since `stamp` was taken left no trace in the times.

**ChatSession.** All turns name the same session. The memory store hands every turn the
same object (`mine`), Redis a copy. `get_or_create` runs in a thread and locks nothing: the
look, the deletion of another owner's session, the new one and the touch are steps of their own.
Hydration takes the history the browser sent, or the rows of the thread, which the browser
replaces whole when it persists. Rows are read by a time that those of one insert share: in any
order (`Orders`), and no more than the limit of them (`Latest`). `calm` and `shuffled` are history
variables.

**IMessage.** A delivery goes from the claim of its handle through the lookup of the
phone to the turn; bubbles, `ChannelSend` and the tail are tasks of their own. `Sends` is `send_message`, which answers
False when SendBlue refuses: nobody looks at it, and `refused` remembers the piece. Linking
a phone looks the code up, looks for a link (a failed lookup is read as none, and makes a
new thread), upserts, and reads the link back (`Confirm`, `LinkPhone`, `Verified`). `manager`
is the context manager of the agent that all turns of a process share. `refused`, `met`,
`crossed` and `began` are history variables.

**AutomationRunner.** A trigger goes through `queue_automation_run` (read the
automation, look for a running row, insert a row, point the automation at it) and a
background task (the lock of the automation, the run, `finish_run`,
`record_automation_after_run`). Every call of the database may fail, within a bound.
`finish_run` and the record are two calls: `since` is the history variable that the first
moves (the rows closed as failed since the last success or reset), `missed` has the runs that
ended between the two, and `raced` is set when ends were counted at once or out of order. The
count itself moves with the second.

**AutomationTriggers.** One automation, its row, its trigger at Composio and the job of the
process that holds the leader lock. A sync reads the row (`List`) and applies what it read
(`Apply`); the resync of the scheduler does the same on an interval. Changes come from the
app or from the tools of the agent, which write the row only. An event is claimed in one
step (`Arrives`, `ClaimIdempotency`) and queued in another (`Queue`), which may fail with 500, find the
automation deleted or never come; the claim stays.

**Workspace.** The plan of a scene lists the calls of each round. A handler attaches the VM
if it has to, reads, writes, verifies, exports; a round is over when its calls are, or at
the time limit, after which the threads and tasks of its calls run on. Reads and writes fail on
the host and in the VM; a write that fails may have done nothing, all, or have emptied
the file it opened (`Truncated`; a text that broke off is 0). `fits` is what `_should_attach_path` and
`record_bytes_if_imessage` say of a version: that it is not empty, not too large, not of a name that is
skipped. `mishaps` is a history variable.

**Connections.** A thread is on a *way* (overview, connect, prompt, tools, call), gets the
list from the cache or from Composio, and works with it. `asOf` is the count of changes
when a list was made; it is read by the properties only.

## 3. Model checking

| Run | Instance | Shows |
|---|---|---|
| `run_buffer` | *memory*: 2 readers, 2 workers, 3 chunks of which 2 are retained, queues of 1; *redis*: 1 reader, 1 worker, 4 chunks of which 2 are retained | consecutive ids from the one named, trimmed chunks excepted (`NoGapNoRepeat`); an ended stream is complete (`ClosedComplete`); no chunk of the Redis buffer is sent more than twice (`RedisSound`); streams end (`StreamsEnd`); both implement `RunStream` |
| `slow_subscriber` | 1 reader, 1 worker | *violated*: a dropped slow reader is never disconnected |
| `redis_early_end` | 1 reader, 1 worker | *violated*: a stream ends without its last chunks |
| `detached_runs` | *runs*: 3 POSTs one after the other, 2 processes, 2 steps, 1 death, 1 failure, with and without Redis; *page*: eight scenes of up to 3 threads, 3 messages, 2 streams | one worker, known to the store; nothing skipped; resumed where saved unless an old copy hides it; runs are forgotten; the transcript is exact; stored turns stay; waiting messages are sent |
| `duplicate_worker` | the same, POSTs may overlap, Redis | *violated*: two workers of one turn |
| `stale_resume` | the same, POSTs in turn, Redis, 2 failures | *violated*: resumed from an old local copy |
| `lost_history` | 1 stored thread, 1 draft, 1 message, 1 deletion | *violated*: a stored turn is deleted |
| `agent_turn` | *loop*: four shapes of up to 2 turns, 2 rounds, 2 calls, 2 retries, 1 abort, 2 workers, 2 permits; *stream*: eight scenes over both backends, of up to 5 pieces, 2 attempts, 2 rounds and 2 workers, with cut starts, three usage chunks, and providers that send no ids; *files*: five turns of up to 5 calls, queues of 3 | requests are well formed and hold the question; checkpoints are the turn's own; permits come back; a turn ends; prose is shown, tools are paired, rounds billed; what writes lose; the latest content attached |
| `chat_stream` | *stream*: queue of 2, 2 rounds, 1 chunk per answer, both modes; *limiter*: 4 requests, 2 processes; *credits*: 2 requests posted twice, 2 periods, 2 acts of operators; *context*: six scenes of 2 threads, 2 organisations, 2 skills; *catalog*: 2 skills, 3 ticks, 2 edits per tick; *session*: six scenes of up to 3 turns; *imessage*: five scenes of up to 2 deliveries | the bill is made from a complete stream; the session is saved when the stream ends; agent and stream end; what is let in or overdrawn is bounded, the ledger explains the balance; context is history, in order if its rows came in order, and the turn's own, and what it lists loads; an answer once, and whole but for what SendBlue refused; what was borrowed is given back |
| `rate_limit` | 3 requests, Redis working, limit of 1 | *violated*: the second request is let in |
| `automation` | *runs*: 2 triggers, 2 processes, 1 death, 1 failed call, 1 reset, pause after 1 failure; *causes*: five scenes of 2 handlers and up to 3 events; *accounts*: two threads in one process or two | what returned is settled, and only an error or a death leaves a row open; failures counted but for ends that never were or raced; runs end; the job agrees with the row; events reach once, and are refused only when taken or fruitless; an active account is kept; caches come to agree |
| `automation_overlap` | 2 triggers, 2 processes | *violated*: the automation runs twice at a time |

**Bounds.** `MaxSeq` exceeds the retained length, so lists are trimmed under a reader;
queues of one or two fill with a single slow reader; two readers and two workers are
enough for one of them to hold back, or to overtake, the other. In the Redis buffer
readers share nothing they write, so one stands for all. It has one worker in the run;
`RedisSound` is proved for any number of readers and workers (section 5). Three POSTs allow a run that fails at one process, is resumed at another
and comes back to the first. In `AgentLoop` the windows are 4 and 6 messages long, so two
turns of two rounds are cut by each of the passes; two delegates and two permits deadlock
as many delegates and permits do. In `TurnStream` five pieces hold a call that is cut
twice with prose on both sides; two attempts leave one behind; three usage chunks in a
call are enough for more reports than rounds. Queues of three attachments hold every version that
two parallel exports and a later edit make: with two the later one would never find room. Three turns
have, in any order of the rows, an earlier answer before and after another; the limits of 2 and 4
rows cut them. Two handlers and two
processes are enough for one list to be old when the other has changed what it lists.
Scenes of `WebClient` are separate where no property needs their combination: queues
with two streams, reloads, faults, deletions and refreshes each with the least number of
moves at which they meet a message sent, a stream or a POST. In scenes with `posts = 0`
no POST of messages gets through, which leaves the queues and streams alone. The last
event of a run and its end come in one step; that a page has all of an answer but the end
of it adds nothing to having a part of it, for which one scene has runs of two events. Deaths, failures, changes and resets
are bounded at the least number at which they can interact. Every bound is a constant or
a field of a scene and appears in a guard by name. Deadlock is not an error in these
models: they stop when all chunks, POSTs, triggers or moves are used up; that nothing
stops too early is what the liveness properties say.

**Type invariants.** `TypesOK` in `agent_turn` joins those of `AgentLoop`, `TurnStream`
and `Workspace`. Those of `MemoryRunBuffer`, `DetachedRuns`, `AutomationRunner` and
`ChatStream` are theorems (`TypeCorrect`), that of `RedisRunBuffer` is a part of `Sound`, and that the
buffer retains the newest chunks (`NewestRetained`) is contained in the inductive invariant.

**Fairness.** Weak fairness of each task that can go on: an event loop runs ready
callbacks, and the waits that are conditions of a model (a full queue, a held lock)
are its guards. A connected client is assumed to read; clients need not connect
or leave, workers need not append, nothing need fail or die. The agent goes on because model and
tools have time limits in the code (`agent_llm_stream_timeout_seconds`,
`agent_tool_phase_timeout_seconds`, the HTTP timeout of 120 s); in `AgentLoop` that a tool
answers is not assumed, only that the timer of the tool phase fires. Keys that nobody
refreshes expire, GC tasks wake up. The resync of the scheduler is an interval job and
syncs run to an end. Cached lists age (`AgeRows`, `AgePrompt`, `AgeTools`), since every
entry has a time to live. Of the page, one weak fairness for all its tasks is enough: moves and faults are
finite and no task can be repeated for ever, so all that is due gets done; the user
need do nothing. `AllStreamsEnd` of the in-process
buffer holds under a condition that it names: as long as no reader is dropped and none
leaves, since each of them can leave a stream or `finish` waiting.

**Conditions in properties.** Where the code does not keep a promise in every case, a
property names the case it leaves out, with the line that is to blame, and holds for
the rest: `HistoryKept` leaves out threads in which a message was sent before the stored
ones were there (which `lost_history` shows), `WaitingIsSent` pages on which resumed turns
took more streams than there may be, `QuestionIsSent` turns longer than the summary,
`FailuresExact` ends that were closed and never counted (`missed`) when they were successes, and counts that
raced; `RefusedIsTaken` deliveries whose claim came to nothing; `ContextIsHistory` the order of the answers
once rows came in another than they were written in (`shuffled`), and threads longer than the limit; `AnswerWhole` what SendBlue
refused; `ShownIsProse` starts cut where the filter lets them through, calls of the model that failed, and
blocks that another stream suppressed; `ToolsPaired` the names of results
when two answers had calls in their text; `RoundsBilled` providers that
report now and then; `NothingLost` appends that could not read their file and edits whose text broke
off; `LatestSent` versions that do not fit; `OverdraftBounded` allows for the runs in flight together, `SavedIsSeen` (a part of `OwnContext`) leaves
out profiles saved in another process or while a thread was storing what it had read,
`CatalogTrue` edits that the times do not tell and catalogs that were cut, and so on. The
comment before each property says so.

## 4. Disagreements found

Each is a run that TLC violates; "findings" in `PROJECT.json` quotes the text that says
otherwise.

1. `append` drops a subscriber whose queue is full and tries to put the end mark into
   that same queue; the mark is lost and the reader waits for ever (`slow_subscriber`).
2. `RedisRunBuffer.subscribe` returns when the record says done, without reading the
   list once more, although the replay before it may be old (`redis_early_end`).
3. `start_detached_run` awaits between the look at the store and `register`
   (`duplicate_worker`).
4. `load_checkpoint` prefers a local copy whatever other processes did since
   (`stale_resume`).
5. The lock against overlapping automation runs is local to a process, and the look
   for a running row and the insertion of one are two calls (`automation_overlap`).
6. The 429 of the Redis branch of the limiter is caught by the `except` around it, and
   the request is counted again, and let in, by the memory of the process (`rate_limit`).
7. Deleting the thread that is shown shows another without fetching its messages; a
   message sent there is persisted as the whole transcript, and the POST deletes the
   rows of the thread first (`lost_history`).

What else came up while modelling. These have no run of their own; most are cases
that a property leaves out by name:

- *Page.* `resumeStreamingTurns` does not look at the number of streams. With more than
  `MAX_CONCURRENT_CHAT_STREAMS`, the job that a thread's own queue sends next is dropped
  without a word (`useKorakuChat.ts:451`). A draft whose first message waits in a queue counts as
  unused, and is discarded with it when another thread is selected.
  `reloadSessions` replaces the list of threads by the server's: drafts not yet saved are
  gone from it, and their queue is never sent. Refreshing a thread while it streams
  replaces the transcript under the stream. A draft that is deleted while it is being
  created comes back at the next load.
  `discardEmptySession` sets the active thread inside the updater of the list
  (`useKorakuChat.ts:385`). React may run that updater at render time, after the thread
  that the user chose was set: then the first thread is shown instead, and its messages
  are not fetched. The second outcome of `Select` is this case.
- *Transcript.* Two POSTs of one thread at a time may both delete before either inserts;
  the second insert then fails on the key, or the older one wins. If the insert fails,
  the rows deleted before it are gone. Rows that the server appended for iMessage are
  deleted by a persist of an older list. The rows of one insert share their `created_at`,
  by which they are ordered when they are read (`supabase_chat_history.py:139`): a turn may be
  asked after its history in another order (`shuffled` in `ChatSession`).
- *Streams.* `detached_runs.py:278` tells a client whose stream was interrupted to
  reconnect and then sends `done`, on which the page marks the turn failed and does not
  reconnect. A 404 on resumption leaves the turn failed and empty: what the page had
  stored of the answer was cleared for the replay.
- *Model streams.* The filter lets a lone `{` through (`sanitize.py:57`), and looks for a cut `[Call` before a cut
  `<tool_call>` (lines 104-108): a call whose start is cut there is shown whole, and run nevertheless. Calls found
  in the text are `tool_0`, `tool_1`, … in every answer (`tool_call_parse.py:215`): those of a later round,
  or of a worker beside, are taken for the earlier ones by the page and are not charged for, and their results may come
  without a name. Every chunk with usage is added up (`openai_compat_backend.py:132`, `koraku_sse.py:557`), and the last report
  once more at the end: a provider that reports in every chunk is billed as often. A call of the model that fails closes no
  block that it had opened.
- *iMessage.* `send_message` answers False when a message could not be sent; `on_send` and the tail do not look at it
  (`imessage_runner.py:152`), count the piece as sent and do not repeat it.
- *Automations.* A run is closed and counted by two calls (`runner.py:181`): when the second fails, a failed
  run counts for nothing, and a successful one leaves the old count. An event
  is claimed before it is queued (`automation_events_routes.py:65`): when the queueing fails, the sender is told 500, and refused with 409
  when it delivers again.
- *Files.* `Write` and `Edit` on the host open the file for writing, which empties it, and answer "Error" when the
  write fails then (`registry.py:150`, 215): what earlier calls wrote is gone.
- *Docs.* `docs/DATA_LIFECYCLE.md:39` says that the page may store run, position and thread in
  `localStorage`; the code resumes by the status stored with the message, and keeps the id of the last
  thread in `sessionStorage`.
- *Accounts.* `toolkit_slug_from_composio_tool` (`composio.py:225`) says it makes GMAIL of
  GMAIL_SEND_EMAIL, and returns the slug as it is, since that matches the pattern of a
  toolkit too (line 230).
- *Profile.* `.env.example:165` says that with a TTL of 0, the default, the profile is cached until
  it is saved. A save drops the entry of its own process only, and drops nothing for a read
  that has its row and has not stored it (`supabase_personalization.py:146`): in both cases
  the old profile is kept until the next save. `SavedIsSeen` leaves out these two.
- *Skills.* `_SKILLS_CACHE` is keyed without `enabled_only`: after the settings page has listed
  the skills, turns have the ones switched off too. The key of
  `_skill_catalog_cache` in the cloud has neither organisation nor version: the
  descriptions in an index may be old, or another organisation's with skills of the same names.
- *Catalog.* Deleting a `SKILL.md` and leaving its directory changes no time that is
  looked at, and an edit in the tick of the newest time goes unnoticed. Of the
  workspace skills that do not fit, all but the first make way for the bundled ones of their names
  (`skills.py:245`), where `SkillLoad` gives the one of the workspace.

## 5. Proofs

`RunBuffersProofs` – for any number of readers, workers and chunks, any retention
and queue bound ≥ 1 (`BufferAssumption`):

- `TypeCorrect`, `Delivery` (`NoGapNoRepeat`), `Completeness` (`ClosedComplete`),
  `Refinement` (`Spec => RunStreamImplemented`).
- The invariant `IInv` says where every chunk is: what a reader was sent, what it has
  to replay and what waits in its queue are consecutive (`ContentInv`); while it is
  subscribed, or a worker still owes it the mark, they reach to the end of the run
  (`EndInv`); the mark is last in a queue and put by one worker (`WriterInv`).
  `ClosedComplete` alone is not inductive: it needs to know what is in the queue before
  the mark. Lemmas give what `Trim` keeps and `RetainedAfter` takes.
- `RedisIsSound` (`RedisSound`): the part `redis` of `RunBuffers` moves as `RedisRunBuffer` does, so
  `Sound` of `RedisRunBufferProofs`, instantiated, holds of it (`RedisAssumption`).

`DetachedRunsProofs` – for any number of requests, processes, steps, deaths and failures
(`RunsAssumption`):

- `TypeCorrect`, `NothingIsSkipped`; and, assuming that POSTs of the turn do not overlap,
  `SingleWorker` (`OneWorker`), `WorkerIsKnown`, `ResumesWell` (`ResumesUnlessShadowed`,
  an action property).
- `TurnInv`: a request on its way found no run, a worker has its run in the store, a GC
  task sleeps on a run that is done – one of them at a time. That is why a new POST can
  not meet a worker, and a GC task drops no run but its own. `SavedInv` and `LoadedInv`
  say where the last step saved is and that what a request loaded is still so when it
  starts its worker.

`AutomationsProofs` – for any number of triggers and processes
(`RunnerAssumption`), any events, handlers and changes of an automation (`CauseAssumption`), any
accounts, threads and processes:

- `TypeCorrect`, `Returned` (`Settled`), `ExactCount` (`FailuresExact`).
- `Settled` needs to know at each point of a run whether the lock is held (`LockInv`), whether
  the automation may point at it (`CurrentInv`), whether its row is closed
  (`RowInv`), and that a run broke off only by an error or a death (`BrokenInv`); `FailuresExact`
  which runs are in the two histories (`HistoryInv`), that a count read and not yet written is still
  current, and that the ends about to be counted are of one kind (`CountInv`). The history moves with
  `finish_run` and the count with a later call, so `FailuresExact` is not inductive.
- `ReachedOnce` (`EventsReachOnce`): a delivery that got past the claim has its key among the claims of its
  process, alone (`ClaimInv`); until something is torn one handler changes the automation at a time
  (`AloneInv`), and Composio knows what the row says, or what the handler that is about to write it
  will make it say (`SwitchInv`). The property speaks of a row that is written after Composio was told, with
  other handlers and events in between, and is not inductive without these. That a delivery is refused
  only for one that was taken or came to nothing needs the same of every claim (`TakenInv`).
- `ActiveIsKept` (`ActiveKept`, an action property): a list that is as new as the accounts names the
  same account to keep as they do (`FreshInv` with `LastActive`), and a cleanup does not delete what
  it keeps (`DoomInv`), unless the cleanup is late, which the property names.

`ConversationsProofs` – for any queue of at least one event, any number of rounds, tools and
chunks per answer, both modes (`StreamAssumption`), any two instances of the gates
(`SetupAssumption`), any threads, organisations, skills and deliveries:

- `TypeCorrect`, `BilledComplete` (`CompleteWhenSettled`), `EndIsSaved` (`EndedIsSaved`).
- `FlowInv` says that what was sent, followed by what is queued without the end mark,
  counts what was accepted, that the mark is last in the queue, and is there only when the task is
  over; `DropInv` that an event is missing only once the turn is cancelled; `SavedInv` that a task
  is over only with the session saved (its finally clause), unless that clause fails. `CompleteWhenSettled` speaks only of the end, where it is too late to know
  what was in the queue.
- `GatesBound` (`AdmissionBounded`): `Bounded` of `AdmissionProofs`, instantiated once for the
  limiter and once for the credits.
- `BorrowedIsBack` (`GivenBack`): the turns of a process take the agent's context manager from each other like a stack:
  it is the one of the turn that began last, and every turn will put back that of the turn before
  it (`StackInv`, with `BeganInv` on the order in which they began), unless two of them gave it back in another order, which the property names.
- `OneTurnEach`: however often a message is delivered it starts one turn, as long as no claim failed, expired or
  died (`OnceInv`: the deliveries that got past the claim have handles of their own, which are claimed). It is the half of `AnsweredOnce` that does not compare the text of bubbles with an answer.
- `ContextIsOwns` (`ContextIsOwn` of `OrgContext`): what a turn has in its prompt is of its own user and organisation, and
  no profile is older than the last save it must know of. `LetInInv` says
  who was let in where, `FiledInv` that the caches file rows under the key
  they are of, `OwnInv` that a thread holds only what is of its own key, and
  `AgeInv` how old a cached profile may be, with other processes about to answer a save.
- `OwnersApart` (the part `OwnerIsolated` of `OwnContext`): for any conversation, in memory and in
  Redis. The property speaks of the messages a turn works on; it needs that the object a turn works on
  is one of its owner's, whoever made it (`HeapInv`), that the store has a session of the owner it
  names, which in memory refers to an object of that owner (`KeptInv`), and that the rows of the
  thread are the first owner's (`RowsInv`). What the browser sends, trims and maps is typed by
  `PairsTyped`, `TrimTyped` and `MappedTyped`: concatenation (`FlatTyped`) and numbers in their order
  (`OrderTyped`), through least elements and ranks.

`AgentTurnProofs` – for any workers, questions, calls and bounds on rounds and retries, any
number of permits (`LoopAssumption`), any streams and files (`TurnAssumption`):

- `PermitsAreReturned` (`PermitsReturned`), `CheckpointIsOfMain` (`CheckpointIsMain`).
- `PlaceInv`: outside its tool phase a loop has no calls, and a worker works for a
  delegating call of the main loop that holds its permit (`Holding`), or is idle. `PermitInv`: never are more
  permits held than there are. `CheckpointInv`: with an organisation the checkpoint of the run is the
  main loop's, and what it has is a prefix of the messages of that loop.
- `RequestsAreWellFormed` (`RequestWellFormed`), `QuestionsAreSent` (`QuestionIsSent`). `DialogueInv`:
  the session of a loop is a dialogue, in which every call is answered by the next message, but for
  the round it runs, whose calls are those of the last message, and the rounds that an abort cut
  off; so is every checkpoint. `AskedInv`: with an organisation the session of the main loop, and what
  it would resume from, has the question. Neither property says anything between two requests,
  where rounds are opened, timed out, aborted and resumed.
- `PairsTools` (`ToolsPaired`) and `BillsRounds` (`RoundsBilled`), for any streams and providers: a
  step of `TurnStream` is of one of six kinds (`Does`: it connects, announces a tool, tells usage,
  closes, breaks off, returns results), and one lemma per action says which. `PairInv`: what was
  announced is pending in its stream, has its result or was given up, and is counted once; where
  providers give ids, and no two answers had calls of the same numbers in their text (`Apart`), the
  calls of a round are its own and known by name. `BillInv`: what was reported came in a chunk or with the
  end of a round, every round told and every stream that is telling (`Telling`) has a
  report, and without reports every round is estimated.
- `LosesNothing` (`NothingLost`) and `SendsLatest` (`LatestSent`), for any plan of file calls: a step
  of `Workspace` moves one call (`Handles`: it walks, reads, writes, fails, verifies or exports), or
  none (`Stands`), cuts a round off (`Cuts`) or loses the VM (`Wipes`). `RoundInv`: a call in progress
  is of the present round, unless a round was cut off. `KeptInv`: of a file that no failed read or broken write marred, what a call is about to replace is
  still what it read, and what a call wrote is in its file until a later call takes it away. `SentInv`: while the queue has
  room the last finished version of a file is queued. Both properties compare the file with what
  several calls read and wrote in rounds before, and say nothing of a call between its read and its write.
- `ContextManagerProofs` takes such a dialogue through `process_messages` (`Processed`), for any
  limits with a window of at least two messages and any pins, with a lemma per pass: a round is
  dropped whole (`DropsRounds`), a cut never begins with results (`AdjustsStart`, `Rejoined`), the
  summary has a line for the question if no more than `MaxVisible` readable messages follow it
  (`SummaryTells`), the window does not cut what the summary left (`Summarizes`, `Slides`), and no
  results are left to drop (`DropsNoResults`). `Pick` takes messages by the rank of their index,
  which is why nothing here needs induction over a sequence.
- The bounds of `TypeOK` stay with TLC: without an organisation a turn resumes with the step of a
  worker, which is bounded by the rounds of a worker and not of the turn. The invariant has the
  types that the proof needs (`LoopTypes`, `CallTypes`).

`RedisRunBufferProofs` – for any number of readers, workers and runs of chunks, any retention, all
the deaths and expiries that the model has (`MaxChunksPerRun` a natural number):

- `Sound` (`RedisSound`): the types, and that no chunk is sent to a reader more than twice, however
  long it polls.
- Per reader, what it was sent splits (`SplitBy`) into positions of the list and then positions of
  the channel; neither half has a chunk twice, nor one that is still to come the same way.
  `PendingInv` and `InboxInv` say that of the replay it holds and of its
  subscription, `ListInv` and `LogInv` that INCR gives every chunk an id of its own. The property alone says
  nothing of what is on its way to a reader. The theorem is for any number of workers,
  the run has one.

`AdmissionProofs` – for any finite set of requests, any costs and reserves, limits, windows and
months (`Settings`, the hypothesis of its theorems, which `Conversations` assumes of both its gates):

- `Bounded` (`AdmissionBounded`, which is `RateBounded`, `OverdraftBounded` and `LedgerExplains`), for
  any grants and limits that operators give, in any order with the checks and bills.
- `MemoryInv` and `RedisInv` map the requests let in during a window one to one to the hits in the deque,
  or to the values the counter had, of which there are at most `MaxHits`; `CreditInv` is a
  potential: what is used in the period, with the dearest cost for each run that is in
  flight, stays below the ceiling; `BooksInv` that no limit exceeds the highest and that the rows of the ledger bound the balance from both sides. Counting the requests that were let in is not inductive: nothing
  in the count says that a hit is still there to be counted by the next request.

Facts on finite sets that the library has only by induction over an operator are reached by
other ways: injections into an interval, ranks, and the well-foundedness of the natural numbers.

Only model-checked, and why:

- all liveness properties, which need fairness and ENABLED;
- properties whose definition folds over a sequence, which only an induction could open: the refinement of `RunStream` by
  `RedisRunBuffer`, `TranscriptExact` and `HistoryKept` of the page,
  `ShownIsProse`, which speaks of the filter and the parser of inline calls, the parts `ContextIsHistory`
  (which selects from sequences) and `CatalogTrue` of `OwnContext`, and `AnswerWhole`, the part of `AnsweredOnce` that compares bubbles with the answer;
- `TypesOK`, whose bounds are those of the instance (see `TypeOK` above); the proofs carry the types that they need.

## 6. Not modelled

- Redis commands that fail, in the buffer and the store of runs, which let them
  propagate; `save_checkpoint` swallows them, after which memory and Redis disagree as
  they do in `stale_resume`.
- The TTL of a checkpoint in Redis (one hour), ownership checks, `GET /runs/{id}/status`.
- `DetachedRuns` takes `finish` to return; with the in-process buffer it can wait for
  room in the queue of a reader that left (`AllStreamsEnd` excludes that reader), and
  the GC task is then created late or never. Its `Expire` waits for the GC task of a
  living process: that both fall into the same milliseconds, and a new POST between
  them, is left out.
- In the agent: prompts, the choice of tools by the class of a task, VerifyGoal, the
  estimate of tokens; the syntax of the five notations of an inline call. The
  heartbeat of the model's stream (`run.py:631`) is looked at only right after progress
  and so never due; keepalives of the generator change no state.
- Attachments and the unconfigured server in the chat stream; titles, images and caches of
  the list of threads; media in iMessage.
- Creating, listing and deleting automations in `AutomationRunner` (they are in
  `AutomationTriggers`), progress patches, signatures of webhooks.
- Bash, paths and the search of file contents in `Workspace`; the choice of tools at
  Composio in `Connections`.
- In the page: guests, the stream that is not detached, rendering and the batching of
  events into frames, the caches of the routes of threads and messages, the discard of a thread
  that is not a draft, rows that the server appends for iMessage.
- Memory and web tools, which call outside services; the lists and the dashboard of
  operators, which only read. Of profiles and skills the wording of the lines in a prompt, and the proposal of a
  profile from public links.
- That a turn whose client left is never billed (`chat_routes.py:541`) is a state of
  `ChatStream` (`cpc = "gone"`, not settled); neither code nor docs promise otherwise.

## 7. Plan

Done: the buffers, detached runs, automations, the chat stream, the agent's loop, limiter and
credits with their proofs; model streams, sessions, organisation, profile and skills, iMessage, triggers,
files, accounts and the page. What is left, the most consequential first:

1. Failing Redis commands in `RedisRunBuffer` and `DetachedRuns`, and a second worker
   in `RedisRunBuffer`.
2. `WebClient` against the buffers: its runs as an instance of `RunStream`, with gaps for a
   page that resumes a run that was trimmed.
3. The caches of the thread routes, and rows appended by the server, in `WebClient`.
