# Codecub: a verification project in TLA+

Codecub is a local coding agent: a Python runtime that drives a language model
through a loop of tool calls (`src/codecub`), an application mode that speaks
JSON lines over two pipes, and an Electron client (`src/desktop`). This directory
holds TLA+ modules of its control, TLC configurations that check them on small
instances, and theorems checked by TLAPS. `PROJECT.json` is the index: components,
runs, the lines each definition models, mutants, findings, hazards and theorems.

    tlc -workers 2 -config MCSideEffectLedger.cfg MCSideEffectLedger
    tlapm SideEffectLedgerProofs.tla

Paths below are relative to the repository.

## 1. Inventory

### The parts that carry the program's logic

| component | state | operations | what is hard about it | what makes it correct |
|---|---|---|---|---|
| **replay ledger** `codecub/run_store.py`, `task_state.py`, `runtime.py` | the ledger in each run's `task_state.json`, the copy in memory, the copy in the session's checkpoint, a lock per run in each process | claim, update, load on `ask`, whole-state writes in every turn, checkpoints | the lock is local to a process and whole-state writes do not take it; crashes between body and update; adoption from old checkpoints | a side effect happens once; "completed" is true; an entry is never lost or made more trusted |
| **tool gate** `resilience.py`, `runtime.run_tool` | per tool: failures, opening time, probe in flight | `allow`, `record_success`, `record_failure`, time | a guard admits a call and a later guard refuses it; half-open has one probe | open exactly after a streak; the probe decides; nothing stays blocked for ever |
| **agent loop** `runtime.ask`, `task_policy.py` | attempts, tool steps, queued native calls, native messages, research budget, planning facts, watchdog state | one turn: limits, model call, batch of calls, rejection, tool, observation, final answer | a dozen early exits, each of which must count against a cap and keep the message protocol; two protocols; two clocks | call and result stay paired; answers rest on evidence and on a verification; budgets hold; every run ends |
| **progress watchdog** `watchdog.py` | a deque of events, what was seen, scores, streaks, recovery state | `record_tool_event`, `begin_recovery` | bounded memory, patterns over a window, resets | a stuck run is suspected and stopped in time, never without its recovery window |
| **edit-decision watchdog** `edit_decision.py` | registered evidence requests, pairs of them | register, check | repeats under another wording | no endless requests for evidence |
| **application runner** `app_runner.py`, `app_protocol.py` | active run, cancel flag, canceled ids, pending approvals | commands on the main thread, `ask` on a worker, approvals that block the worker, the unlocked writes that end a run | two threads without a lock on `active_run`; a wait without a timeout | every accepted message is answered; canceled runs stop; approvals reach whoever waits |
| **desktop client state** `desktop/src/App.tsx`, `state/*.ts` | chat view (active run, running), open dialogs | two reducers over events, commands of the user | events cross commands; events of another process | the view shows what goes on; a waiting run has a dialog |
| **backend process** `desktop/electron/backendProcess.ts` | the child, the children expected to exit, the stdout buffer | start, stop, spawn error, chunks, exit | a killed child is not waited for: its output and its exit come in the life of the next; one buffer for all | one backend works at a time; lines are whole and of one process; the user is told of an exit nobody asked for |
| **run queue, worker** `run_queue.py`, `worker.py` | Redis keys, stream, pending entries, dead letters; per consumer deliveries and what is in flight | enqueue, dequeue, reclaim, acknowledge, fail, `run_once` | crashes between any two Redis calls; two workers on one run | an accepted run is not lost, and not executed without cause |
| **model gateway** `model_gateway.py` | semaphore, interval lock, last start, metadata of the last answer | `_invoke` with retries and fallback | agents on several threads share it; the metadata is read after the call | permits are kept, starts are spaced, requests have all their chances and end |
| **usage accounting** `usage_store.py`, `telemetry/*`, `runtime.py` | rows and a summary with a revision, two files; the run's records | record, load, snapshot of run and session | the process ends, or a write fails, between the files; an answer with several calls; ids given anew when a run is run again | the totals shown are those of the rows; a run is a part of its session; a call is counted once |
| **checkpoints and resume** `runtime.py`, `run_store.py` | the session's checkpoints, stale paths, runtime identity | create, evaluate on resume | files that changed between | a stale checkpoint is noticed |
| **read guard, evidence ledger** `runtime.py`, `working_state.py` | read ranges per file version, inspected files, ranges of the working state, all bounded | analyse a read, deliver what is new, merge, invalidate | a file that changes, and changes back, between two reads; bounds that forget | nothing is held back that was not read; what is called inspected is current |
| **reply stream** `runtime.py`, `providers/*` | buffer and state of the delta filter | feed, parse, retry | tags split over chunks; the same filter for another attempt | the reader sees the answer, all of it and nothing else |
| **orchestrator** `orchestration.py` | two children on threads | delegate, join, merge | children share gateway and workspace | one failing child does not lose the other's result |
| **context compiler** `context_compiler.py`, `token_budget.py` | the run's native messages, marks and counts of compressions | group, keep, take back, condense, enforce | a condensed request replaces the messages it was made of and is condensed again; ids of calls come again; notices between calls and results | calls stay with their results; every message is there once, in full or in a summary; the budget holds |
| **history condenser, repository map** `context_compiler.py` | the last summary, failures of its model | condense with a model or without, select the map | a model that fails or answers with nothing; a layer too small for all | a summary is never blank, and loses constraints last |
| **context manager** `context_manager.py` | budgets of the sections | build, reduce | windows smaller than the floors | text is given up in the order laid down, and the newest entry last |
| **session memory** `memory.py`, `runtime.py`, `workspace.py`, `persistence/*` | recent files, summaries with hashes, notes; checkpoints; session file, cache file | read, write, fail, recall, checkpoint, reopen | files others change; two files saved one after the other; a cache other processes share | what is recalled is current; drift is named; the checkpoint announced is on disk |
| **durable topics** `memory.py` | an index and a file of notes per topic | promote | the process ends between two files | notes are found, once to a subject |
| **memory v2** `memory_v2/*` | evidence records and durable facts, each with a file | record, supersede, refresh, retrieve with a cache; extract, consolidate, migrate | the process ends between two writes of one consolidation; files that change, and change back; evictions | nothing old is passed for new; conflicts and successions are known on both sides; nothing is remembered twice or lost in the move |
| **code index, retrieval** `code_index.py`, `vector_index.py`, `retrieval.py` | symbols per file, records and vectors (two files), answers by query and workspace | refresh, embed, answer, cache | an embedding service that fails; a process that ends between two files; edits the indexes do not see | an answer is of the files as they are; vectors are of their records |

The rest is input and output, rendering or measurement and is listed in
`PROJECT.json` with the reason it is left out: the tools' file and shell
operations, HTTP clients of providers, the command line, the event bus and
exporters, evaluation and experiments, storage, settings and terminal of the
desktop, components and texts.

### How they interact

`ask` owns a task state, a watchdog, a breaker and a tracker per run. In a turn it
writes the whole task state to the run's file (the ledger included), calls the
model through the gateway, puts the calls of a batch into a queue and hands one
call to `run_tool`. That validates it, looks for repeats, asks for approval, asks
the breaker, claims the operation key in the run's file, runs the body, updates the
ledger and reports to the breaker. The result goes to the watchdog and the
planning facts, which decide whether the loop goes on, and a checkpoint may be
taken. The application runner calls `ask` on a worker thread; approval is a
callback that blocks this thread on an event that the main thread sets when the
client answers. The client learns everything from events and acts only through
commands, so that each side's knowledge of the other is late. The queue's worker
calls `ask` too, under the run id of the entry: a reclaimed entry makes two
processes work on one run file. Orchestrated children share the parent's gateway.

Before a call of the model, `ask` builds a prompt: the context manager (or the
compiler, which condenses through the condenser) puts together the session's
memory, hints of the evidence memory, answers of retrieval and the history. While
the reply arrives, the delta filter shows its final block; when it is complete, it
is parsed as a whole. A tool's result goes to the read guard, the session's memory
and the evidence memory; a change of files makes the code index look at them again
and takes evidence back. The answer's cost goes to the usage store. At the end of a
run durable facts are consolidated and notes promoted. All of these keep files
that outlive the process, and compare them with a workspace others may change.

### Which behaviours are hard

Interleavings (main and worker thread, two processes on one run file, callers of a
gateway), messages that cross (commands and events), crashes between two writes
(ledger, queue), retries and reclaims, waits that nobody ends, budgets at their
limit, and facts that are stale when used (a checkpoint's ledger, a verification, a
half-open probe, a summary, a hint, a cached answer, a vector). `PROJECT.json` "hazards" lists them at their lines, each with the
properties that would notice.

## 2. Modules

| module | models | checked by |
|---|---|---|
| `SideEffectLedger` | ledger files, their writers, crashes | `MCSideEffectLedger` (three configurations) |
| `OnceLedger` | what the ledger promises, abstractly | refined by `SideEffectLedger` |
| `SideEffectLedgerProofs` | theorems about `SideEffectLedger` | TLAPS |
| `ToolGate` | the guards of `run_tool` around the breaker | `MCGuards`, `MCToolGate` |
| `ReadGuard` | read ranges, inspected files, what a change takes back | `MCGuards` |
| `ProgressWatchdog` | the watchdog with its memory | `MCGuards` |
| `ReplyStream` | delta filter, chunks, retries and the parser of a reply | `MCGuards` |
| `GuardsProofs` | theorems about `ToolGate`, `ProgressWatchdog` and `ReadGuard` | TLAPS |
| `AgentLoop` | the loop of `ask` | `MCAgentLoop` (two configurations) |
| `AgentLoopProofs` | theorems about `AgentLoop` and `ContextCompiler` | TLAPS |
| `AppRunner` | the runner's two threads | through `DesktopSession` |
| `DesktopSession` | `AppRunner` composed with client and user | `MCDesktopSession` (two) |
| `DesktopSessionProofs` | theorems about `DesktopSession` | TLAPS |
| `BackendChild` | life and output of the desktop's backend process | `MCStores` |
| `RunQueue` | Redis stream queue with its workers | `MCStores` |
| `CodeRetrieval` | symbol index, vector index, cache of answers | `MCStores` |
| `UsageAccounting` | rows, summary, records of a run | `MCStores` |
| `StoresProofs` | theorems about `RunQueue`, `CodeRetrieval`, `UsageAccounting` and `BackendChild` | TLAPS |
| `ModelGateway` | `_invoke` with its callers | `MCModelGateway` |
| `ContextCompiler` | what of a run the next request shows | `MCContext` |
| `HistoryCondenser` | the summary and the map | `MCContext` |
| `PromptBudget` | sections of a prompt and their reduction | `MCContext` |
| `RequestProofs` | theorems about `ModelGateway`, `HistoryCondenser`, `PromptBudget` and `ReplyStream` | TLAPS |
| `SessionMemory` | the session's memory, its checkpoints and files | `MCContext` |
| `DurableTopics` | the older durable memory | `MCContext` |
| `EvidenceMemory` | evidence of memory v2 and its retrieval | `MCContext` |
| `DurableMemory` | durable facts of memory v2 and their migration | `MCContext` |
| `MemoryProofs` | theorems about `SessionMemory`, `EvidenceMemory`, `DurableTopics` and `DurableMemory` | TLAPS |
| `Ordering` | arrangements: members of a set in an order, what is picked of a sequence, a sort | used by the others |
| `OrderingProofs` | lemmas about `Ordering` | TLAPS |

`MCGuards`, `MCStores` and `MCContext` put several components side by side. Their
variable `focus` is chosen by the initial state and never changes: a behaviour is
one of one component under its own `Next`, while the variables of the others stay as
they began. So each component is explored in full, as if it had a module of its own,
and nothing is claimed of interleavings between components of one such module, which
share no variables. What is composed in earnest is `AppRunner` in `DesktopSession`,
with the queue of events between them.

The property a component is checked for is often a conjunction, such as
`EvidenceSound`, whose parts are stated, with a comment each, above it. Each part is
meant by itself; one of the parts is the type invariant.

`Ordering` defines a filter and a sort by the place each element has, so that the provers can
use them; where a module was about to be proved about, they took the place of `SelectSeq`
and `SortSeq`, and TLC evaluates them as quickly on the small sequences of a run.

An operator named "Mutant of ..." is a plausible bug, stated next to the
definition it would replace. No run uses it; it is there to show that a property
would notice the bug.

### SideEffectLedger

`place[a]` is where `ask` of agent `a` is between two accesses to files. `StartAsk`
is the load (`ask`, `PriorOperations`: the run's own file, else the checkpoint of
the session, else empty). `PersistTurn`, `PromptCheckpoint` and `OtherTurn` are
the whole-state writes of the loop. `BeginClaim` takes the process's lock and
reads the file; `GrantClaim` and `RefuseClaim` write or give up and release it.
`RunBody` is the tool's body, which may or may not take effect and may return or
raise. `BeginUpdate`/`FinishUpdate` settle the entry (`OutcomeState`: completed
when the result holds its contract, else uncertain); the except branch downgrades;
either update may escape. `Crash(p)` ends every agent of a process wherever it is
and frees its lock, and leaves the files. A ledger entry is its identity (tool and
digest of arguments) and state; the rest of the task state is left out.

`RunIdPolicy` says which ids an `ask` may be given: a new one each time (`"fresh"`,
the command line), one that nobody works on now (`"owned"`, a client or a queue that
starts a run again), or any (`"shared"`, a queue that reclaimed an entry from a
consumer that is slow and not dead).

### ToolGate

One call at a time: `RequestTool`, then the guards in the order of `run_tool`, each
of which may end the call, then the breaker (`Allowed` with the side effect of
marking the probe), then the ledger's claim, then the body with its outcome.
`Cool` is the passing of `reset_seconds`.

### AgentLoop

`place` follows a turn: `top` (limits), `asking` (the model is called, or a queued
call is taken), `answered`, `accepted`, `ran`, `final`/`unusable`, `stopped`. The
message list is reduced to `owed`, the number of calls without a result, and
`torn`, whether a user message came in between. The watchdog is reduced to its
state machine: whether an event is progress or completes a pattern is chosen
freely (`ProgressWatchdog` has the details). `dirty` is told by what was really
executed, and not by the fields the loop reads, so that `GroundedAnswer` compares
the loop's knowledge with the facts. A configuration is a record (budgets, protocol,
kind of task, what the model may answer) and is chosen once by `Init`.

### ProgressWatchdog

One action, `RecordToolEvent`: the event is remembered in the bounded deque, its
progress signals computed (fresh read, changed file, new search, new symbol, first
failure of a command, and so on), scores and streaks advanced, the patterns looked for,
and the state advanced; `ask` calls `begin_recovery` at once, so this is one step.

### ReadGuard

`ranges` is `read_range_ledger`, `inspected` the evidence ledger, `stateRanges` and
`changedFiles` the working state's. `ReadLines` is a `read_file` call: what of
the range was read at this version is taken off, the rest is delivered, recorded and
merged; `SuppressRead` is the call all of whose lines were read; `ReadFails` is one that fails or is rejected, which the evidence ledger
records as well. `ChangeByTool` takes
back what the changed files had, `ChangeOutside` is somebody else's edit, `NextRun`
what a new run keeps. `read`, `displayed` and `outside` are histories: sets of lines
against which the ledgers of ranges are compared.

### ReplyStream

`ChunkArrives(n)` feeds the next n symbols to the filter (`Feed`, with `Kept` the tail
that may begin a tag and `SafeLength` the part that may be shown). `StreamBreaks` ends the
attempt: another begins, with another reply and the same filter. `ReplyComplete` parses
the whole text. Tags keep what matters of their lengths.

### AppRunner and DesktopSession

`inbox` and `outbox` are the pipes. `main` is where the main thread is in a
command, `worker` where the worker is in `ask` and in the writes that end a
run; each read or write of state shared by the two threads is a step of its own.
`leftover` is a finished worker that has yet to reset the cancel flag.
`DesktopSession` extends it with `chat` and `dialogs` (the two reducers) and the user:
`SendMessage`, `StopRun`, `AnswerDialog`, `LeaveProject`.

### BackendChild

One action per method or event of `BackendProcess`: `StartChild` (which stops the last
one), `StopChild`, `SpawnFails`, `OutputArrives` (a chunk of any size), `ExitSeen`;
`ChildWrites` and `ChildEnds` are the process and its pipe, which belong to Node and the
system. A line is two pieces, so that a chunk may end in the middle of one. `clean` says
that each start found the earlier processes ended and read up: what is emitted is only
then sure to be of one process.

### RunQueue

The Redis calls between which something can happen are steps: SET NX and XADD of
a producer, the delivery or the reclaim of an entry, XACK and SET at the end.
`deliveries` and `inflight` live in a consumer and die with it. Redis itself is
external, modelled by the calls made.

### CodeRetrieval

A file is the places of its definition, a call and a line with the query's words.
`EditByTool` changes a file and refreshes the symbol index; `EditUnseen` does not.
A question is answered from the cache (`AnswerFromCache`), from the symbol index when that is
sure (`AnswerByStructure`), or by a search (`AnswerBySearch`, `AnswerWithoutQuery`) that
refreshes the vector index and embeds what it does not know, where any chunk may
fail (`failing`). `RestartInRefresh` and `RestartBetweenWrites` end the process there. Ranks are a
choice: `Cut` gives every set of hits the order might leave. `doubtful` is the history of
chunks whose embedding failed or was cut short, `unseen` that of files changed and not indexed.

### UsageAccounting

`turn` follows the run loop from `BeginRun` over `ModelAnswers` or `TakeCall` (a queued call:
no request, the last metadata again) and `KeepRecord` to the store: `ReadRows`,
`WriteRows` and `WriteSummary` are the file accesses of `record`, each of which may fail
(`WriteFails`, unreadable rows) and between which the process may end
(`UsageRestart`). `LoadSnapshot` is what any reader is given: the summary, when its revision is the
number of rows, else what the rows add up to.

### ContextCompiler, HistoryCondenser, PromptBudget

`ContextCompiler` has the run's messages as they came (`chat`) and as they stand
(`native`); a message knows which of `chat` it stands for, a summary stands for
all it condensed. `Compile` is one turn's compilation of both prompts: below the
watermark everything, above it the recent groups, raw evidence that is taken back by
worth, and a summary; then the budget is enforced (`Sacrifice`). `TakeQueued` is a turn with a queued call, which
compiles the text only. The other actions are the model's answers, results in any
order the loop appends them, and notices, of which several may come before the next request. Worth is chosen anew at every compilation.

`HistoryCondenser`: entries are added, and `Condense` makes a summary of the first n,
by the model (which may fail, or answer with nothing), or from the entries: by
category, then tool lines, each the last few, cut to the layer. A line has its part and what it
says; texts are not put together. What the working state excludes as said elsewhere, and the goal and heading lines, are left out.
`PromptBudget`: `BeginBuild` fits the budgets to the window,
`ReduceSection` is one turn of the loop, `EndBuild` its end; the history's section is
computed entry by entry, newest first (`Place`): an entry is the text of a message, or the line of a tool call with its arguments
and the result, and each of its lines is clipped by itself.

### SessionMemory, DurableTopics

`SessionMemory`: `ReadSource`, `WriteSource`, `ToolFails` are tool calls with all they record and
save, checkpoints included; a tool that fails may have changed any of the files, and its one note is about all of these.
`ChangeSource` is somebody else's change; it does not come between a read and the hashes taken of the file in the same call. `BuildSessionPrompt`
compares summaries and the checkpoint with the files and recalls what the request finds worth it (`Requests`), summaries and notes
by one score; the candidates from the durable topics are left out of it. `EndSessionRun`,
`WriteCheckpointId` and `ReopenSession` are the writes and the restart. `readAs` is the history of
what the model read last. `DurableTopics`: `Promote` computes the notes and writes the index,
`WriteTopic` writes one file, `EndProcess` may come in between.

### EvidenceMemory, DurableMemory

`EvidenceMemory`: `StartAsk`, `RetrieveAgain` and `BuildPrompt` are the three places where
hints are made or taken from the cache; `ReadFile`, `InspectFile`, `VerifyCommand` record
evidence and retire what it supersedes; `EndAsk` settles the counters; `EditFile` and
`ReopenMemory` are the world. `current` is the history of contents since the last
prompt. `DurableMemory`: `EndRun` extracts candidates; each is consolidated with the active
facts by one of `TouchDuplicate`, `RetireRival` and `AddSuccessor`, `AddConflicting` and
`MarkConflict`, `MergeWording`, `AddNew`, where a pair is two writes with `half` between them;
`MigrateNote`, `MarkMigrated` and `ReopenFacts` are the migration and the restart. A statement is
its subject, words and numbers; overlap and contradiction are computed from them as the code does. Age is the order of making, while
the code gives a migrated record the time of its topic file (`migration.py:167`).

### ModelGateway

`place[t]` is where caller `t` is in `_invoke`; `Acquire`, `EnterInterval` and
`StartRequest` are the semaphore, the lock and the end of the sleep; a client
answers or fails, permanently or transiently, and then `Retry`, `FallBack` and
`GiveUp` are the branches of the except clause. `kept` is the metadata each client
keeps of its last answer, `metadata` what the gateway copied. Time is a countdown
(`timer`, `gap`): a sleep may last longer than asked, never shorter.

## 3. Runs: what they check and show

**ledger.** Two agents in two processes, two runs, one key, two identities, policy
`owned`, any number of crashes. A side effect happens at most once per run
(`EffectAtMostOnce`); an entry is never lost, retaken or made more trusted
(`LedgerOnlyHardens`); the model implements `OnceLedger` (`ImplementsOnce`). Two agents
are needed for an id to change hands, two runs for adoption; keys do not interact.
Deadlock is checked.

**ledger_shared.** Two agents in two processes on one run, policy `shared`: what
happens when a queue entry is reclaimed from a consumer that is still at work.
Whole-state writes erase claims, so that updates find no entry and the second one
escapes from `ask`; what is left is that "completed" is only said of what took effect
(`CompletedTookEffect`; the theorem `CompletedIsTrue` covers `ledger` as well).

**guards.** Four parts. *Gate*: two tools, one with side effects, two keys, threshold three
(`OpenIffStreak`, `ProbeDecides`). *Reads*: two files with two contents of three lines, so that ranges
touch, overlap and leave gaps, ledgers of two entries, so that they forget, and four calls
or changes (`ReadsHonest`). *Watchdog*: limits scaled to 2 to 4, a recovery window of 2 (any values: `StoppedInTime`); two ranges of a file, an
edit that works or fails, a search, a failing command (`WatchdogTimely`; `IdleIsStopped`: an agent that
from some event on only looks up what it knows or fails is stopped). *Stream*: replies of up to three of text, the
beginning of a tag and the three tags, in chunks of any sizes, with one attempt that breaks
off (`ShownIsAnswer`).

**loop.** Three configurations: a text-protocol model with research budget and
watchdog; a native model that answers with batches of two calls out of six kinds,
with edit decisions; a native model under the watchdog, one call at a time. Budgets are scaled
to 3 to 6, so that every limit is reached before any other and after it.

**desktop.** Two runs, two approvals, two turns, two sends, two stops. Two runs are
needed for the hand-over between them, where the unlocked writes matter; a third
would meet the same state as the second.

**stores.** Four parts. *Queue*: two runs, two workers, at most three executions of a run and two
crashes (`NothingLost`, `CompletedEnded`, `ExecutedOnce`). *Retrieval*: two files, one that defines and calls, one
that may do the same or not parse, two edits, two answers kept, one hit shown, so that order matters
(`RetrievalTrue`). *Usage*: two runs that may be run again, two groups, two answers of one or two calls
with or without counts (`UsageTrue`). *Child*: two children that write two lines each (`BackendSound`); a third would meet
the second as the second meets the first.

**gateway.** A parent and two children with two permits, so that one has to wait; an
interval of two units and a retry, so that one start is spaced while another
request sleeps before its retry. Each caller makes one request; the state a request
leaves behind (start time, metadata) meets the requests of the others.

**context.** Seven parts. *Compiler*: seven messages of two sizes, budgets of which each can be
met and missed, answers of one or two calls whose ids come again, three notices; several compilations, so that a condensed request
is condensed again, and an answer is given up with a notice behind it that stays (`RequestWhole`, `RequestFits`). *Condenser*: three entries and a summary of four lines, so that parts
are cut (`SummarySound`). *Prompt*: four entries, of messages and of calls whose arguments may be too large to be clipped, and windows that fit all, some or not even the floors (`PromptSound`).
*Evidence*: two files, three contents of which one holds a secret, two records, two queries, three records made or files changed
(`EvidenceSound`). *Durable*: statements about one project that differ in their
numbers, in wording, or in nothing, three facts kept and five made, two notes to migrate (`MemorySound`). *Topics*: two topics, four runs
(`TopicsKept`). *Session*: two files with two contents, four steps, and two requests, to one of which files are worth more than notes, to the other less (`SessionSound`).

The remaining runs each show one disagreement of the code with what the repository
says of it; their counterexamples are short:

| run | what happens | what the repository says |
|---|---|---|
| `ledger_resume` | an operation done after the last checkpoint is done again when the session is resumed under a new id | `runtime.py:1606-1607`: the ledger must not be discarded on resume |
| `gate_replay` | the half-open probe is admitted, then refused by the ledger; it never reports, and the tool stays blocked for good | `test_resilience.py:112-116`: after `reset_seconds` a probe decides |
| `loop_recovery` | the recovery notice is added as a user message while calls of the batch have no result | `runtime.py:2876-2879`: a result for every call before any user message |
| `desktop_stuck` | a cancel handled just before an approval is registered rejects nothing; `run_canceled` closes the dialog; the worker waits for ever | `test_app_runner.py:388`: the run ends as canceled |

A passing run keeps clear of these by what it is given, stated where it is: the
policy in `ledger`; batches and blocked calls in `loop`'s configurations. `ProbeReleased`
and `WaitReachable` are not properties of the passing runs.

### Further disagreements, seen while modelling, without a run

In the models as the code has them, and left out of the passing properties by name:

- `app_runner.py:396`: a message that is refused because a run is active is answered
  in the name of the active run, which the client then takes for ended (`refused`).
  The client's own test (`approvalState.test.ts:34`) has a failed run end its dialogs.
- `app_runner.py:368`: a cancel of an ended run sets the flag of whatever run is active,
  which then ends and is never announced (`struck`).
- `app_runner.py:276`: a run can be announced completed and canceled
  (`test_app_runner.py:386` expects one of them); `app_runner.py:185`: `request.approved`
  is read twice, so that a tool announced as rejected can be executed (`:462`).
- `run_queue.py:104` against `127-128`: entries that come back by a reclaim never pass
  the comparison with `max_deliveries`; a failing run is reclaimed for ever, and the
  dead-letter branch is not reached for it.
- `runtime.py:3829`: `update_planning_state` leaves out rejected calls only: a command that
  the circuit breaker or the ledger blocked counts as the verification that
  `3027-3028` demands. `AgentLoop` has it (`blocks`); the native configurations
  block nothing.
- `run_store.py:50`: when two agents do share a run, one's whole-state write erases the
  other's claim, and the operation can be repeated, against `README.md:139`. The
  theorem `CompletedIsTrue` is what is left in that case.
- `model_gateway.py:106`: metadata of concurrent requests overwrites each other; a caller
  then records usage that is not its own. `MetadataOwn` is the part that holds.

In the new components, where the models have what the code does:

- `model_gateway.py:129` with `runtime.py:2118`, `2287`: another attempt or the fallback feeds the same
  delta filter, so the reader may see the answer's beginning twice; `267-273`: what is
  shown of a reply with a tool tag before its final depends on the chunks; the tail of an unclosed final is
  never shown. `ShownIsAnswer` is about first attempts.
- `runtime.py:3577`: the range asked for is recorded as read though the result is clipped: a later read is told
  the lines were "already available". `HeldBackWasShown` of `ReadGuard` states the claim and
  fails when added to `MCGuards.cfg`.
- `backendProcess.ts:122`: the stdout buffer is not cleared by a start, and output of a killed child
  is mixed into the lines of the next; after a failed spawn the child stays set and commands are written to it
  in silence. `clean` is the case without.
- `vector_index.py:70-78`: after an embedding failed, or the process ended, while a chunk had changed, the new record
  keeps the old vector for good (`doubtful`). `retrieval.py:618`: answers made with a stale index or a failed
  embedding are cached for that workspace; `262-273`: the workspace's fingerprint is computed anew only when a path, a time or a size
  changed, while the model compares contents.
- `usage_store.py:28-39`: unreadable rows are taken as none and overwritten (`misread`); `20`: a
  rerun of a run id reuses ids, so its usage is not inserted (`sound`); `runtime.py:2303-2307`: a cancel
  after a paid answer leaves no record; `2301`, `2331-2336`: a queued call records the last answer's usage again
  under a new id (`CountedPerCall` says exactly this).
- `context_compiler.py`: `mark_compressed` stores the length before condensing, so that later compressions of the native
  messages go uncounted while each turn above the watermark condenses; `runtime.py:2058-2066`: the count compared
  with is not reset with the run, so the first compression of a later run makes no checkpoint.
- `context_compiler.py` against its "never hide failures": a failed command whose output has no
  "error" is summarised as passed (`PassedIsTrue` fails when added to `MCContext.cfg`).
- `context_compiler.py:1560`: a notice is a group of its own for the floor of recent groups, so that notices between and behind its
  results can push the newest answer out of the floor; it is then chosen by its worth like older evidence and may go into the summary
  although it would fit. `NewestGoesLast` is about answers that are still near.
- `context_manager.py:359-368`: a recent tool call that does not fit whole is dropped and not clipped, since each of its two lines is clipped to
  all the room there is. `NewestResultShown` says when the newest is shown (`RoomFor`). Of several old reads of a file the oldest is the one shown.
- `memory.py:374-387`: a note about several files is compared with the summary of the first of them that has one; the summary of another may
  be recalled beside it. `SummaryOverNote` is about the first.
- `memory_v2/retrieval.py:8-9`: a prompt can show as fresh a hint whose record is known to be stale by then
  (`StaleMarked`); `consolidation.py:14`: contradictory statements can stand side by side unmarked
  (`ContradictionMarked`); `4-5` "physical deletion never happens" against the bound of records;
  an interrupted migration repeats its notes (`repeated`), and notes that differ only in case, which
  `memory.py:225` keeps apart, become two active facts of one statement (`RememberedOnce` asks for
  notes that are different). The two named properties fail when added to
  `MCContext.cfg`.
- `memory.py`: drift of files that were only written is not named; a restart drops stale
  summaries, so the next prompt names no drift for them; notes of a read survive an edit and are recalled; the cache key of
  summaries lacks the range; two processes that promote to one topic lose updates.

Outside what the models express:

- `runtime.py:2744` against `2651-2653`: a native research call refused by the budget is
  kept in the messages and gets no result; `2746` against `2665`: the notice goes to the session
  history, which a native model does not read.
- `runtime.py:2827` against `task_policy.py:66`: a read that failed counts as evidence.
- `runtime.py:2585` against `2583-2584`: the recovery window is measured in attempts
  here and in tool steps there.
- `watchdog.py:226` against `154`: patterns are looked for even in the event that made
  progress; `415` against `10`: a long cycle of reads looks new each time; `403` against `404`:
  a command that failed once is remembered as failing, so each later success is progress.
- `terminal.ts:108-111`: the exit of an old terminal deletes the new session of the same id.
- `runtime.py:3522`: the claim may raise between the admission of a probe and the try block, which then never
  reports (the composition of `ToolGate` with the ledger is planned).
- `task_policy.py` and `edit_decision.py`: overlap is measured against the shorter range, so that a read
  of more counts as repeated; evidence in a batch with pending calls is not registered.
- `run_queue.py:78`: a producer that dies between SET NX and XADD leaves a key without an entry; `93`: deliveries are
  counted per consumer and die with it.

### Fairness

Only what the code's scheduling gives. Threads are scheduled (weak fairness of the main
thread, the worker, each caller of the gateway), events in a pipe arrive, time
passes, and a client of a model or a tool returns because it has a timeout. The user
is never obliged to answer, stop or leave: `RunsAnswered` has a disjunct for a run that
waits for the user for ever. `RunEnds` has fairness of the one loop and no
assumption on what the model answers. In `ProgressWatchdog` the agent goes on
calling tools until it is stopped, as the loop does until it reaches a limit. The ledger and the queue have no fairness,
and only safety is claimed of them.

## 4. Proofs

Eight modules hold theorems. Each is for every value of the constants that satisfies
the assumptions of the component's module; they say that bounds are natural numbers,
that "none" values are no members of the sets, and for the gateway that delays are
natural numbers (`DelayAssumption`: the code doubles a delay, and the provers know nothing
of powers; TLC evaluates the assumption for the delays it uses).

`SideEffectLedgerProofs`, for any sets of agents, processes, runs, keys and
identities and any assignment of agents to processes:

| theorem | statement | assumption |
|---|---|---|
| `TypeCorrect` | `Spec => []TypeOK` | none beyond the module's |
| `CompletedIsTrue` | `Spec => []CompletedTookEffect` | none: also when runs are shared |
| `AtMostOnce` | `Spec => []EffectAtMostOnce` | `RunIdPolicy # "shared"` |
| `OnlyHardens` | `Spec => LedgerOnlyHardens` | `RunIdPolicy # "shared"` |
| `Refinement` | `Spec => ImplementsOnce` | `RunIdPolicy # "shared"` |

The argument. `EffectAtMostOnce` is not inductive: a state with a stale copy in memory
satisfies it, and the next whole-state write loses an entry. `LedgerInv` adds why no copy is
stale: nobody else works on the run (`OneOwner`); whoever works on a run
has the file's ledger in memory (`MemoryIsFile`) and read it under the lock
(`SeenIsFile`); what is being executed has an entry and took no effect yet
(`ExecutingIsNew`); what took effect is in the file (`EffectsKnown`). `OutcomeInv`
adds what settling needs: the entry of a call under way is still "claimed"
(`CallClaimed`), a success is one of a body that took effect (`SuccessTookEffect`), and
what is adopted is known (`AdoptedKnown`). `OnlyHardens` follows from what a step can do to a file
(`FileChange`: nothing, a write of the same ledger, an adoption by a new run,
a granted claim, an update) and `Refinement` maps these cases to `Adopt`, `Claim`,
`Perform`, `Settle` or a stutter of `OnceLedger`.

`CompletedIsTrue` needs none of it: `TruthInv` says that every copy of a ledger (file,
memory, checkpoint, the one read under the lock) tells the truth about "completed", which
writes of stale copies keep. So replay protection may be lost when runs are shared,
but never by answering that something was done which was not.

`RequestProofs`, for any callers, permits, intervals, clients and retries, for any entries, files, texts, histories, windows and
budgets, and for any replies, chunks and attempts:

| theorem | statement | strengthening |
|---|---|---|
| `TypesKept` | `Spec => []TypeOK` | `CallsInv` |
| `NoPermitLost` | `Spec => []PermitsKept` | none: `HoldersMove` says which steps add a holder or take one away |
| `SpacedStarts` | `Spec => StartsSpaced` | `SpacingInv`: one caller holds the interval lock, and its sleep covers what is left of the interval |
| `AllChancesTaken` | `Spec => []ChancesTaken` | `CallsInv`: the clients before the present one had all their calls, the ones after it none |
| `OwnMetadata` | `Spec => []MetadataOwn` | `AloneInv`: while a caller is alone, what its client kept, and then what the gateway copied, is its own |
| `StreamShowsAnswer` | `StreamSpec => []ShownIsAnswer` | `StreamInv` over `Knows`: what the filter knows of the text it was fed |
| `PromptStaysSound` | `PromptSpec => []PromptSound` | `PromptInv`: no section has more than it was fitted with or, short of that, less than its floor, and what is taken back is taken in order |
| `SummaryStaysSound` | `CondenserSpec => []SummarySound` | `CondenserInv` over `SumOK`: what a summary is like, whoever made it |

In `PromptStaysSound` the reduction is a loop over four sections, each of which is given back as much as is missing; the
history is placed from its newest entry to its oldest, each with what the newer ones left (`Place`), so that the newest
always finds its whole budget (`NewestPlaced`, `HistoryPlaced`). It is shown exactly when that has room for a clip of it, if it is a message, or for
all of it, if it is a call with its result.

*The summary.* Lines that say the same thing, or are of one tool's part, stand together: `Spread` says that they are in at most
so many places next to each other, and only in a part that may have them, and `Told` says it of every sentence
and every tool part. That carries over from two sequences with different parts to one after the other (`ToldJoin`), so that it holds of the whole
summary if it holds of each section, and of what is left when the end is cut (`ToldFront`). A section has a sentence
once, as the place where it was first said is one place; all constraints stand in the opening of a summary
(`Opens`), so a cut that leaves a line behind them leaves them all. The map is a fold whose steps keep `Blocks`.

*The stream.* `StreamInv` says what the filter knows of the text it was fed, whatever the chunks were (`Knows`). Before a final
tag was seen it holds the last two signs of the text, or all of it (`Held`), and no start tag is in the text;
afterwards what was shown and what is held are together the answer so far, and no place of it that was shown begins an
end tag, nor will it whatever still comes (`Differs`); once an end tag was seen, what was shown is the whole answer. A step that
feeds a chunk finds in `buffer \o chunk` what `parse` finds in the whole text: a tag that is found stays where it is when the
text goes on (`FindGrows`, `ContentGrows`), and one behind a beginning that holds none is found as many places
further (`FindBehind`). Replies are assumed to be sequences, of any signs and lengths.

`GuardsProofs`, for any tools, keys, thresholds, limits, windows, files and lines:

| theorem | statement | strengthening |
|---|---|---|
| `TypesKept` | `Spec => []TypeOK` (gate) | `ClaimHasKey`: a call that claims has a key |
| `OpenAfterStreak` | `Spec => []OpenIffStreak` | `FailuresAreStreak`: the counter is the length of the streak; `AdmittedIsProbe`: a call that got past an open circuit is its probe |
| `ProbeAlone` | `Spec => ProbeDecides` | the same invariant, read over one step |
| `StoppedInTime` | `WatchdogSpec => []WatchdogTimely` | `ClockInv`: before a suspicion the score is the silence, during recovery the silence is at most the limit and the steps since |
| `ReadsStayHonest` | `ReadGuardSpec => []ReadsHonest` | `WindowsInv`: each window is a sequence of ranges within its limit, without a file twice where that is meant |

`ClockInv` is kept whatever counts as progress and whatever makes a pattern, so that it stands for
other detectors too. In `ReadsStayHonest` the work is in merging: `merge_read_ranges` folds over the
sorted ranges, and the fold is shown to claim a line only if one of the ranges it was given does
(a merged range is `Holding` its lines at every step of the fold); then a read that is held back
is covered by ranges each of which was read, and a window that forgets claims less, never more.

`AgentLoopProofs`, for any configuration: any caps, limits, windows, kinds of task, and any batches of calls
the model may answer with:

| theorem | statement | hypothesis |
|---|---|---|
| `TypesHold` | `Spec => []TypeOK` with the caps of attempts, tool steps and research | none |
| `AnswersGrounded` | a completed run that needs evidence has read a source; `GroundedAnswer` | for the verification: no command can be blocked |
| `RecoveriesTimed` | `RecoveryTimed` | `OneClock`: the watchdog is told of events by one clock |
| `MessagesWhole` | `ProtocolKept` | `WellFormed`: research is not refused, and the watchdog suspects nothing while calls are queued |

Each hypothesis is a disagreement of section 3, and TLC shows the statement false without it: a blocked
command counts as verification (`runtime.py:3829`), an evidence request that is registered is
counted by attempts and a result by tool steps (`2585`), a refused research call keeps no result
(`2744`), and a suspicion in the middle of a batch puts a notice before the results
(`loop_recovery`). A hypothesis is about `config`, which never changes, and every configuration the
code runs with outside these cases satisfies it. `LoopInv` says what each place of the
turn knows (calls queued, the call at hand, budgets spent, planning facts); `OwedInv` that the results owed are
exactly the calls still open.

The second part of `AgentLoopProofs` is about the request that is compiled of the loop's history, for any sizes, budgets, limits,
worths and batches:

| theorem | statement | hypothesis |
|---|---|---|
| `RequestStaysWhole` | `CompilerSpec => []RequestWhole` | none beyond the module's |
| `RequestStaysFit` | `CompilerSpec => RequestFits` | none beyond the module's |

*Whole.* `CompilerInv` says what the messages of a run are, in any interleaving of results and notices (`ChatOK`), that the
request's messages stand for all of them, each for its own, in their order (`NativeOK`), and that what is not answered yet stands behind
the last answer (`OpenOK`). Grouping gives every message to one group (`Grouped`, `AllGrouped`): a result has the answer with its turn as
its leader, since ids that are used again never stand behind a later answer. So whatever groups are kept, what is assembled has each
group together and everything once (`AssembledOK`), and this is the next compilation's start.

*Fit.* The size of a set of places adds up over parts that have none in common (`SizesJoin`) and is that of the same messages at other places
(`SizesMove`), so that the assembled request has the size the budget was enforced with (`AssembledSize`). `RequestFits` has two invariants
and an action property: `NewestGoesLast` compares a request with the messages it was compiled from, and what they were cannot be seen
afterwards. It is about the newest answer of these messages as long as it is near, that is, as long as the groups from it on, the notices with
it, are no more than the floor (`recent_floor_groups`) or have room in the layer of recent messages; then its group is recent (`NearKept`), and the last
that is taken away of the recent groups (`KeptIs`). The code needs the condition: with a floor of two groups, an
answer of two calls with a notice behind each result may be condensed although it would fit.

`DesktopSessionProofs`, for any number of runs, approvals, turns, messages and clicks:

| theorem | statement | strengthening |
|---|---|---|
| `CanceledStops` | `Spec => []CancelStopsTools` | `StopsInv`: after the tool a canceled run was committed to, its worker is committed to none again, since ids are never taken out of `canceled_run_ids` |
| `TypesHold` | `Spec => []TypeOK` | `TypesInv`: an approval is pending exactly from its request to the use of the decision; a process that exited has no worker |
| `ViewTrue` | `Spec => []ViewAgrees` | `ViewInv` over `Shows`: what the view will show once the events on their way are applied |
| `RequestsShown` | `Spec => []DialogShown` | `DialogInv`: a request nobody decided on is `Announced` on its way to the client, `Offered` in an open dialog and not spoken of any more, or `Answered` on its way back |

The two properties speak of states in which both streams are empty; their invariants say
what holds while events are on their way, by what the last event that matters to the view or
to the approval is. They need that every message speaks of a run that began
(`KnownInv`) and what the main thread knows of the active run in the middle of a command (`ActiveInv`).

`StoresProofs`, for any runs, workers, files, answers and crashes:

| theorem | statement | strengthening |
|---|---|---|
| `TypesKept` | `Spec => []TypeOK` (queue) | `UndeliveredIsNew`, `ReclaimsStarted`: a run has one entry, a key that keeps producers out until then, and was started before it is reclaimed |
| `AcceptedKept` | `Spec => []NothingLost` | `CompletingEnded`: what a consumer acknowledges was executed to the end |
| `CompletedRan` | `Spec => []CompletedEnded` | `CompletingEnded` |
| `StartsCounted` | `Spec => []ExecutedOnce` | `UndeliveredIsNew`: what is delivered for the first time never started |
| `RetrievedTrue` | `RetrievalSpec => []RetrievalTrue` | `AnswersInv`: an answer of the cache is true of the tree it was made of, and there is one per intent and tree; `FilesInv`: what was not changed unseen is indexed as it is |
| `NoRowTwice` | `UsageSpec => []UsageTypeOK` | `RowsInv`: there are as many ids as rows, also in what is about to be written |
| `LoadedIsCurrent` | `UsageSpec => []SnapshotCurrent` | `RevisionInv`: rows are only added, so that a summary of fewer rows has a smaller revision than they have, and is not trusted |
| `UsageStaysTrue` | `UsageSpec => []UsageTrue` | `SoundInv`: in a run that met no failure the run's part of the rows is what it counted, up to the record on its way; `AnswerInv`: the rows of an answer and the calls it is still owed are one of the batches there are |
| `BackendStaysSound` | `ChildSpec => []BackendSound` | `SpawnedInv`: what runs was spawned, so that a start does not meet its number; `OutputInv`; `CleanInv` |

`OneWorks` (`ChildSpec => []OneBackend`) is a step on the way to `BackendStaysSound`. `OutputInv` says that what was emitted,
what is in the buffer and what is in the pipe of a child are together what it wrote; it is kept since the lines cut from a text, put
one after the other, and its rest are the text (`CutsJoin`, `LinesTaken`). `CleanInv` says that, as long as the starts found everything read,
buffer and pipe together go on from a whole line of the current child (`Tailed`), so that every second piece ends a line
(`WholeLines`).

`MemoryProofs`, for any files, contents, notes, queries, statements and bounds:

| theorem | statement | strengthening |
|---|---|---|
| `SessionRecalled` | `SessionSpec => []SessionSound` | `ReadInv`: what was read last is what the file's summary was taken from; `CacheInv`: a summary of the shared cache is of the content in its key; `CheckpointsInv`: the session's file has the items there are |
| `EvidenceStaysSound` | `EvidenceSpec => []EvidenceSound` | `StoreInv` with `Even` and `FreshIn`, `ResultInv`, `HintInv` |
| `TopicsStayKept` | `TopicsSpec => TopicsKept` | `TopicsInv`: what is still to be written is a `FollowUp` of the files, and its topics are in the index |
| `MemoryStaysSound` | `DurableSpec => []MemorySound` | `DurableInv` with `HalfOK`, `MovingOK`, `MovedOK` |

*Evidence.* A hint is made of one of the living records of a file, so it matters which. `Even` says: of two
living records of the same content one that is called fresh beside one that is not is the later one, by place and by age;
so retrieval, which takes the latest, and eviction, which takes the oldest, agree. The hints of the cache
stay `Safe` because every change of what they depend on empties the cache or makes another key. Memory
and file hold the same records up to what `Facts` leaves out, and `owed` is what was injected and not
read again.

*Topics.* `Succeeds` (a note goes only for another of its subject) is reflexive and transitive, and one note keeps it
(`PromoteNote`); so it holds over the fold of a promotion, and what a process leaves unwritten is
a successor of the file it would replace, whatever order the files are written in.

*Durable facts.* A consolidation of a contradiction is two writes, so `MutualBut` and `SucceededBut` leave
out the ids of consolidations that are half done or were cut short, and `HalfOK` says what the second write will find: the old record
still there and still active, or evicted, in which case the store is full of younger ones. That eviction never takes a successor and leaves
its elder follows from the store being in the order of its making (`Ageing`), which a sort by age
keeps (`AddedLonger`, with the lemmas on `Sorted`). That a best rival exists at all is a lemma on fractions: overlaps are
compared by cross-multiplying, and the comparison is a total preorder (`Fractions`, `Top`).
During the migration (`MovingOK`) the file holds the notes moved so far, oldest evicted first; the records
in memory are nothing yet. `RememberedOnce` excludes what the code cannot keep: a migration that was interrupted, and
legacy notes that are the same but for their case.

`OrderingProofs` has what the others need of arrangements: every member of a finite ordered set has one place (`Ranks`,
`ArrangedPlaces`), what is picked of a sequence is there in its order, also when an element is added
(`PickedLonger`), a sorted sequence has the same elements (`SortedAt`), and sequences put one after the other can be cut again
(`ChainedLonger`, `ThoseMore`, `NextPart`).

The provers have no induction over data: a theorem with an operator parameter cannot be used. What is needed of sequences and
folds is proved by hand from the least number of a set of numbers that is not empty (`LeastNumber`): the least length
for which a claim would fail has a predecessor for which it holds (`CountUp`, `Folding`). This works for one claim
at a time and is used where a theorem needs it.

The strengthenings of `SideEffectLedger`, `ModelGateway`, `ToolGate` and `RunQueue` were model-checked with the run's
configuration before they were proved; the others were proved once TLC agreed with what they imply.

## 5. What is only model-checked, and what is not modelled

Only model-checked, within the bounds above:

- every liveness property (`RunEnds`, `RunsAnswered`, `IdleIsStopped`, `RequestsEnd`): they rest on
  fairness and `ENABLED`, which the provers do not have.

Every invariant and action property that a passing run checks is also stated by a theorem. Where section 4 gives a theorem
a hypothesis, TLC checks the invariant on configurations that satisfy it.

Every module has its abstractions in its head comment. Those that matter for what is
claimed: ranks and scores of retrieval and of raw evidence are choices; texts are sizes,
words or members of small sets; a summary's wording is the model's; one process
at a time writes usage, and one agent the memories of a workspace (child agents with memories of their own on the
same files are not modelled).

Not modelled, besides input, output and rendering: the orchestrator, which nothing in
`src/codecub` calls; which evidence requests of the edit-decision watchdog repeat; the local queue (a lock around
a deque); status, delta and heartbeat events; interrupts of the main thread; several clients of one runner;
requests to providers and the parsing of their responses; tools' bodies; settings, storage and
terminal of the desktop.

## 6. Plan

Done of the first plan: usage accounting, the read guard, resume (in `SessionMemory`), the backend process, context
groups, the memories. Left, in order:

1. `ToolGate` composed with the ledger: an escape of the claim between the admission of
   a probe and the try block (`runtime.py:3522`); an abstract breaker that it implements.
2. `EditDecision`: which evidence requests repeat; composed with `AgentLoop`'s `marked`.
3. `SessionMemory` composed with the ledger's adoption from a checkpoint.
4. `BackendChild` under `DesktopSession`'s view: output of a killed child that reaches the view of the next.
5. `Orchestrator`: two children over `ModelGateway`; two agents on one `EvidenceMemory`.

Abstract specifications worth stating: a breaker as "closed, open, one probe"; a run as
"accepted, then one terminal event" for `DesktopSession`; a semaphore for `ModelGateway`; a bag of runs
executed at least once for `RunQueue`; a set of statements with at most one active per subject for `DurableMemory`.

Theorems, in the order of their worth: the refinements just named; `NewestGoesLast` for every newest answer, once it is
settled whether a notice should count as a group of its own for the floor (`context_compiler.py:1560`).
