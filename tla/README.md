# sentinel-home: a TLA+ verification project

SentinelHome watches a home network. Collectors turn syslog lines, sniffed
packets, scans and API polls into events; a rule engine turns events into alerts
and investigation jobs; an LLM agent works through the jobs (the *actor*) and
tunes the rules (the *critic*); a FastAPI process with an HTML dashboard and a
JSON API holds all of it together over one SQLite file. Everything runs in one
process: an asyncio event loop, plus executor threads for whatever blocks.

These modules model the parts where that arrangement is hard to get right: the
tables several parties write, and the in-memory state several threads share.
Paths below are relative to `src/sentinel_home/`.

## Contents

| Module | What it is |
| --- | --- |
| `JobQueue` | the `jobs` and `findings` tables: producers, queue API, actor cycle, compaction |
| `WorkOnce` | what the queue promises when the agent is its only worker (abstract) |
| `RuleEngine` | rule cache, cooldowns and windows, shared by threads without a lock |
| `RuleTuning` | `rules` and `rule_versions`: critic, rules API, seeding at start |
| `Parsers` | what the chain of parsers makes of a syslog line |
| `Intake` | the file tailer, the UDP collector and the flushed counters; uses `Parsers` |
| `Sniff` | ARP learning and conflicts, SMB pairs |
| `UniFi` | the four tasks of a UniFi poll |
| `Pollers` | nmap, Pi-hole and Plex: poll and compare with what is remembered |
| `Devices` | device rows written by collectors, users and the actor from stale reads |
| `Backoff` | the LLM adapter's failure count and backoff |
| `Chats` | the dashboard's conversation |
| `Knowledge` | the sync of a document into an external collection |
| `Records` | findings, users' answers and retention |
| `LogStream` | the log viewer's buffer and queues |
| `Settings` | `config.yaml`, the settings in force, the dashboard's save |
| `Components` | the eleven modules from `Intake` to `Settings` in one process |
| `JobQueue_proofs`, `RuleEngine_proofs`, `RuleTuning_proofs`, `Intake_proofs` | theorems about these modules, proved with TLAPS |
| `Collectors_proofs` | theorems about `UniFi`, `Sniff` and `Pollers` |
| `Stores_proofs` | theorems about `Devices`, `Records` and `Settings` |
| `Services_proofs` | theorems about `Backoff`, `Chats`, `Knowledge` and `LogStream` |
| `Components_proofs` | that all of them hold in one process |
| `MC*` | constants and the properties used only in runs |

To check: `tlc -config JobQueueActor.cfg MCJobQueue` (and so on, as listed under
*Runs*), `tlapm JobQueue_proofs.tla` (and the other seven).

## Inventory of the system

### Database (`database.py`, `models.py`)
State: SQLite in WAL mode with foreign keys on; one SQLAlchemy session per
`session_scope`, autoflush off. A SELECT takes no lock and sees what is
committed; the first flush takes the write lock, which is held to commit or
rollback; a writer that waits for more than five seconds fails. A flush updates
only the columns that differ from what was loaded. Everything below rests on
these rules, so they are the atomicity of all the modules: *a read and the write
that depends on it are two steps*, except where nothing else can run between
them. *Correct when* a session's writes appear together or not at all.

### Investigation queue (`queue/`, `api/routes/queue.py`)
State: `jobs` (status, priority, `compacted_count`, verdict), `findings`,
`_compaction_lock`. Operations: enqueue, submit, prioritize, a worker's status
and verdict calls, compaction. Called by the rule engine and the Pi-hole
collector (enqueue), users (submit, prioritize), an external worker, the actor,
the scheduler (hourly compaction in a thread) and an API route (compaction on the
loop). Hard: compaction and the actor decide on what they read and write later.
*Correct when* no group of alerts vanishes, no job is judged twice, nothing waits
forever, counters agree with verdicts.

### Actor (`agent/orchestrator.py`, `agent/scheduler.py`)
State: the jobs it holds, pending verdicts, findings and rule counters in one
session; a chat id in module globals. Each cycle: reset stuck jobs; take up to
twenty; triage and investigate each with an LLM; commit. Hard: minutes under the
write lock; a failing commit loses the whole cycle. *Correct when* a cycle's work
is saved as a whole, and a lost cycle is done again.

### Critic (`agent/orchestrator.py`, `agent/scheduler.py`)
State: a stale copy of the rules, changes waiting for the commit, a daily counter
in memory. Runs every twelve hours, and beside that when the hourly metric check
asks for it. *Correct when* it respects frozen rules and the daily limit, and
every change has a version to roll back to.

### Rule engine (`rules/engine.py`)
State: rule cache with a time stamp, `_last_fired`, `_windows`, known MACs,
suppression patterns. Called from the executor threads of the syslog collectors
(`evaluate`) and from the loop (`fire_rule`); the API and the critic invalidate
its cache. No lock anywhere. *Correct when* a rule fires on what its window and
cooldown say, an edit takes effect soon, and nothing is silenced without a trace.

### Rules API (`api/routes/rules.py`)
State: `rules`, `rule_versions`. Operations: create, update, delete, feedback,
freeze, unfreeze, approve, rollback. *Correct when* version history is usable and
the frozen flag means what it says.

### LLM adapter, tasks, validator (`agent/llm_adapter.py`, `agent/tasks.py`, `agent/validator.py`)
State: failure count and backoff, shared by actor, critic and API; Open WebUI
chat persistence. *Correct when* an outage is met with backoff and recovery is
noticed, and an answer is never read as a choice it did not make.

### Knowledge sync (`agent/knowledge_sync.py`)
Rebuilds a document about the network and replaces it in an external collection:
remove, then upload. *Correct when* the collection is not left empty.

### Collectors (`collectors/`)
Syslog UDP (bounded queue), syslog file tailer (position, rotation), sniff (ARP
learning period), nmap, Pi-hole, Plex, UniFi (poll and diff against remembered
state). Hard: partial answers taken for absence, state updated before the write
it stands for, rotation between a size check and a read. *Correct when* nothing
is reported twice or lost across polls, rotations and failures.

### Device fingerprinting, baseline (`fingerprint.py`, `baseline/manager.py`)
State: device rows. Merges host names, services and vendors into a row; infers
type and role; approval of devices. Written from collectors' threads, by users and
by the actor. *Correct when* a guess never replaces what a user entered.

### Metrics and retention (`metrics/`)
State: in-memory counters, `event_rollups`, `finding_archives`. Counters are swapped
out and written; hourly and daily rollups; archive-then-delete. *Correct when* no
count is lost or doubled by a flush, and a finding's answer survives its deletion.

### Findings API (`api/routes/findings.py`)
Acknowledge and dismiss, beside retention. *Correct when* what was confirmed is kept.

### Configuration (`config.py`, `dashboard/routes.py`)
State: `config.yaml`, `_settings`. Load from file, environment and a legacy section;
save a setting by writing the file and reloading it. *Correct when* a saved value is
in force and the process can start again.

### Dashboard and log stream (`dashboard/routes.py`, `main.py`)
State: chat history and chat id as globals; the log handler's buffer and listeners.
Hard: questions overlap, the history is cleared under way, records come from any
thread. *Correct when* questions and answers stay together and a viewer that keeps
up misses no line.

### Notifications, authentication, other routes, deployment
A synchronous HTTP push; request filters; HTML and thin wrappers around the tables;
clients of the API and one-off scripts.

### Interactions

```
 lines --> syslog collectors --evaluate--+            +--> alerts --> notifications
             |        sniff, nmap --fire-+--> engine -+
             |   (UniFi --events, devices)            +--> jobs <-- submit, worker (HTTP)
             v          Pi-hole --enqueue------------------^ |  ^
        counters, events                 ^                   v  +-- compaction
             |           cache invalid   |                 actor --> findings, rule counters,
             v                           |                   |       device types
      rollups, retention      rules API, critic --> rules    +--> LLM adapter <-- chat, reports
             |                                                    knowledge sync <-- tables
             +--> archive  <-- findings <-- users
```

## Models

### `JobQueue`

*State.* The columns of `jobs` that decide anything (`status`, `dev`, `rule`,
`prio`, `created`, `cc` for `compacted_count`, `verdict`), the number of findings
per job, the rules' `tp` and `fp`. Then each party's session: the actor's phase
(`apc`), the stuck jobs it read, its batch, and the `outcome` of each job so far -
pending writes nobody else sees; the compactors' remaining devices and `plan`.

*Actions.* `Enqueue`, `Prioritize`, `WorkerStatus`, `WorkerVerdict` are handlers
that run in one step on the loop. The actor's cycle is `ActorStart` (reads stuck
jobs), `ActorReset` (commits the reset), `ActorFetch` (reads the batch),
`ActorTakeLock` (first flush), `ActorJob` once per job, `ActorCommit`. Between
`ActorFetch` and `ActorTakeLock` others may commit: the cycle overwrites them. The
lock is the reason nobody commits during `work`. `ActorAbort` is any exception
that ends the session without commit. A compaction pass is `CompactStart`,
`CompactDevice` per device, then `CompactCommit` or `CompactTimeout`; a pass asked
for over HTTP blocks the loop, hence `LoopFree`. `Crash` keeps the rows.

*Abstractions.* `get_recent_events_text`, prompts and answers are the free choice
of an outcome; an unsure answer closes a job without a finding or a count. Of a
job's texts only the group (device, rule) matters. A tick is the two hours after
which a pending job is stale. Ids are handed out in order and a job is never
deleted. Users' feedback on a rule's counters is left out: it is a second writer of
them, under *hazards* in `PROJECT.json`. Device classification at the end of a cycle touches no variable here.

*`WorkOnce`* is the promise without an external worker: a job comes in once, is
closed once, never reopens, and gets at most one finding. `JobQueue` maps `pending`
and `processing` to open; `done`, `failed` and `compacted` to closed.

### `RuleEngine`

*State.* The clock, each rule's version in the database and when a version was
replaced, the engine's dictionaries, and for each thread its program counter and
locals. `_windows` is a dict of dicts of lists, and threads hold on to a dict or a list
that another has deleted: so objects are numbered, `windows` and `keys` say which is
found under which name, and `entries` what is in each list.

*Actions.* A step reads or writes shared state once. `_get_rules` is a check
(`Evaluate`/`FireRule`), a SELECT (`ReadRules`), the assignment of the list
(`InstallRules`) and of the time stamp (`StampRules`), which is the time the call
*began*. `_check_windowed` reads the clock, finds or makes its list (`MissDict` and
`CreateDict` are the factory of a defaultdict, which two threads may run at once),
appends, filters, writes back, counts, clears. `_prune_windows` (`EvaluatePruning`, then
`SweepStep`) copies the rules' dicts and each dict's keys, filters a list, writes it
back, looks whether it is empty, deletes the key, drops the rule; another sweep may have
deleted either, which raises and ends the evaluation (`SweepRaises`). `_do_fire` reads
the clock (`Fire`), stores it as the start of the cooldown (`StartCooldown`), maybe over a
later one, and writes an alert or job, fails to, or only logs, as the rule's action says.
`UpdateRule` commits and then invalidates; `EditQuietly` stands for the operations that
do not invalidate, and for the critic, which invalidates (`CriticInvalidates`) before it
commits.

*Abstractions.* Which event matches which rule is `DropRule`; suppressed events are
events not evaluated. Window entries carry an event's id, group and port, so a
list becomes a set. Rules in the database and cached rules are compared by
version. `recorded`, `lost`, `logged`, `mine`, `swept`, `ended` and `degraded` are
what the properties need to look back at.

*Known behaviour left unclaimed.* An entry another thread appends between a
comprehension and its assignment, or to a list that a sweep has deleted, is lost, so a
windowed rule may need more than its threshold of events. No property claims
otherwise; `WindowHolds` says what is true of a fire all the same.

### `RuleTuning`

*State.* Rows of `rules` (severity, cooldown, parameters, enabled, frozen, approved,
whether `last_tuned` is set, fire and feedback counts), `rule_versions` per rule in
insertion order, `_changes_today` with its reset time, each critic's session
(`copy`, what is left `todo`, changes `pend`ing), and one request between its read
and its commit. `period` counts resets of the daily counter, `froze` remembers
which rules were frozen since a critic read them, and `born` tells a rule from the one
that had its id before; they are there for properties.

*Actions.* `CriticStart` (daily reset, SELECT), `CriticConsider` (gates, limit),
`CriticKeeps` or `CriticApplies` (the dialogue's result, the snapshot, the change
to the session's copy), then `CriticCommit`, or one of the ways a cycle is rolled
back: a changed rule was deleted, the idle gate raised, the commit failed. The
LLM's dialogue reads no shared state, so it is one step whose result is the
`Verdict` of some dialogue. `Merged` is SQLAlchemy's column-wise UPDATE. PUT and
rollback are a read (`UpdateRule`, `RollbackRule`) and a commit (`ApiCommit`): the
loop runs one request at a time but a critic's thread may commit in between. The
other handlers set one column and are one step, the dashboard's switch (`ToggleRule`)
among them. `CreateRule` uses the defaults of the handler and takes the highest id plus
one, so that the id of the last rule comes back when it was deleted. `Restart` runs the
seed: it overwrites the parameters of every shipped rule that is not frozen, tuned or
not, and severity and cooldown of those that were never tuned.

*Abstractions.* Description and action, which the seed overwrites like the parameters
and no version keeps; priority and notes, which only a PUT writes.

### `Parsers` and `Intake`

*State.* A line is the program of its envelope and the marks the regular expressions
find in it; `ParseLine` is the chain, in order, and `Fate` what `_process_line` does
next: nothing, count, event, or the exception of a tracker record without a MAC. Lines
are numbered as they are logged, and positions in the file count lines. The tailer has
its position, the `statted` size, the `batch` it read and the line in the executor; the
UDP collector its bounded queue; the counters their buckets and what a flush has taken.

*Actions.* The world's: `Log`, `Rotate`, `Datagram` of up to two lines. The tailer's:
`DiscoverFile` (from the end), `StatFile`, `ReadFile` and `ReadFileFails`, between which
the file changes. Both collectors': `TakeLine`, which is the loop's part, then
`CountLine` or `PersistEvent` in a thread; an exception costs the tailer the rest of its
batch and the UDP collector one line. `FlushTake`, `FlushWrite`, `FlushWriteFails`, and
`IntakeRestart`, which flushes nothing. *Left out:* partial lines and several files; an
event's further way is `RuleEngine`'s `Evaluate`.

### `Sniff`

Each packet's handler runs without an await, so `Arp` and `Smb` are a step each. A host
announces an address as its own only if it has it (`Uses`). The first packet after the
learning period freezes the table, after it passed the ignore check itself. Whether the
rule engine fires on a report is not asked here.

### `UniFi`

Requests and writes are awaits, so the tasks of one poll interleave; `StartPoll` waits
for all of them. A list is read in pages by offset: a page that fails ends it without an
exception, and a client that moves to a later page meanwhile is listed again, so
`FetchClients` takes any number of listings of each client up to `MaxListings`, in any
order. `HandleClient` handles one; `RememberClients` comes after the last, so each listing
of a new client is an event. `heard` counts a client's listings in its first poll. Devices
are assumed to fit on one page. `_persist_state_change_event` imports a name that does not
exist: `HandleDevice` of a device whose state changed ends the task. Only the devices
and the statistics task share memory (`ids`), so `Gathers` says which tasks are studied
together; the others have variables of their own.

### `Pollers`

Three collectors that share nothing; `poller` says which one runs. `ProcessResult`
assigns `_last_scan` before it stores and fires; `fire_rule` respects the cooldown of
`new_open_port`, so that of several new ports only the first rings (`Rung`) and the others
are `hushed` for good, and so are those of later scans until `CooldownEnds`.
`ProcessResultFails` is the exception half-way. `Remembering` halves a set in an order that Python does not define.
`ReadSessionsFails` is a session list that cannot be read to its end.

### `Devices`

A session reads a row (`EnrichRead`, `ClassifyRead`) and commits later (`EnrichWrite`,
`ClassifyCommit`) only the columns it changed (`Written`), over what others committed in
between. A user's edit is one step of the loop. `edited` and `outdated` remember which
columns hold a user's value and which sessions read the row before the edit.

### `Backoff`

Time is counted in units of the shortest backoff. `Admit` is `is_in_cooldown`, `Send`
the path's detection and the request, and `Answered`, `AnsweredEmpty` and `Failed` what
came of it; threads interleave between these, so several requests may be under way
when the backoff begins. `silent` counts how long calls have been refused by now.

### `Chats`, `LogStream`

`Chats`: a question (`Ask`), its thread (`OpenChat`) and the rest of its handler
(`Answer`) are separate steps, between which others ask and `Clear`. `LogStream`: `Emit`
keeps a line and copies the listeners, `HandOver` gives the loop a callback for each,
`Put` runs one; viewers subscribe, read and leave meanwhile.

### `Knowledge`

One step per request and per section of the document, which is read in sessions of its
own while others `Commit`. A request fails with or without effect: a file may be
removed, uploaded or attached though the answer was lost. Uploading comes after the
removal of the old documents.

### `Records`

`AnswerFinding` is a user who answers a finding looked at some time ago; the handler reads
the row that has its id by now (`ReadFinding`, a 404 if there is none) and commits by id
(`CommitAnswer`), or finds nothing to change (`NothingToCommit`); `RunRetention` runs
between. SQLite hands out the highest id plus one, so an id can come back, and an answer
can land on a finding the user never saw; serial numbers say which finding is meant and
which one is changed, and `confirmed` keeps both.

### `Settings`

`SaveSetting` stores and then validates by reloading; `SaveRefused` answers with an
error and leaves the file as written; `WriteCut` is a write that was interrupted;
`HandEdit` an editor; `Start` needs a file that validates.

### Composition

`Components` extends the eleven modules from `Intake` to `Settings`, whose variables and
constants have names of their own, and interleaves them: a step of `ComponentsNext` is
one of a component in `enabled` and leaves the others as they are. They meet only in the
database, in tables of their own. With `enabled` all of them it is the process;
`Components_proofs` shows that a behaviour of it, for whatever `enabled`, is one of each
component, so that what each promises holds however they interleave. The run needs only
one component enabled at a time, which `Studied` says: that is a sum of their state
spaces, not a product. `Components` extends the modules rather than instantiating them
so that the run, the theorems and the properties are about the same definitions.

## Runs

| Run | Config | Result | What it shows |
| --- | --- | --- | --- |
| jobqueue_actor | `JobQueueActor` | holds | no worker: `WorkedOnce`, `OneFindingPerJob`, `CompactedIsRepresented`, `CollapsesAreCounted`, `CountersMatchVerdicts` |
| jobqueue_worker | `JobQueueWorker` | holds | with a worker and more jobs than a batch: groups survive, `TakenUpUnlessOutranked`, `ClaimsAreReclaimed` |
| jobqueue_findings | `JobQueueFindings` | violated | a worker's verdict between the actor's read and its lock gives a job two findings |
| jobqueue_stale_compaction | `JobQueueStaleCompaction` | violated | compaction overwrites a verdict committed after it read |
| ruleengine_firing | `RuleEngineFiring` | holds | appends, windows and sweeps: `WindowHolds` |
| ruleengine_edits | `RuleEngineEdits` | holds | edits, refreshes and fires: `StalenessIsBounded`, `SilenceHasRecord`, `CooldownPerThread` |
| ruleengine_cooldown | `RuleEngineCooldown` | violated | two threads pass the cooldown check together |
| ruletuning_requests | `RuleTuningRequests` | holds | `FreezeHolds`, `VersionsContinue`, `CriticNeverEnables`, `RestartKeepsTuning` |
| ruletuning_limit | `RuleTuningLimit` | holds | `DailyChangesBounded` |
| ruletuning_gate | `RuleTuningGate` | violated | the idle gate raises and ends the critic's cycle |
| components | `Components` | holds | the properties of all other modules, listed next |
| unifi_state_change | `UniFiStateChange` | violated | a device whose state changed ends the poll of devices, with no event |

The properties of `components`, by module, beside their types (`ComponentsTypeOK`):

* `Intake`: no line of the file is processed three times, though twice it may be
  (`LineAtMostTwice`); unless the file was rotated since, nothing below the position was
  passed over without one of five named reasons (`NothingTailedIsMissed`); counts are in
  a bucket, a flush, a rollup or known lost (`CountsAreConserved`).
* `Sniff`: one report per MAC and address, few per address, routers only by the packet
  that freezes the table (`ConflictsAreBounded`).
* `UniFi`: a client arrives in one poll of a run only, with at most an event per listing
  there (`ArrivalsAreNew`), and departs once (`DepartsOnce`), through truncated and shifted
  pages and failed requests.
* `Pollers`: each new port is in a stored scan and was alerted, but for a failure or the
  cooldown of a port that rang (`NewPortsReported`); `SuspiciousAccounted`,
  `StreamsReportedOnce`.
* `Devices`: `UserValuesKept`, an action property: only a user, a report that vouches for
  a type or a session that read before the edit replaces a user's value.
* `Backoff`: `RefusalsEnd`. `Chats`: `QuestionsGetAnswers`. `LogStream`: `StreamHasNoGaps`.
  No property says that every answer in the chat's history has its question before it: the
  answer to a question asked before a clear is appended after it, and brings the id of the
  old chat back (`dashboard/routes.py:2939`), which is among the findings.
* `Knowledge`: `OldDocumentsHaveAReason`, `SyncedIsFresh`. No property says that the
  collection is never empty: a failure between removal and upload empties it.
* `Records`: a finding is in the table or once in the archive, with the answers written to
  it, and a confirmed answer is with the finding it was meant for unless that one was
  archived by then (`NoAnswerIsLost`).
* `Settings`: `SavedIsInForce`. A saved key that the environment overrides is answered as
  saved and has no effect; `Resolved` is the value in force, as the environment leaves it.

A violated run checks one statement of the code's documentation that the code
does not keep; `PROJECT.json` quotes it. Deadlock checking is off throughout:
every instance ends when its bounds are used up.

Some properties say how far a guarantee really goes. A frozen rule may still be
changed by a critic that read it before (`FreezeHolds`); the daily limit may be
exceeded by one per further critic (`DailyChangesBounded`); two sessions may take
the same version number, of which rollback then reaches only the first, but no
number is skipped, except by a critic's snapshot of a rule that was deleted under it
and whose id came back (`VersionsContinue`); a cooldown holds per thread, less the time
for which another thread may hold an older stamp before it stores it over a later one
(`CooldownPerThread`); a pending job may starve behind newer ones, for the queue is
`created_at DESC` within a priority, but only behind as many as a batch takes
(`TakenUpUnlessOutranked`; that each job is taken up some time is false, and TLC shows it
with two jobs and batches of one); a backoff may be prolonged once by each request that was under
way when it began (`RefusalsEnd`); a line that arrives between the size check and the
read is processed twice (`LineAtMostTwice`).

Eight more disagreements between the code and its documentation were met while
modelling and are listed in `PROJECT.json` without a run, because they lie in what the
models abstract from: whose address an ARP request speaks for (`sniff.py:206`), host
names that are not accumulated (`fingerprint.py:249`), LLM summaries that always raise
(`reports.py:113`), a chat history that grows while the agent is away
(`dashboard/routes.py:2897`), a cleared chat that goes on
(`dashboard/routes.py:2939`), which half of Pi-hole's memory is kept (`pihole.py:236`),
syslog mode `auto` (`main.py:185`), a list that cannot be saved as a setting
(`dashboard/routes.py:2760`).

### Bounds

* `JobQueue`: three jobs of one group (two with a worker, where one may have no
  device) - one kept, one dropped and one more that arrives or is taken up
  meanwhile. Batches of two without a worker, and of one with it, so that a job is left
  over in either. Two compactors, one on the loop. One crash or abort. `MaxCollapsed` stops passes from starting once a
  kept job has collected that many; `MaxVerdicts` bounds findings per job.
* `RuleEngine`: one rule, threshold two, three events (one to be lost, overwritten or
  revived); durations of one or two ticks, so that each can expire between any two steps.
  `RuleEngineFiring` has two syslog threads, either of which may sweep before each of its
  evaluations, and entries that outlive the window by two ticks before a sweep takes them;
  nobody edits the rule. In `RuleEngineEdits` one thread and the loop are the two refreshes that can
  overlap, and the two that can store stamps out of order; the edited rule only logs.
  `MaxLag` is not only a bound: see below. `Start` is after every cooldown, as the seconds
  since 1970 are.
* `RuleTuning`: two cycles beside two requests in all interleavings (delete and create are
  two, after which an id has come back; an agent's new rule and its approval are two), or three cycles over two days; a limit of one
  change, so that the second critic exceeds it. Counts are small numbers on both sides of
  `MinSamples` and `Burst`.
* `Intake`: three shapes of line (counted, event, raising), two faults, one megabyte that
  holds two lines, a queue of one. The watched file gets four lines, none of them an
  event, and no flush runs beside the tailer; by UDP come three, with events and flushes:
  the two collectors share the thread that handles a line and the buckets, and are
  otherwise separate. A cap, a full queue, a line read twice, and a rotation after whose
  discovery a read fails all happen. In the last case the file can grow past the old
  position before the next poll, and the rotation goes unnoticed: what is below the
  position is skipped, one of the five reasons. The modes are "file" and "udp"; with
  "auto" a line reaches both collectors.
* `Sniff`: two addresses, three MACs and the host's, one of them on both addresses,
  which makes it a router at a limit of one; two MACs per address.
* `UniFi`: two clients, two devices; tasks studied as {clients}, {devices, stats} and
  {config}. A client is listed at most twice in a poll; event counts stop at three, which a
  violation needs.
* `Pollers`: two ports, two streams, three query pairs with a memory of two, three
  polls, one failure. `Devices`: two devices, two threads and the actor, one value of
  each kind, four sessions. `Chats`: three questions, a cap of three messages, one clear.
* `Backoff`: three threads, two tolerated failures, pauses of 1, 2 and 3 units (the last
  is the cap). The real pauses differ only in their number.
* `Knowledge`: three uploads, one commit, two failures. `Records`: three findings, one
  commit that fails. `Settings`: one key of each kind that the code treats differently,
  with a value its form accepts and one the reload refuses where there are both, two
  faults. `LogStream`: three viewers for two places, queues of one line, two lines.
* `MaxFaults` of the queue, the engine and the rules is one, unless said otherwise: one
  crash, abort, failed read or failed insert at any point. `MaxIntakeFaults`,
  `MaxSyncFaults` and `MaxConfigFaults` are two, since it takes two to go wrong there.

### Fairness and timing

`FairSpec` of `JobQueue` asks for weak fairness of `ActorStep` only: the scheduler
starts the actor every interval while the process is up (`scheduler.py:137`), and
a started cycle goes on. It assumes that the LLM endpoint is reachable, without
which `run` returns before it touches the queue, and that cycles stop being
aborted at some time, which `MaxFaults` does. No fairness is asked of workers,
users, compaction or the clock.

`RuleEngine` assumes that the clock does not go backwards (`time.time()`), and
that a call ends within `MaxLag` ticks of its start; `Tick` waits for calls
that are as old. `StalenessIsBounded` and `WindowHolds` have `MaxLag` in their
bounds: they say what one slow call costs, for a lag of any length.

No other module states fairness: their properties are about safety. `Backoff` has no
clock that must go on either: `silent` counts the time that did pass.

## Theorems

Each holds for every value of the constants, from the assumption its module names
(`ConstantsAssumption`, or `IntakeAssumption` and so on), which TLC evaluates for the
runs' instances. The arguments:

**`JobQueue_proofs`**, for any number of jobs, devices, rules, compactors, any batch
size and bounds:

* `TypeCorrect`: `TypeOK` is inductive by itself.
* `Represented`: `CompactedIsRepresented`. It is not inductive: `CompactCommit` drops
  what a plan says, and the plan was made earlier. `PlanInv` says what stays true of
  a plan meanwhile: its writer holds the lock, keeper and dropped jobs are of one
  group, no keeper is dropped by the same plan, and no keeper is `compacted` - only
  the lock's holder can make it so, whatever else others do to it. Each step
  preserves the pair; `PassCommits` is the step that uses it.
* `CollapsesStayCounted`: `CollapsesAreCounted`. The property is that each collapsed job
  can be assigned to a job of its group such that no count is less than what it is
  assigned. `EachIsCounted` adds what a plan is about to write: for each keeper, its count
  now and the number of jobs to drop, one decision per keeper (`PlanCounts`). It stays
  true between the read and the write because only the lock's holder writes counts, and
  the keepers of two devices differ; a commit assigns what it drops to its keepers
  (`DropsCounted`).
* `AtMostOneFinding` (without a worker): rests on `OnceInv`, which says that nothing
  is ever committed as `processing`, that a job in the actor's batch has no finding
  yet even if a compaction collapsed it meanwhile, and that neither has a pending
  one. The bound alone is not inductive: the commit adds a finding to whatever the
  batch holds.
* `Refinement` (without a worker): the initial state and every step of `JobQueue`
  are an initial state and a step or a stutter of `WorkOnce`, from the same invariant.
* `CountersAgree` (without a worker): `CountedInv`, that a job still waiting or in a batch
  has no verdict, so that the one commit that judges it counts it once.

**`RuleEngine_proofs`**, for any threads, rules, cooldowns, windows and lags. `TypeOK`
is inductive (`TypeCorrect`). `Timed` says that no time on record is in the future,
that a call under way began at most `MaxLag` ago, and that the times it took lie in
between. On it rest:
* `CooldownHolds`: `Rested`. `_last_fired` may go backwards, but whoever stores an older
  stamp read it in a call that is not over, so what is stored is at most one call's length
  behind a thread's own last fire; and a rule a thread found cooled stays so for that
  thread until it fires.
* `SilenceIsExplained`: the property is inductive. A stamp in `_last_fired` is the time of
  a fire whose thread is about to act on it, or has, in one of three ways.
* `StalenessHolds`: `Aged`, how old a stale copy can be in each place it may be: the list
  being read, the cache (before and after its time stamp is set), the list in use.
* `WindowIsKept`: `Dated`, how old an entry can be that a thread or a sweep writes back, and
  one that a thread then counts. The bound is two lags, one for each of the two calls,
  beyond the window, or beyond `WINDOW_ENTRY_MAX_AGE` when a sweep wrote to the list
  between the thread's own write and its count (`swept`).

**`RuleTuning_proofs`**, for any rules, critics and bounds: `IInv` is `TypeOK`, `Numbered`
(each version continues the numbers of its rule, or is a critic's of a rule that had the id
before) and `Waiting` (what a critic or a request is about to store fits in the same way,
as long as the rule it was taken of has the id; a rule it works on that is frozen now was
frozen since; no change switches a rule on).
* `VersionsStayNumbered` follows; `FreezeIsKept` and `CriticKeepsOff` are action
  properties proved of each action from it.
* `RestartKeeps`: `KeptInv`, that a shipped rule is always there and a rule with versions
  is marked as tuned, which is what the seed looks at.
* `DailyLimit`: `BudgetInv`. A change counts from when a critic applies it to its session,
  but its version is stored when that session commits, maybe after the counter was set
  back. So stored and in-flight changes of a period are bounded together, by the counter
  while the period lasts and by what the counter can reach afterwards; the counter plus
  the critics that ask now is at most the limit plus one per further critic. A commit
  maps what it stores one to one into what it takes out of flight (`CommitPays`).

**`Intake_proofs`**: `CountInv` gives `CountsStayConserved`. `NoLineThrice` needs to know
where each line may still be: `Lined` (the file and the batch are runs of consecutive
numbers), `Owed` (a line beyond the position, or in a file shorter than it, was read at
most once, for it will be read again; what came after the stat was not read at all).
`NoLineMissed`: `CoverInv`, that every line below the position is accounted for and,
between a stat and its read, every line below where the read begins; a failed read keeps
that only if the stat had not noticed a rotation. `IntakeTypeCorrect` adds `UdpTyped`
(what is queued or in hand was logged) and `StatInFile`.

**`Collectors_proofs`**

* `UniFi`: `ArrivalsCounted` (a client that has arrival events is remembered as known or
  still in the list being handled, with at most as many listings left as events are
  missing), `ArrivalsLate` (nobody in the first poll has one), `ClientsRemembered` and
  `DeparturesKnown` (who has a departure event is not among the connected) give
  `OneArrivalPerClient` and `OneDepartureEach`, for any clients, listings and failures.
* `Sniff`: `JudgedOn` says that what was reported of an address is among its normal MACs
  now, and that an address with normal MACs has one that was not reported: the first, which
  the freeze or the first packet put there. With the limit on normal MACs that bounds the
  reports. Before the freeze nothing was learnt or reported (`NothingLearnt`), so the
  packet that freezes the table is the only one that can report a router.
  `ConflictsAreFew` follows.
* `Pollers`: `PairsRemembered` (a pair has one job more than it was forgotten only while
  it is remembered) and `StreamsMarked` (a stream has an event only while it is marked, and
  the last outage event says what the collector takes the server for) give
  `SuspiciousHaveJobs` and `StreamsAlertOnce`. `NewPortsAreReported` needs that a rule that
  is cooling down has rung for a port (`QuietForAPort`).

**`Stores_proofs`**

* `Devices`: `EntriesKept` (what a user entered is in the row, whose last author is the
  user or the actor), `ReportersSaw` and `ActorSaw` (a session that is not outdated has
  read it so). `EntriesAreKept`, an action property, follows for each action: an inferred
  value is written only where the row read had none or was the system's.
* `Records`: `SerialsOnce` (a serial number is in the table or the archive once; every one
  written is in one of them), `AnswersExact` (a row or archive entry holds exactly what was
  written to it), `RequestKnown` (a request whose id belongs to another finding by now is
  for one that was archived, since as long as a finding is in the table no other has its
  id) and `AnswersAstray` give `AnswersAreKept`. `RecordsTypeCorrect` needs that ids do not
  outgrow the number of findings ever written, and that no two rows share one.
* `Settings`: `ToldIsStored` (what was confirmed is in the file while nobody was warned,
  and in force while the process runs) gives `SavedStaysInForce`.

**`Services_proofs`**

* `Backoff`: `BudgetHolds` is a budget: the time calls have been refused, plus what is
  left, is at most one longest backoff for each thread that is idle. A failure that sets a
  new backoff makes its thread idle, which pays for it. `RefusalsAreBounded` follows for
  any number of threads.
* `Chats`: `QuestionsGetAnswers` as a statement about any list (`Settled`): appending keeps
  it, and so does the cap, which takes entries off the front only (`CapKeepsTheEnd`).
* `Knowledge`: `KnowledgeInv` follows the sync: each section read is as old as the reading
  of the one before or newer (`SectionsFresh`); the collection in use exists and the new
  file has the document or nothing (`Located`); while the old files are removed, what is
  attached is to be removed or was kept for a reason, and from the upload on only the
  latter is left (`Cleared`); `Completed`. `OldDocumentsAreKept` and `SyncsAreFresh`
  follow.
* `LogStream`: the property is nearly inductive; `StreamInv` adds that a viewer who has not
  connected is nowhere, and that a line is handed over only once there is one. Each step
  extends, shifts or cuts a run of consecutive numbers at its ends.

**`Components_proofs`**: `CollectorsStep` and `ServicesStep` say that a step of the process
is a step or a stutter of every component. Hence `CollectorsAreKept` and
`ServicesAreKept`: its behaviours are behaviours of each; `ComponentsTypeCorrect` and
`PromisesHoldTogether` are the components' theorems carried over.

Only model-checked: the liveness of the queue (`TakenUpUnlessOutranked`, `ClaimsAreReclaimed`),
which is beyond the prover, and what is violated. Every other property of a passing run
is stated by a theorem.

## Not modelled, and what is left

* Approved devices, domains and ports (`baseline/manager.py`): rows that one request at a
  time writes, and that the engine reads once.
* Suppression patterns, the engine's known MACs and `fire_count` (`rules/engine.py`): the
  first only drop events; the others are listed as hazards with what a model would show.
* Hourly and daily rollups of stored events, deletion by age of the other tables.
* Notifications (no state), authentication and request filters (a comparison per
  request), notes and reports (one writer each), HTML.
* The wording of prompts and the taking apart of answers: an answer is a choice or none.
* Migrations, deployment and set-up scripts: they run before or outside the service.

Left for later, in this order: the rules' counters under an actor's session and the
feedback route at once (`RuleTuning` beside `JobQueue`); partial lines in the tailer; the
Open WebUI chats of agent cycles.
