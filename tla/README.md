# A TLA+ model of Sieve

Sieve (`src/sieve`, Python) is a proxy between an agent and a model provider.
It keeps an encrypted store of facts about its user, puts the relevant ones in
each request, offers the model a selection of the agent's tools, and learns new
facts from each turn in a background task. Around the proxy stand the commands
that install it, configure it, back its store up, demonstrate it and measure
it. This directory models the parts that change state, checks them with TLC on
small instances, and proves the most important properties for every instance
with TLAPS.

Each specification is translated from the source; `PROJECT.json` maps every
definition to the lines it stands for.

## 1. The system

| Component | Source | State | Operations | What makes it correct |
|---|---|---|---|---|
| Request pipeline | `main.py`, `proxy.py`, `progression.py` | one handler per request, phase derived from the number of current facts | decompose, ingest tools, retrieve, compose, post, verify and correct, write, fall back to the original request | every request is answered; a turn costs a bounded number of provider requests; in phase OBSERVE the next turn sees what this one said |
| Retrieval | `classifier.py`, `retrieval.py`, `slot_retriever.py`, `query_decomposer.py`, part of `main.py` | `known_unknowns`; the rest is read | classify, look slots up, decompose, search, rerank, hop, dedup, cap, merge, render | superseded facts stay out, the newest version and the best match stay in |
| Payload composition | `pipeline.py`, `history_preamble_adapter.py`, `config.py` | the payload being composed | lift, decompose, compose, trim to the budget, select tools, trim again, strip | the question survives, the facts go last, what is sent fits |
| Recall loop | `recall_tool.py` | rounds of one request | intercept recall calls, retrieve, post the results | the agent never sees the hidden tool before the rounds are used up |
| Memory writer | `writer.py` | one task per turn | extract, duplicate check, match, resolve conflict, write | no duplicates; a superseded row names its successor; a well-confirmed fact is not overwritten by chance |
| Fact store | `store.py` | tables `facts`, `vec_facts`, ... in SQLCipher, one connection, WAL | insert, update status, boost, vector search, slot timeline, open, close | rows are never lost; separate commits leave a usable state |
| Tool registry | `tool_registry.py`, `fingerprint.py`, `tool_compression.py`, `classifier.py` | table `tool_registry`, an in-memory fingerprint, the compression marker | ingest a list, reactivate, deactivate missing, recompute lean schemas, select | the catalog is the list the agent sent last |
| Knowledge graph | `store.py`, `writer.py`, `main.py` | entities, relationships | seed the owner, name entities, add an edge, polarity sweep | with each person one of the roles that exclude each other, the best supported |
| Validation rows | `validation_collector.py` | one row per turn while validation is on | start, record writer result, save | exactly one row per turn, and a true one |
| Test-mode event bus | `test_mode/event_bus.py`, `router.py` | counter, ring buffer, queue per connection | emit, subscribe with replay, stream, unsubscribe | in order, once, and no silent loss |
| Backup, restore, migration, keys | `backup.py`, `cli_keys.py` | database, WAL, key files, copies | create, restore, rotate, import, migrate | a backup holds what was committed; the key is never lost |
| Sandbox | `_sandbox.py`, `cli.py` | directories with a store, pid file and process of their own | sweep, enter, wait for health, tear down, hooks and signals | nothing is left, nothing alive is swept, the user's store is not touched |
| Installer, autostart, configuration | `_installer.py`, `_autostart.py`, `cli_config.py`, `cli_uninstall.py`, `config*.py`, `cli.py` | configuration file, store, unit file | install with rollback, init, set, reset, edit, uninstall | a failed install is undone, a working configuration is kept |
| Benchmarks and demo | `cli_benchmark.py`, `cli.py`, `_grader.py` | the store under test, results per run | ask, reset, baseline and Sieve pass, report; poll for new facts | passes start from an empty store, the numbers add up |
| Learning loop | `learning.py` | counters in memory | record an outcome, log a line every `tune_interval` interactions | no threshold is changed by it |
| Embeddings | `embeddings*.py` | LRU cache of values that never change | embed with retries | - |
| Verification, writer classifier, grader of models, security, clock, wizard, menu | `verify*.py`, ... | none that lasts | score, parse, ask, print | - |

How they interact. One asyncio event loop runs every handler, every writer
task and the event bus, in one process; a coroutine loses control only at an
`await`. Handlers and writers share the store's single connection, so a
statement that was executed and not committed is seen by all and committed by
the next commit of anyone. A handler calls the tool registry, retrieval,
composition and the recall loop directly, starts the writer as a task, awaits
it in phase OBSERVE, and with validation on awaits it again at the end of a
streamed response. The commands are other processes: those that handle the
store touch its files, those that demonstrate or measure spawn proxies of their
own over directories they share with one another.

What is hard. Interleaving at awaits (writers of several turns, ingests of
several requests, requests and their writers); chains of separately committed
statements that an exception or a crash may cut; caches checked before an
await or kept across a restart (fingerprint, compression marker); a cancelled
or timed-out wait; files copied one at a time; a consumer that reconnects to a
buffer that has moved on; rows that stay in an index after they are superseded;
two passes of trimming with a choice between them; hooks registered a step
after what they undo; processes judged by a pid; late writes of one measurement
in the store of the next. `PROJECT.json` lists the hazards at their lines with
the properties that would catch them.

## 2. The modules

| Module | What it is |
|---|---|
| `FactWriter`, `MCFactWriter` | the writer tasks over the facts table; statements for TLC |
| `FactLedger` | what the writer promises: one step per statement |
| `KnowledgeGraph`, `MCKnowledgeGraph` | entities and edges of the user, the seed of the owner; statements for TLC |
| `ToolCatalog`, `MCToolCatalog` | registry, fingerprint, selection; tool lists for TLC |
| `TurnPipeline` | a chat request from arrival to answer, writer and validation row |
| `ContextSearch` | one search of the store, as an operator |
| `Retrieval`, `MCRetrieval` | a question from arrival to the block of context, beside the writer; stores and questions for TLC |
| `LeanPayload`, `MCLeanPayload` | the composition of the payload under the token budget; conversations for TLC |
| `EventBus` | the telemetry stream of test mode |
| `StoreFiles` | the files of the store under every command |
| `Sandbox` | the scratch proxies of demo and benchmark |
| `Installation` | installer, autostart, `init`, `config`, `uninstall` on one machine |
| `Benchmark`, `MCBenchmark` | `sieve benchmark` and `sieve demo` over one store; a script for TLC |
| `*Proofs` | the theorems about the module they are named after; `StoreProofs` about `StoreFiles` and `KnowledgeGraph`, `CommandProofs` about `Sandbox` and `Benchmark`, `ContextProofs` about `LeanPayload` and `Retrieval` |

Definitions marked `Mutant` in the modules are plausible bugs, each placed
before the definition it would replace; no specification uses them.
`PROJECT.json` says which property each of them breaks. Of two modules that share
a proof module, one names its specification after itself (`GraphSpec`,
`RetrievalSpec`, `BenchmarkSpec`), for its proofs extend both.

### FactWriter and FactLedger

State: `facts` is the facts table as the shared connection sees it, `disk` as of
the last commit; `pc`, `said`, `next`, `coherent` are the writer task of each
turn; `job` is the write in progress. A statement is a record of what the code
compares: near-duplicate wording, meaning without the subject, topic, bound
predicate with its object, type, hedging. Confidence is counted in twentieths, the
unit of `boost_fact_confidence`.

Actions: `Send` (the request starts its writer), `Extract` (both extraction
passes, validation, session coherence: any list of candidates, also none),
`Decide` (from the return of the embedding to the next await or commit: the
duplicate check, `find_similar_facts`, `resolve_conflict`, a boost),
`Retire`, `Halve`, `Insert`, `Restatus`, `Link` (the commits of a write, in
order), `Raise`, `RaiseInInsert` (the vector insert fails after the row insert
in the same open transaction), `Crash`. While `job` is set no other task moves:
there is no await between the commits of one write.

`FactLedger` is the promise: a statement is remembered, set aside, or replaces
one row, each in one step. `View` maps the writer to it; the row about to be
inserted is shown as soon as its predecessor is retired.

### KnowledgeGraph

State: `entities` in the order of their rows, `edges` (the rows of
`relationships` that start at the user) as the connection sees them, `disk` as
of the last commit, the progress of the startup's seed, and per turn its place
in the loop over statements. `BootCheck`, `BootSeed`, `BootFails` are
`_maybe_bootstrap_owner_pin`, whose three inserts (user, owner, pin) are steps
of their own with a commit each; `NameEntity` is one `_get_or_create_entity`;
`Relate` runs from the return of the embedding to the next statement, with the
guard D41 (`Rejected`) and the merge D40 (`AddEdge`); `Sweep` is the polarity
sweep that ends a turn, `SweepFails` one that raises between its updates.
`Anchor` is the row the sweep takes for the user: the first whose name is any
of the owner's. Confidence is a rank; all the owner's names are one.

### ToolCatalog

State: `registry` (table), `fingerprint` (in memory), `mode` and `marker` (the
compression of the process and the stored one), per request its list, the
position of its ingest and the tools it is offered, and `overlapped`, the
history of whether a list came while another was being ingested. `Receive`
records the fingerprint and runs the ingest to its first await; `Embedded`
writes the row and runs to the next; `IngestFails` is a failed embedding or
statement; `Compose` selects; `Answer` counts usage. `Restart`, `StartupDies`,
`Recompute`, `Mark` are the startup with its two commits. Ranking is a choice:
any selection of active tools within the limit.

### TurnPipeline

State: `handler`, a record per turn (place between awaits, kind of reply,
recall rounds, requests posted, rows saved, whether the row has the writer's
result), and `writer`, the task of each turn. The two intercept handlers
(Ollama and OpenAI) have the same control and are one model. Writer, ingest,
retrieval and composition are single steps here; `FactWriter`, `ToolCatalog`,
`Retrieval` and `LeanPayload` open them up. `Compose` reads the phase from the
number of written turns; `Replied`, `Refused`, `Recall` are the loop;
`Verify`, `Corrected` the correction; `Raise`, `OriginalReplied`,
`OriginalFailed` the fallback; `Write`, `Observed`, `Rendezvous`,
`RendezvousTimeout` the writing and the row; `Stop` and `Kill` end the process,
which is then started again.

### ContextSearch and Retrieval

`ContextSearch` is `ContextRetriever.retrieve` from the return of the query's
embedding to its next await, as an operator of the store: the nearest `2k`
vectors of any status, the reranker with its floor, the filters by status and
confidence, the fallback to recent facts, both deduplications, the graph hop
with its reserve, the cap, MMR. The store is a record of what a search reads:
rank by distance, similarity, reranker score, entities, age, confidence, slot.
Ties are choices (`Searches` is the set of possible results).

`Retrieval` is one turn around it. State: the store (`world` fixed, `status` and
`unknowns` changing), and the coroutine: `phase` is the await it is at, `plan` the
searches to do, `searches` those done, `slots` the slot result, `answer` what the
turn gets. `Ask` runs to the first await (meta question, slot lookup, level 0 of
the classifier), `Level1`, `Decompose`, `Embed`, `Episodes` are the awaits,
`Deliver` ends the turn, `Raise` is anything raised on the way, which leaves the
turn without context. Each sub-query is tested for an enumeration and an
integrative question on its own; `bonds` are the rows of `relationships`, any of
which makes a slot lookup a hit. `Learn` is the background writer, which may store
a fact or supersede one at any await.

### LeanPayload

State: the request, the payload (`messages`, `block` for the size of the
context, `tools`), `slot` (whether the pass takes the second message for the
context) and which of the two passes it is. One action per step of the code:
`CheckBudget`, `TrimHistory`, `TrimTools`, `TrimContext`, between the passes
`Select`, at the end `Strip`. A message is its role and its place in the
request; sizes are numbers and add up.

### EventBus

State: `counter`, the ring `buffer`, and per connection its handler state and
queue, and per consumer what it received, the counter when it first subscribed
(`since`), and the id up to which nothing was offered to it because it came back
with no id (`blind`). `Subscribe` replays and registers in one step, as the code does;
`Disconnect` is the client, `Cancel` and `Abandon` the server noticing, before
or after the generator started.

### StoreFiles

State: the database and its WAL (each with the key it is encrypted with and the
transactions it holds), the key file with its `.bak` and `.tmp`, the key the user
exported, and the copies. Each action is one file operation of a command, in the
order of the code; `Raise` is an exception in a command, `Crash` kills it; either
may cut off a file that is overwritten in place (`Tear`). A rollback that raises
leaves the key file truncated and goes on to delete `.bak`, as the `finally` does.
`Content` is what opening a database beside a WAL gives: a WAL makes sense only
over the database it was written against, in the same key.

### Sandbox

State: per command its place (`sweep`, the steps of `__enter__`, the body, the
steps of `_teardown`) with what it has found so far, its directory with pid
file, and the proxy it spawned. `Look`, `Doubt`, `Remove` are the sweep's two
looks at a directory and its removal; `OpenPid` and `NamePid` the two halves of
`write_text`; `Spawn` and `Assign` the two halves of `self._proc = Popen(...)`.
`Load` and `Bind` are the child. `Signal` is SIGINT or SIGTERM, `Kill` SIGKILL,
`Raise` an exception in `__enter__`, `Die`, `Reuse` and `Age` what happens to
proxies, pids and directories meanwhile.

### Installation

State: what the configuration file holds, the store, the unit file with what
systemd knows of it, and `run`, the command under way with its place and its
hooks. The questions of the installer are `Ask`, the steps of `_apply_plan` are
`Apply`, each hook an action of its own after the step it undoes; `Rollback`
runs the hooks. A call of systemctl (`Systemctl`) works or is noted in
`run.missed`: it failed or timed out, with or without effect. The probe that
`enable_autostart` and `disable_autostart` begin with is one of them. `Edit` is
`config set | reset | edit`. Wherever `write_text` writes the configuration,
truncation and text are two steps. `Interrupt`, `Term` and `Kill` hit any place.

### Benchmark

State: the facts of the two stores by the run that taught them, the
extractions a proxy has still to write, the pass under way with what was still
to be written when it began (`late`), the results of each run, the counters of
the demo. `Ask` is the wizard with its checks, `Measure`
the passes, resets, answers, failures and the report, `Demonstrate` the demo;
`WriteLands` lets a background write arrive at any time, `BreakOff` interrupts.

## 3. What is checked

Every run passes. A specification has no fairness but in `FactWriter` and
`TurnPipeline`, whose `FairSpec` the runs with liveness use.

| Run | Configuration | States | What it shows |
|---|---|---|---|
| `writer_concurrent` | `FactWriterConcurrent` | 128 k | Three turns written concurrently, with one crash or exception at any commit: no text is stored twice behind a row with a vector (`NoDuplicates`), a retired row names a later one that was current (`SupersessionSound`), each failure leaves at most one row pending (`PendingBounded`), nothing committed comes back or goes away (`RetiredForGood`), every turn ends (`EveryTurnEnds`). |
| `writer_kinds` | `FactWriterKinds` | 2.87 M | Every branch of conflict resolution over all kinds of statements: each chain of commits is one step of the ledger (`ImplementsLedger`), and a well-confirmed row gives way only to a temporal or numeric update (`WellConfirmedKept`). |
| `graph` | `KnowledgeGraph` | 3.18 M | Statements about one person that contradict, repeat and return, interleaved and cut anywhere, beside the startup's seed, cut between its inserts and started again: when all turns have ended without a failure one of the roles that exclude each other is left, where the owner was seeded or the sweep finds the user (`OneRole`), whatever fails the best supported is kept (`StrongestKept`), and no name gets a second entity, however the seed is cut (`OneEntityEach`). |
| `catalog` | `ToolCatalog` | 1.46 M | Ingests of lists that add, drop, redefine and reorder tools, overlapping, failing and cut by restarts: the catalog is not emptied (`NeverEmptied`), a tool on every list stays (`UnanimousStay`), the recorded fingerprint vouches for the rows while ingests do not overlap (`CatalogFollowsAgent`), lean schemas are in the compression of the process (`LeanMatchesMode`). |
| `turn_pipeline` | `TurnPipeline` | 1.13 M | Two overlapping requests through recall rounds, correction, fallback, writing and rendezvous, with exceptions at any await, a stop and a kill: `NextTurnSees`, `RecallHidden`, `RowFaithful`, `RowComplete`, `EveryTurnEnds`. |
| `retrieval` | `Retrieval` | 3.44 M | One question of each kind against 2,160 stores, while the writer learns and supersedes and anything may raise: a search returns what is live when it runs (`OnlyLive`), the newest of each chain of near-duplicates (`NewestOfEach`), the near candidates there is room for beside the hop's reserve, of an enumeration the closest (`BestKept`), and a turn in which nothing was raised comes back empty only where rows that are filtered out crowd the candidates (`EmptyOnlyIfCrowded`). |
| `payload` | `LeanPayload` | 27.6 k | Every request over seven conversations through both budget passes: the question survives (`QuestionSent`), the facts go last (`FactsLast`), what is sent fits unless nothing is left to trim (`FitsOrBare`). |
| `event_bus` | `EventBus` | 14.3 M | Two consumers that lose and resume connections at any point: telemetry published since they first subscribed arrives in order and once (`InOrderOnce`), or they are told of a gap, but for one silent loss, that of a consumer cut off before anything had arrived (`NoSilentLoss`). |
| `store_cold` | `StoreFilesCold` | 14.9 M | Every command with the proxy stopped or killed: a backup holds what was committed (`BackupFaithful`), a finished restore is exactly the backup (`RestoreExact`), the key is lost in two windows of the rotation only (`LockoutWindow`). |
| `sandbox` | `Sandbox` | 2.28 M | Two commands with scratch proxies, hit anywhere: `NothingLeft`, `SparedOnceNamed`, `MainStoreApart`, each with the windows where the code does not keep it. |
| `installation` | `Installation` | 732 k | Two commands in a row from every state of the machine, interrupted between any two steps, with calls of systemctl that fail with or without effect: what a failed install undoes (`RolledBack`), that a configuration that loads is left alone (`ValidConfigKept`), where a service may outlive its configuration (`NoServiceWithoutConfig`). |
| `benchmark` | `Benchmark` | 6.82 M | Every benchmark of two runs and every demo, with writes that land at any time: a Sieve pass meets none of the user's facts and of other runs no more than they had left to write when it began (`CleanStart`), the headline adds up (`HeadlineSound`), the demo counts no fact twice (`DemoCountsOnce`). |

Six of the properties say where the code does *not* keep what one would
expect, and hold because they name it: `LockoutWindow`, `NothingLeft`,
`RolledBack`, `NoServiceWithoutConfig`, `NoSilentLoss`, `CleanStart`. Each
window is in the formula, and the mutants show that one window more is noticed.

**Bounds and why they suffice.**

* `FactWriter`: two writers show every interleaving of two chains, the third
  turn meets rows already superseded. `SearchLimit` 2 in `writer_kinds` makes
  the top-k cut a row that matters; `Confirmations = 0` leaves the boost to the
  confidences of `Kinds`, which lie on both sides of 0.9. Two statements agree in
  predicate and object and differ in wording, so that it is the object that
  contradicts and not the text.
* `KnowledgeGraph`: a duel of two roles needs two statements, a third role
  shows that the best of several is kept; the ranks reach the cap of the boost.
* `ToolCatalog`: three names and six lists give a list that contains, overlaps
  and reorders another; two ingests in flight, three requests so that one
  comes after an overlap; one restart with both commits of its recompute.
* `TurnPipeline`: two turns overlap in every way; two recall rounds distinguish
  the last one; thresholds 1 and 2 put all three phases within reach.
* `Retrieval`: four facts of which three stored and one to learn; `MaxFacts` 3
  and a reserve of 1 make the cap bite, `PrePopK` 1 doubles to two candidates,
  so that one superseded vector can crowd another out. In `Linked` two facts
  are found over the graph only, so that a hop fills the cap.
* `LeanPayload`: a message is 1500 and the explicit budget 8000 characters, so
  that the conversations lie on both sides of each of the trimming steps.
* `EventBus`: a buffer of 2 and five ids, so that events fall out before, while and
  after a consumer is away; three connections for two consumers.
* `StoreFiles`: three keys (the old, the new, the one of a rotation repeated),
  two commits (one in the WAL, one not), two exceptions, so that the rollback of a
  failed rotation may fail as well, and one kill anywhere.
* `Sandbox`: two commands are a sweeper and a swept in both roles; two hits
  interrupt a teardown begun by the first.
* `Installation`: two commands, so that the second meets what an interrupted
  first one left; all states of the machine are initial; two failing calls of
  systemctl are an `enable` and the probe of its rollback.
* `Benchmark`: a script of five messages of which two are expected to be
  recalled, asked in full or shortened; windows on both sides of each check.

Deadlock is not checked (`CHECK_DEADLOCK FALSE`) where all requests, runs,
connections or commands of a bound may be used up; the system then rests, as
the real one does between requests. `LeanPayload` always accepts one more
request and is checked for it.

**Fairness.** `FactWriter` and `TurnPipeline` state weak fairness of the steps of
a turn that has begun: the event loop runs every ready coroutine, and each
await ends, since the calls to providers have a timeout (`CLIENT_TIMEOUT` in
`proxy.py`, the bounded retries of `embeddings_provider.py`). No fairness is
assumed of users, failures, restarts, or of a timeout coming before an answer.
The other modules claim safety only: what they model is driven by a user or a
client.

**Assumptions.**

* One event loop in one process, one connection; control passes at awaits only.
* Restore, rotation and import are run with the proxy stopped. Nothing in the
  code enforces it. `HotCopies` is the constant that lets backups run beside a
  proxy; the runs keep it `FALSE`, and with `TRUE` TLC breaks
  `BackupFaithful` (section 5).
* A client reads a streamed response to its end.
* `PRAGMA rekey` and `os.replace` are atomic; a file written in place may be
  torn.
* The order of vector distances is a rank, and reranker scores, similarities
  and entities are data: the models say nothing about how good they are.
* Similarities lie between 0 and 100 percent. A negative cosine would not be
  clamped by the code (`retrieval.py:828`) and would favour a fact of the graph
  hop; `BestKept` of an enumeration rests on there being none.
* Sizes in `LeanPayload` are additive.

## 4. What is proved

`tlapm` checks each of the following for every value of the constants that the
named assumptions of the modules admit (`StatementAssumption`,
`BoundAssumption`, `GraphStatements`, `GraphBounds`, `StoreAssumption`,
`PipelineAssumption`, `ListsAssumption`, `CatalogBounds`, `SizesAssumption`,
`RequestsAssumption`, `ChoicesAssumption`, `CapsAssumption`, `AsksAssumption`,
`WorldsAssumption`, `TopsAssumption`, `SandboxAssumption`,
`BenchmarkAssumption`, `BusAssumption`, `InstallationAssumption`): any number of
turns, facts, statements, tools, commands, keys, consumers, runs and failures.
Every safety property and every action property of the runs is the conclusion of
a theorem.

* **`FactWriterProofs`**: `TypeCorrect`, `NoDuplicatesEver`,
  `SupersessionAlwaysSound`, `RetiredForGoodAlways`, `PendingBoundedAlways`,
  `WellConfirmedKeptAlways`, `WriterImplementsLedger`. None of the properties is
  inductive: they say nothing of the write in progress. The invariant `IInv` adds
  what `job` promises: the row it retires is the one it found, the row it inserts
  is not there yet or is the last, no other row has its text behind a vector, and
  `disk` is the table as it was at the last commit, with the same or fewer rows.
  `StuckBounded` counts the rows left pending by a write that is over against the
  failures so far. `Replacement` says of the row a write is about to retire what
  `resolve_conflict` compared, and that nothing changed it since. The refinement
  maps each step of the writer to one step of the ledger or to none, through
  `View`; it is proved for `MaxFailures = 0`, as it is checked, because a chain
  that is cut is no step of the ledger.
* **`StoreProofs`**, of `StoreFiles`: `StoreTypeCorrect`, `LockoutOnlyInWindow`,
  `ColdBackupFaithful`, `RestoreExactAlways`. The first part of the invariant
  follows the key through the rotation: at each step one of key file, `.bak`,
  `.tmp` and the printed key opens the database, or the rotation is in one of its
  two windows. The second follows a cold backup: with the proxy down every
  committed transaction is in the database or in a WAL that fits it. The third
  (`Restoring`) says that between the copies of a restore no WAL is beside the
  database, and that the database stays the backup's. Of `KnowledgeGraph`:
  `StrongestKeptAlways`, `OneRoleAlways`, `OneEntityEachAlways`, for any number of
  names, roles, statements and turns. `KeptRoles` has the strongest role kept in
  the connection's table and on disk as well, since a crash makes the one the
  other. `Unswept` says that while the sweep looks at the user and nothing failed,
  two rival roles are the work of a turn whose own sweep is still to come;
  `UserNamed`, that no edge comes before its entity. `Seeding` says which rows the
  startup has seeded at each of its steps, and that with the pin the user came
  first. `SeededOnce` says that while the seed runs the entities are those it has
  inserted and no turn is under way: a start that finds an entity seeds none.
* **`TurnPipelineProofs`**: `TurnTypeCorrect`, `NextTurnSeesAlways`,
  `RecallHiddenAlways`, `BoundedPostsAlways`, `RowFaithfulAlways`,
  `RowCompleteAlways`. The invariant is a conjunction per turn: `Cost` ties the
  posts to place and rounds, `Hidden` the kind of reply to the rounds left,
  `Begun` the writer to the place of the handler, `Recorded` the row to both. A
  step changes one turn, so two lemmas (`Move`, `Change`) reduce each action to
  its own turn. `BoundedPostsAlways` is not among the runs' properties: at most
  `MaxRounds + 3` requests per turn.
* **`ToolCatalogProofs`**: `CatalogTypeCorrect`, `NeverEmptiedAlways`,
  `UnanimousStayAlways`, `LeanMatchesModeAlways`, `CatalogFollowsAgentAlways`.
  `AtTool` says where an ingest stands in its list and is needed even for the
  types; `LeanSteps` follows mode and marker through a startup that may
  die between the two commits; `Following` says, at each place of an ingest
  that runs alone, which tools of its list are done.
* **`ContextProofs`**, of `LeanPayload`: `TypesKept`, `FactsCutLast`,
  `QuestionAlwaysSent`, `FitsOrBareAlways`, for all sizes of messages, tools and
  contexts and all budgets. `FactsCutLast` needs the size that had to be
  exceeded at each step of a pass. The others rest on `TrimInv`: what stands
  first and second at each place (`Placed`), how far the trimming has come and how
  it ended (`Trimmed`), and that the question is the last message of a user
  (`Asked`); its lemmas count the users' messages in parts of a conversation.
  Of `Retrieval`: `OnlyLiveAlways`, `NewestOfEachAlways`, `BestKeptAlways`,
  `EmptyOnlyIfCrowdedAlways`, for any store, question and number of facts asked.
  `TurnInv` says that what a turn has searched are results of `Searches` for
  this world and some status of its rows (`Searched`), and that an empty answer
  had empty searches only (`NothingFound`). The rest is about one search, stage by
  stage (`Stages`):
  - Every loop of the code is a `Repeat`, and what it keeps is shown by one lemma,
    `RepeatKeeps`: an induction over the set of its steps, by way of the least
    step that fails.
  - The union-find: parents always form a forest, whose trees are no deeper than
    they are large, so that `Root` reaches the root in as many steps as there
    are facts (`Forest`); two positions have one root exactly if a chain of the pairs
    joined so far leads from one to the other (`Clustered`). With all pairs joined
    that is `Chained`, a transitive closure defined without any order.
  - MMR takes at each step a fact that scores as high as any left. A fact of the
    hop scores at most 2184; a candidate on its own at least 4074 while nothing is
    selected, and the closest of several at least 3874 whatever is. Several
    candidates of a search that is no enumeration fit under the cap together with
    what their hop may bring.
  - A search with no result had no usable candidate. Either all rows with a
    vector were candidates, or there were `2k`, each taken out by a filter.
* **`CommandProofs`**, of `Sandbox`: `NothingLeftAlways`, `SparedOnceNamedAlways`,
  `MainStoreApartAlways`, for any number of commands and signals. `IInv` has three
  parts per command (`Placed`: what each place implies of directory, pid file and
  hook; `Owned`: what a proxy implies of its command; `Left`: what a command that
  is over may leave) and one per pair (`Swept`: what a sweeper has seen is still
  so, or has become safer). All but two actions touch one command; `Doubt` and
  `Remove` touch another's directory and are proved directly. Of `Benchmark`:
  `CleanStartAlways`, `HeadlineSoundAlways`, `DemoCountsOnceAlways`, for any
  number of runs and any script. `WritesOwned` says whose writes may still be on
  their way at each place, and that those of the other runs were on their way when
  the pass began. `GradedOnce` compares what a pass has graded with what the
  script has asked so far (`Expects`) and every run with the whole script; the
  sums of the report are over a set of runs, by the same kind of induction.
  `DemoApart` keeps what the demo has counted within what the store has gained.
* **`EventBusProofs`**: `BusTypeCorrect`, `InOrderOnceAlways`,
  `NoSilentLossAlways`, for any size of the buffer and any number of consumers
  and reconnections. A consumer comes back with the id it received last, which
  may be that of a notice, so the invariant says more than the two properties:
  every id handed out is in the buffer or older than all of it (`Known`), what
  waits is newer than all telemetry received (`Ahead`), and what is owed is in
  the queue itself or covered by a notice at its head (`Owed`), for a
  notice further back would come too late for a connection that drops before it.
  What a consumer without an id has missed is at most `blind`.
* **`InstallationProofs`**: `RolledBackAlways`, `ValidConfigKeptAlways`,
  `NoServiceWithoutConfigAlways`, for any number of commands and signals. For an
  install the invariant gives the hooks registered at each place (`Hooks`), what
  it has done by then (`Done`), what a rollback still has to undo (`Undoing`),
  which calls of systemctl it has missed, and
  that nothing was touched where a configuration loaded (`Kept`); for the other
  commands, that they enable nothing and wipe last (`Others`).

**Only model-checked.** Liveness, that is both `EveryTurnEnds`: fairness and
`ENABLED` are beyond the prover. The refinement with failures is neither checked
nor proved, since a chain cut by one is not a step of the ledger. Induction over
data is beyond the prover as well, but not induction over a set of numbers (every
non-empty set of naturals has a least element, from `WellFoundedInduction`): the
loops of `Retrieval` and the sums of `Benchmark` are proved that way.

**What the proofs changed.** `BestKept` used to say of every search that no near
candidate with room under the cap is lost. TLC agreed and the proof did not: an
enumeration lets the graph hop bring as many facts as are returned
(`retrieval.py:361-362`), and all but the closest candidate can lose their places
to them. The instance was too small to show it; it now has stores with two facts
that only the hop finds (`Linked`), and `BestKept` says of an enumeration what the
code does. It speaks of no candidate past the first cap: those are lost.

## 5. Disagreements

What the code does, where a document, a comment or a message says otherwise, or
where a reader would expect otherwise. Nothing here is a failing run: the
properties are stated so as to hold, with these exceptions named or left out.

**Facts.**
* The later statement wins (`writer.py:1575`), except where it was once
  superseded: the duplicate check (`writer.py:1842`) does not look at the
  status. Told Boston, Tokyo, Boston, the store ends with Tokyo.
* A failure between `Retire` and `Link` leaves `superseded_by` at `pending` for
  ever. The row found as a contradiction may be superseded already
  (`writer.py:2220`), so that two rows on one topic are current.
* `supersede_slot` (`store.py:1103`) has no caller and `valid_to` is never set,
  so that the timeline of a slot shows superseded rows as `[CURRENT]`
  (`context_format_v2.py:69`). Rows of `known_unknowns` are never deleted: a
  slot may be `[CURRENT]` and `[NOT PRESENT]` at once (`slot_retriever.py:276`,
  `context_format_v2.py:47`), and any such row makes each later slot question a
  hit (`slot_retriever.py:60`, `main.py:1129`).
* The slot lookup is done before the embedding's await and rendered after it, so
  that a row shown as current may have been superseded meanwhile
  (`main.py:1136`, `1167`).

**Retrieval.** Superseded vectors stay in the index and count towards the `2k`
candidates, so that live facts may be crowded out. The floor of the reranker spares
the first candidate, also one the filters remove next. `confidence or 1.0`
makes a confidence of 0 full. The graph hop of an enumeration may bring as many
facts as are returned (`retrieval.py:361-362`) and take the places of all
candidates but the closest. Any other search keeps `reserve` places for the hop
(`retrieval.py:331`), and the candidates past the rest are lost even when the hop
finds nothing. Whatever is raised in retrieval leaves the turn without context
(`main.py:1335-1337`). Results of several searches are merged with no
dedup by time, and the fallback after an empty multi-search asks the first
sub-query only, without the footer on episodes. The gate of level 1 counts
superseded facts.

**Knowledge graph.** The sweep looks at one entity with any of the owner's names
(`writer.py:2474-2477`), the oldest. An owner named by an alias before the name
`User` exists makes that an entity with no edges, since edges start at `User`
(`writer.py:2361`), and two roles that exclude each other stay, against the
comments of the sweep ("catches cases where an edge slipped past the write-time
D41 check", `writer.py:2419`). With the antecedent `pin \/ Anchor = User` of
`OneRole` left out, TLC finds one turn that does it, with no failure. A turn that
raises never sweeps. A seed cut after its first insert is never completed: the next
start finds an entity and leaves the pin out (`main.py:115`).

**Tools.** A request that offers no tools is given those of earlier ones
(`pipeline.py:525`), and a selection may name tools only another request's list
has (`classifier.py:501`). A failed embedding keeps a tool out of selection by
similarity until its definition changes (`tool_registry.py:186`). A startup that
dies between recomputing and marking recomputes again.

**Payload.** The first pass may cut history to make room for tools that the
classifier then drops; it is not restored. `_last_n_turns` keeps an assistant
reply that precedes the first user message kept. A system message of the
history in second place is taken for the context when there is none, and may
be removed. The question of a conversation that ends in a tool result is part
of the history, so that `QuestionSent` rests on at least one turn being kept
(`config.py:546-550`). The second pass may drop the recall tool.

**Requests.**
* `wait_for` cancels the writer at the rendezvous timeout (`main.py:65`), which
  the docstring says is "left running" (`main.py:55`).
* A stop closes the store with writers running (`main.py:333`). The think toggle
  is one global setting (`main.py:531`). A client that drops a stream leaves no
  row (`main.py:838`). The envelope of `/sieve/validation/next` is shared by
  overlapping turns. A status request leaves no row; the row of a request not
  streamed never holds a background writer's result.
* The learning counters are lost with the process, though `learning.py` speaks
  of `interaction_count % tune_interval == 0` over the life of the store.
* The notice of a gap in the event stream has a higher id than the replay
  that follows it. A consumer cut off before anything had arrived has no id to
  come back with, and gets neither a replay nor a notice of what it missed
  (`event_bus.py:186`).

**Files and keys.**
* A backup beside a running proxy is not "self-consistent" (`backup.py:46`): a
  checkpoint may come between the copies (`backup.py:62`).
* "rolls back the keyfile on any failure" (`docs/cli-reference.md:296`): not one
  between the rekey and the temporary key file (`cli_keys.py:63`, `89`), and not
  one in the rollback: what fails there, a disk that is full say, has truncated
  the key file already, and the `finally` deletes `.bak` all the same
  (`cli_keys.py:86-93`). Those are the two windows of `LockoutWindow`. A rotation
  deletes the last copy of the old key, so that a backup made before cannot be
  opened after it.
* The copies set aside by restore and migration leave out the WAL of a killed
  proxy (`backup.py:140`). Restore and rotation do not ask whether a proxy has the
  store open (`backup.py:151`).

**Sandbox** (`_sandbox.py`, `cli.py`).
* The pid file is opened, then written ("Write the pidfile atomically", about line
  268): a sweep between the two takes the sandbox for abandoned if it is old.
  A child whose directory went finds no configuration and opens the user's store,
  against the promise at `cli.py:1487`.
* A signal between the fork and `self._proc = ...` leaves the proxy; a second
  one breaks the teardown off while "sandbox cleaned up" is printed all the
  same (`cli.py:1581`, `2361`). An exception before the hook leaves the
  directory until it is aged; a killed command leaves its proxy.
* Two commands may pick the same free port. `keep_on_fail` is never passed.

**Installation** (`_installer.py`, `_autostart.py`, `cli.py`).
* A rollback deletes a broken configuration that was there before, though the
  message says it was not modified (`_installer.py:157`). A broken `sieve.yaml`
  in the working directory, or an invalid `SIEVE_MODE`, makes a valid
  configuration count as not installed: it is overwritten, and deleted on
  failure.
* An interrupt between writing and registering leaves the file, one between
  enabling and registering the service. After the hooks are cleared a
  failing panel says "rolled back" and nothing is. SIGTERM in the start step
  rolls back, then prints "Sieve is ready". A second Ctrl-C ends a rollback. A
  failed `systemctl disable` is ignored. Before it, `systemctl --user --version` is
  asked; if that fails or times out, a rollback leaves unit file and service
  (`_autostart.py:165-167`, `270-271`). An `enable` that times out may have
  enabled the service, for which there is then no hook (`_autostart.py:132-134`,
  `243-246`). Store and keys outlive a rollback, a
  running proxy an uninstall.
* `config edit` accepts keys the daemon refuses; `write_raw` is not atomic.
* "a broken / half-written yaml is NOT counted as installed"
  (`_installer.py:342-344`): one that was truncated and not written is, for the
  loader reads an empty file as one without settings (`config.py:385`).
* `sieve start` never starts the proxy: `_pid_running` returns `False` before
  the code that would (`cli.py:238-247`, docstring `155-159`), so that
  daemonising, `stop`, `restart` and `status` are dead code.

**Benchmark** (`cli_benchmark.py`, `cli.py`).
* The reset is more than "cheap insurance" (711-713): without it late writes of
  one run reach the next, as the mutant of `CleanStart` shows. Nor is it enough:
  nothing waits for the writers of a run (697-717), and what they write after the
  reset counts for the next pass. Failures to
  delete a table are skipped (674-677).
* The questions of a shortened script are graded by position, the trap too
  (`response_recalls`, 94). `gradable_recalls` is that of the first run (871): had
  it failed turns, the report may read 5/5 to 6/5. A Sieve turn that failed
  counts as having sent nothing, which overstates the savings (581-585).
* `--use-main-store` needs a pid file that `sieve start` never writes. In the demo a
  200 that does not parse resets the streak of failures; an aborted demo exits
  with 0.

## 6. Not modelled

* Text: extraction, similarity, scoring, rendering. Where their result decides a
  branch it is a choice or data of the world.
* Of the writer: extraction of stage 2, episodes, coherence scoring, entity links
  beyond their commit. Of the store: decisions, the audit log, schema upgrades.
  Of the graph: edges between facts, spelling variants of relationships. Of
  retrieval: the related entities of `multi_hop`, absence signals, the content of
  episodes, distances beyond their order.
* Of the proxy: passthrough, the emission of telemetry, the management API; of
  test mode: run control, clock, store wipe.
* Verification, the writer's classifier and the grader, embeddings: calls and
  computations without state that lasts; they are awaits that succeed or fail,
  and choices. The learning loop changes nothing but a log. Security and clock
  have no state to speak of.
* Wizard, menu, `update`, inspection commands: interactive I/O. The daemon's
  commands are dead code (section 5).

## 7. Plan

1. Proofs: the ledger with failures, as an abstraction that lets a chain be cut
   where a commit may fail; abstract specifications of the tool catalog and of the
   event stream, and that their modules implement them.
2. The run control of test mode (`test_mode/router.py`): start, checkpoint, wipe
   and end of a run against requests in flight.
3. Stage 2 of the writer and episodes beside `FactWriter`.
4. The order of shutdown (`main.py:333`): the store is closed with writers
   running. It is the one hazard of `PROJECT.json` no property covers.
