# CodexPro Bridge: a verification project

The Bridge is one Go process (`cmd/codexpro-bridge`) between an agent client and
the services of a workstation. The client sees a small set of MCP tools. Behind
them are a task store with audits and receipts (`work/`), a router to upstream
MCP servers (`shared_mcp/`), an accelerator that executes upstream calls under
receipts (`accelerator/`), a memory router and a skill index. This directory
holds TLA+ models of the parts where order, failure and concurrency matter, the
TLC runs that check them and TLAPS proofs of the most important results.

Source paths below are relative to the repository root.

## 1. Inventory

| Part | State | Operations | Talks to |
|---|---|---|---|
| MCP server (`server/`) | none of its own | one handler per tool, each request in a goroutine; `route_and_recall` | all runtimes |
| Capability registry (`capabilities/`, `server/adapters.go`) | the modules and the tool operations, filled once at start-up | register the adapters, validate the operator's selection, serve the tools of the enabled ones and audit them | runtimes |
| Accelerator (`accelerator/`) | none | `mcp_search`, `mcp_call`, `mcp_batch`, `receipt_prepare`, `receipt_finalize`; result shaping | Work store, shared MCP |
| Work Runtime (`work/`) | SQLite file: projects, tasks, task steps, checkpoints, artifacts, audits, audit checks, operation receipts, conversation affinity, result blobs | the operations of `WorkOperations`; receipts, stored results, affinity, resume capsule for the accelerator | SQLite |
| Store (`work/db.go`) | `user_version`, the schema; `initMu` | `Connect`: open, create or upgrade, check permissions | SQLite, the file system |
| Shared MCP (`shared_mcp/`) | none: routes are rediscovered for every request | `ListTools`, `CallTool`, `ResolveTools`, `CallResolved`, `TransportForRoute` | AgentGateway's configuration, upstream servers |
| Shared memory (`shared_memory/`) | none: a source (obsidian, memos) is the name of an upstream route | list the tools of a source, call one, search one source or all, recall | shared MCP (`TransportForRoute`) |
| Skills (`skills/`) | none: the catalog is read anew for every request | list, route, load, resource | the Skills Manager's CLI, `SKILL.md` files |
| Core, contract (`core/`, `contract/`) | configuration; static tool descriptions | load, redact | environment |

What is hard, and where it comes from:

* **Every operation opens its own SQLite handle and autocommits every
  statement.** Only the schema upgrade uses a transaction. Two requests
  interleave between any two statements, and a failure or a crash leaves the
  statements before it. Two mechanisms hold this together: `UNIQUE` constraints
  (operation id, checkpoint sequence, step position) and the task's revision.
* **An upstream call that errs may have been executed**, now or later. The
  receipt protocol classifies what the Bridge knows (`failed`, `unknown`,
  `returned`), and a client that retries learns from its receipt whether it may.
* **Names of upstream tools are computed from the routes that answer at that
  moment**, so a name listed at one time is resolved against another catalog.
  A memory source is found by its route's name in the same way.
* **Parallel batches** use goroutines, a semaphore and a wait group, with errors,
  cancellation and deadlines cutting in.
* **Timestamps have whole seconds**, and the latest audit decides a gate.
* **The skill library belongs to others.** One request reads each `SKILL.md` up to
  three times while skills are edited, deleted and disabled, and waits for a CLI
  that is run without a timeout.
* **Some requests look at several services**, and one of them may fail:
  `route_and_recall`, a memory search of all sources. What failed must neither be
  hidden nor take the rest with it.
* **The resume capsule reads one table after the other**, without a transaction,
  under LIMITs.

What makes each part correct:

| Part | Properties |
|---|---|
| Receipts and calls | an operation id is executed at most once; nothing is sent before it is recorded; what is recorded and answered is true; no answer invites a blind retry; every call ends |
| Checkpoints | the sequences of a task are a gap-free chain whatever writers race |
| Tasks, audits | transitions follow the table; completion needs a PASS for the current content; a PASS rests on evidence; a later audit wins |
| Store | a handle is only given on a complete schema; the upgrade is atomic; old files open in the end |
| Resume capsule | a mutation that was sent is in `do_not_replay`; its parts do not contradict each other |
| Catalog, memory sources | a name never reaches another tool, or a source another upstream, than the one listed; what is denied is not there under that name |
| Skills | an answer is never older than the request, a text never older than its hash; a skill that is denied was away; a walk through the pages misses nothing |
| Shared memory | what a client is told of a source is true: not sent, carried out, or not known |
| Surface | exactly the tools of the enabled modules, each with the operation of its module; dependencies enabled; the memory module's tools and `route_and_recall` reach a source only if it is enabled and the client asked (`mcp_call` and the accelerator reach every upstream, the sources among them, whatever is enabled) |
| `route_and_recall` | an outage stops nothing else, and an answer that admits to none rests on a search; every call ends |
| Batch | bounded, joined, fully accounted for, always answered |

## 2. Modules

| Module | Models | One action is |
|---|---|---|
| `CheckpointLog` | the checkpoints table and `checkpointCreateDB`'s two statements, as operators | — |
| `OperationLedger` | abstract: what receipts promise | the binding, or the execution, of an operation id |
| `Accelerator` | `mcpCall`, `executeResolved`, `receiptPrepare`, `receiptFinalize` over `ReceiptPrepare`, `ReceiptFinalize`, the checkpoints and one upstream | one statement, or one exchange with the upstream, of one request |
| `ResumeCapsule` | `resumeCapsule` beside the requests of `Accelerator`, which it extends | the same, or the reading of the checkpoint, or of the receipts |
| `WorkRuntime` | one task: `TaskTransition`, `TaskUpdate`, `TaskStepAdd`, `TaskStepUpdate`, `Artifact*`, `Audit*`, `CheckpointCreate` | one statement of one client's operation |
| `StoreSchema` | `Connect`, `migrate`, `migrateV1ToV2` | one statement of one opener |
| `Batch` | `mcpBatch`, `withTimeout` | one step of one goroutine; an upstream call is two |
| `ToolCatalog` | `catalog`, `ListTools`, `ResolveTools`, `CallResolved`; `TransportForRoute` under the memory sources' `ListTools` and `CallTool` | the start, one route's answer, or the end of a request; a whole memory request |
| `Skills` | `collect`, `SkillsList`, `Route`, `LoadSkill`, `LoadSkillResource`, and those who change the library | the CLI's answer, one read of one file, the end of a request |
| `SharedMemory` | `ListTools`, `CallTool`, `Search` over the sources | the route, the session, the message or the answer of one source |
| `Surface` | `registerAdapters`, `Registry.Register`, `ValidateSelection`, `SurfaceAudit` | the registration of one adapter, the serving of the tools |
| `RouteAndRecall` | the tools of skills and memory and `routeAndRecall`, over the three modules above, which it extends | a client's call, a step of one of them, an answer |

`Accelerator` and `WorkRuntime` both extend `CheckpointLog`: they write the same
table through the same two statements. `Accelerator` is shown to implement
`OperationLedger` by `INSTANCE ... WITH` (`Ledger`): an id is bound to the call
of its receipt, and executed by the requests that name it and that the upstream
carried out; the runs check the refinement and `Accelerator_proofs` proves it. `ResumeCapsule`
adds a reader to `Accelerator`, which is proved to disturb nothing there, and
`RouteAndRecall` composes `Surface`, `Skills` and `SharedMemory`. `Batch` takes
from `Accelerator` that a call ends with an answer or an error. `MC*` modules
give the constants their values for TLC.

Correspondence of state:

* `Accelerator`: `receipts` and `log` are the tables; `pc`, `req`, `out`, `tip`
  are the locals of a request's goroutine (`tip` is the row the checkpoint's
  SELECT returned); `answer` is the tool result; `flight` and `ran` are the
  network and the upstream's history. Receipt ids and generated operation ids
  are fresh in the code (`newID`), so the request itself stands for them. A
  receipt's `by` is history: who finalized it. A failed upstream tool
  (`IsError`) is a returned result in the code and in the model.
* `WorkRuntime`: `task`, `steps`, `artifacts`, `audits` (each with its checks)
  and `log` are the tables; `pc`, `loc` the locals. An audit's `material` and
  `before` are history: the content at the moment its creation read the task,
  and how many audits there were. The label an operation is at names the
  statement it will run next. Of `task.update`'s fields only `audit_required` is
  kept, the others only raise the revision. The task's `torn` is history too:
  the revision at which a change was last left without its touch by a failed
  statement. Rows that exist never disappear, so a SELECT that only finds a row,
  and the final SELECT of an answer, are not steps.
* `StoreSchema`: `db` is the committed file, `tx` the uncommitted one of the
  upgrade; an object stands for the CREATE or ALTER statements that go together.
* `Batch`: `st`, `due`, `results`, `fatal`, `sem` are the goroutines' progress,
  the timeouts they run under, the results slice, the collected error and the
  channel's fill. `ToolCatalog`: `asked` and `answered` are the endpoints found
  and those that answered, `known` and `listed` what the client was shown, by
  tool name and by memory source, and `outcome` how its last call went. A memory
  request asks discovery once and then one route, so it is one action; a listing
  that fails changes nothing and is left out.
* `ResumeCapsule`: `newer` is the order of the receipts by `started_at` and rowid,
  as the set of those after each: a receipt comes after those its SELECT could see
  and anywhere among the others, for its second is taken before an INSERT that may
  wait. The LIMITs are counts over it. `reader` is the capsule between its SELECTs;
  `older` is history.
* `Skills`: `enabled`, `readable` and `version` are the library, `reading` is the
  request and its answer, `walk` a client that follows `next_offset`, with no
  other call in between. What a file says is the number of its edits and its
  `name`, which an edit may change, also to one that another skill has: the name
  is what a list is sorted by and what a skill is loaded by. The order of equal
  names is any (`sort.Slice` is not stable).
  `SharedMemory`: `asking` is the request and what each source answered, `wire`
  and `ran` are the network and the upstreams. `Surface`: `registered`, `bound`
  and `selected` are the registry, `served` the server's tools; an adapter's
  operations are bound before its names are compared, as in the code, where a
  collision then ends the start-up.
* `RouteAndRecall`: `front` is the tool call under way with its arguments and its
  answer. `CallForward` is a call of `mcp_call` or of the accelerator whose upstream
  tool is one of a memory source: its names and its receipts are the subject of
  `ToolCatalog` and `Accelerator`, and here it is a message to that source.
  Calls of these tools write nothing that another reads, in the Bridge,
  so one at a time meets all that a call can meet. The library changes while a
  call is under way; a change between two calls is one at the second's beginning.

Faults are a constant of the models (`Faults`, `MaxFaults`): a statement that
fails (busy longer than `busy_timeout`, I/O) and the death of the process. The
tables and messages on their way survive it, the locals do not.

Definitions marked as mutants are not part of a model. Each breaks one
definition in the way a plausible mistake would and shows that a property
notices.

## 3. Runs

`tlc -config <run>.cfg <module>`, with `MC*` modules where there is one. The
largest, `ResumeCapsule` and `FrontDoor`, take about three minutes with two
workers.

| Run | Instance | Shows |
|---|---|---|
| `AcceleratorSafety` | 3 requests (calls, licences for an external executor, client finalizations), 1 operation id, 2 different calls, crashes, failing statements | duplicates and retries execute at most once (`AtMostOnce`); receipt and `mutation.before` precede the call (`WriteAhead`); records and answers are true (`HonestReceipt`, `HonestAnswer`); a mutation that ran or may run is never declared retryable (`NoBlindRetry`); all of it refines `OperationLedger` (`LedgerSpec`) |
| `ResumeCapsule` | 2 requests of any kind, 2 ids journaled into 1 task, a capsule with a window and a list of 1, crashes, fairness | what was sent is listed (`SentIsListed`); checkpoint and receipts agree (`CapsuleAgrees`); the history is one chain across operations (`OneChain`); every request is answered unless the process dies (`Answered`) |
| `WorkFences` | 2 clients, a step, artifacts, updates, checkpoints, 2 audits in 2 seconds, 2 revisions, failing statements | the revision fences audits (`RevisionFences`), beside checkpoints (`OneChain`); a tie within a second never prefers an older audit (`LaterAuditWins`) |
| `WorkGate` | 1 client, every operation but checkpoints, 3 revisions, 2 audits of 1 check | when operations do not overlap: the done gate (`DoneIsGated`); completion only by a PASS of exactly the content there is (`MaterialChangeBlocks`); evidence and completion times (`PassIsBacked`, `StampsAgree`) |
| `SchemaOpen` | 3 openers in 2 processes, files of version 0 to 3, 2 faults, fairness | `HandlesAreComplete`, `UpgradeIsAtomic`, `OldFilesOpen` |
| `BatchCalls` | 3 calls, at most 2 at once, both modes, deadlines, cancellation, fairness | `BoundedFanOut`, `NothingLeftBehind`, `ResultsAccount`, `BatchAnswered` |
| `CatalogNames` | 3 routes, two with one slug, shared tools, a tool whose own name looks qualified, 2 memory sources | `NamesKeepTheirMeaning`, `SourcesKeepTheirRoute`; a tool that is denied although its route was discovered is listed under another name now (`OnlyRenamedIsDenied`) |
| `FrontDoor` | 2 skills, 2 names, pages of 1, 1 edit, 2 memory sources, 11 start-ups of which 4 are served, fairness | the library's side (`FreshAnswers`, `DeniedSkillsWereAway`, `PagesMissNothing`), the sources' (`MemoryIsHonest`), the surface's (`SurfaceIsSound`), what is sent for whom (`MemoryIsAskedFor`), what outages do (`OutageIsIsolated`, `CallsAnswered`) |

Runs that end in a counterexample, each against a sentence of the repository:

| Run | The sentence | What the code does |
|---|---|---|
| `AcceleratorFinalizeRace` | "finalized receipt immutability" (docs/testing-and-evals.md) | two finalizers that both read an unfinished receipt: the second overwrites it |
| `WorkGateRace` | the done gate (docs/bridge-v2.1-work-runtime-blueprint.md:167) | another client adds a step between the gate's SELECT and the UPDATE to done; likewise if `audit_required` is switched on after the transition has read the task |
| `BatchDeadline` | "respecting the tighter inbound deadline" (docs/testing-and-evals.md) | a parallel call that takes its slot after the deadline is sent with the full timeout; so is a later call of a sequential batch |
| `RecallInvalidInput` | "Invalid caller input still fails rather than being hidden as a degraded success" (docs/bridge-v3.1-go-release-receipt.md:113) | `route_and_recall` puts the refusal of a `memory_limit` out of range into an answer that is `ok` and degraded |

What holds only under the bounds of its run, and why they are there:

* `WorkGate` has one client. With `Clients = {c1, c2}` each of its four
  properties fails, because `TaskTransition`, `TaskStepUpdate` and
  `AuditEvaluate` read in one statement and write in a later one without a
  condition; `WorkGateRace` keeps the counterexample to `DoneIsGated`. (That to
  `PassIsBacked`: manual evidence recorded while a check is evaluated gets the
  PASS of the evidence it replaced.) They hold for any number of clients whose
  operations do not overlap (section 4).
* `RevisionFences` and `MaterialChangeBlocks` speak of a task that is `Settled`:
  nobody is between a change and its touch, and at the present revision no change
  was left without one. When the change commits and the statement that raises the
  revision fails, audits of that revision attest what is no longer there until
  the next touch. No statement fails in `WorkGate`, so that a change torn from its
  touch is, for `MaterialChangeBlocks`, left to the proof.
* `OldFilesOpen` is about files of version 1 and 2. A process that fails or dies
  while it creates a file leaves one of version 0 with part of the schema; nobody
  gets a handle on it (`HandlesAreComplete`), and nobody repairs it either.
* `LaterAuditWins` speaks of a clock that is not set back.
* `HonestAnswer` and `NoBlindRetry` are run with `Hints = {TRUE}`: every call is a
  mutation. That the flag of a deduplicated call is the first one's is not met
  there; the theorems are about any hints.
* `SentIsListed` and `CapsuleAgrees` excuse a receipt that `Window` receipts, or
  `MaxListed` mutations, crowd out that are not known to be older.
* `PagesMissNothing` holds while no skill is disabled, deleted or renamed and no
  two have one name: then those behind it move, and a page passes them over.
* `FreshAnswers` bounds the age of what is shown. A text newer than the `sha256`
  it comes with is possible.
* `OutageIsIsolated` asks of an answer that is not degraded that some source did
  the search. A search of which another source failed says so in
  `degraded_sources`, and sets no `degraded` flag.
* `NoBlindRetry` is what is promised of a result that cannot be stored: the
  receipt stays prepared, under `VERIFY_BEFORE_ANY_RETRY`. That is safe, but not
  the `DO_NOT_REPLAY` that docs/bridge-v3.1-go-release-receipt.md:103 gives a
  mutation known to have succeeded.
* `NamesKeepTheirMeaning` and `SourcesKeepTheirRoute` speak of calls before
  which routes only appeared or only disappeared. If one leaves and another
  comes, the name can be the newcomer's. The former excludes names that can be
  read in two ways: a tool may be called `b__find`, and that name can pass to the
  `find` of route `b`, which `CatalogNames` has.

The bounds. Receipt conflicts, checkpoint conflicts and finalization involve two
writers; a third request lets one retry after the other two have raced, or
crashed. Two ids in one task make different operations meet in one history. In
`WorkRuntime` no operation that raises the revision, or adds a checkpoint,
starts at `MaxRevision`, or `MaxLog`, so operations under way may pass the bound
and none is cut off; two clients put a half-done change beside an audit's
creation, two revisions make an audit stale, and two audits under two clocks
meet in one second, in either order. The clock of `Batch` reaches past every
deadline and the timeout. `CatalogNames` has tools on two routes and on a
single one, and two routes with one slug, so collisions occur, and one memory
source has two routes of its name. In `ResumeCapsule` two receipts compete for a
window of one, in either order; as the list is as long as the window, only the
window's cut is met there, and the proof covers a shorter list. In `FrontDoor`
two skills on pages of one make a walk of two requests; the one edit can fall
between any two reads, and gives a skill its own name again or the other's.
The start-ups of `FrontDoor` are one of each way to be refused and four that are served:
everything, memory without skills, upstream tools without memory, skills without
memory.

The symmetry sets permute requests, ids or clients, which nothing orders, and
are used for invariants and for the refinement of `OperationLedger`, which treat
them alike.

Fairness. `Accelerator!FairSpec`, `ResumeCapsule!FairCapsuleSpec`,
`Batch!FairSpec`: weak fairness of each request's own steps. A goroutine that
can run is run; statements end within `busy_timeout`; an upstream call ends by
the context of `withTimeout`, which is why the error at "sent" needs nothing of
the upstream. Clients, faults, the upstream and the clock have no fairness.
`StoreSchema!FairSpec` adds strong fairness of `Connect`: Go's mutexes do not
starve a waiter. It assumes that an operation is tried again and that faults are
finite (`MaxFaults`). `RouteAndRecall!FairFrontSpec` is weak fairness of what
the Bridge does by itself, the timeouts of its waits for upstreams included. The
Skills Manager's CLI runs without a timeout and need not end, so `CallsAnswered`
is conditional: calls are answered if no wait for the CLI is for ever.

## 4. Proofs

Checked by `tlapm`. They hold for every value of the constants that satisfies
the named ASSUMEs.

* `CheckpointLog_proofs`: facts about the two statements. The central one: if
  the tip an operation read once was the history's tip, and the insertion of
  tip + 1 violates no uniqueness, then it still is the tip, so the chain grows
  by one. This is why reading and inserting in separate statements is sound.
* `Accelerator_proofs`: `TypeCorrect`, `OperationsRunAtMostOnce`,
  `CheckpointsFormOneChain`, `MutationsAreJournaledFirst`. None of the
  properties is inductive. `AtMostOnce` rests on `OnceInv`: whoever is past its
  INSERT owns a receipt under its operation id, and no two receipts share one.
  `WriteAhead` needs besides (`AheadInv`) that the checkpoint stored at
  `before_insert` is still there. `OneChain` needs (`ChainInv`) that every tip
  held by a request was once the tip. `ImplementsLedger` proves the refinement of
  `OperationLedger`: inserting a receipt binds its operation id, the upstream or
  the external executor carrying a call out executes it, and every other step
  stutters. It rests on `OnceInv` too: what is executed has a receipt, and no
  other request under that id can be executed.
* Also in `Accelerator_proofs`: `ReceiptsAreHonest`, `AnswersAreHonest`,
  `NoBlindRetries`. The invariant `HonestInv` has four parts: what a request
  noted of its call (`out`) is what became of the call; a request is at a step
  that fits its kind; what a client was told agrees with `out`; and a row says
  what its own call said, or was finalized by a client. The last one
  survives two finalizers racing each other: the UPDATE writes both states at
  once, so a row is always wholly one writer's, and what a call noted no longer
  changes once it has written its row.
* `ResumeCapsule_proofs`: `ReaderIsPassive` says that requests beside a capsule do
  what they do in `Accelerator`, so that all of the above holds there too, the
  chain (`CapsuleReadsOneChain`) included. `SentMutationsAreListed` and
  `CapsulesAgree` hold for any window, any length of the list and any number of
  requests. They rest on `CapsuleInv`: a request works on a receipt of its own
  task and kind (`TargetInv`); every checkpoint names a receipt of its task, a
  finished one if it tells how the call ended (`RowsInv`), and as rows stay and
  finished ones stay finished, what was read of the checkpoint is still true when
  the receipts are read (`ReaderInv`); and no receipt is ordered before those its
  SELECT had seen (`OrderInv`), so those before it in the window are `Later`. The
  receipts are finitely many in every state, which the counting needs.
* `WorkRuntime_proofs`: `WorkTypeCorrect`, `WorkCheckpointsFormOneChain`, and
  `ChangesAreFenced`: for any number of clients and whatever statements fail, an
  audit of the current revision attests the present content if the task is
  `Settled` (section 3). The invariant `FenceInv` says it also of an audit under
  creation, and that no audit, no reader and no torn change is ahead of the
  task's revision. `GateReadsLaterAudit` says the gate is not misled by audits
  whose timestamps are equal: some audit comes last in the order the gate reads
  them, and every audit, created or under creation, is no earlier in it than
  those that were there when its creation began (`LateInv`).
  `CompletionIsGated`, `MaterialChangesBlock`, `CompletionTimesAgree` and
  `PassesAreBacked` are about `SerialSpec`: any number of clients, any operations,
  any statement failing, but no two operations under way at once. One client is
  the special case (`OneClientIsSerial`), which the run `WorkGate` explores; when
  operations overlap the code has none of the four (section 3). `GateInv` is the
  reason for the first: between the SELECTs of the gate and the UPDATE nobody
  else changes what they saw. The second takes from `FenceInv` that the latest audit,
  which is of the present revision, attests the present content, the last two say of the
  locals that they agree with the rows they were read from (`StampInv`,
  `BackedInv`).
* `StoreSchema_proofs`: `SchemaTypeCorrect`, `HandlesGetWholeSchemas`,
  `UpgradesAreAtomic`, for any number of openers and processes. `SchemaInv`: a file
  says 1 or 2 only while it wholly is of that version; one that is created holds
  what the statements so far have created, and a second opener that creates it
  fails at the first object that is there; and only one opener is in a
  transaction, which holds the old schema and what its own statements added, or
  the whole schema if another was first.
* `Batch_proofs`: `BatchTypeCorrect`, `FanOutIsBounded`, `NothingIsLeftBehind`,
  `ResultsAreComplete`, for any number of calls, any
  concurrency, clock and timeout. `BatchInv`: the semaphore counts the goroutines
  between its two operations, which is at most its width; a parallel batch is
  answered before its goroutines start or after they are all over; a sequential
  one is a row of calls that are over, then at most one under way, then those that
  wait, and no failure that is to stop it lies before the last of the first.
* `ToolCatalog_proofs`: `NamesAreStable`. A call by a name that can be read in one
  way only (`OneReading`) reaches the tool listed under it or none, for any routes
  and tools, as long as routes only came or only went in between. `MeaningGrows` is the reason: more routes can only make a plain name
  a qualified one, and a collision is refused. `SourcesAreStable` says the same
  of memory sources, for any names: a route that is the only one of its name in
  the larger of two sets of routes is so in the smaller. `DeniedToolsWereRenamed`:
  a catalog to which every route that was asked contributed holds each of their
  tools, so what is missing from it is under another name. `CatalogTypeCorrect`.
* `RouteAndRecall_proofs`: `FrontTypeCorrect`, `SurfaceSound`, `MemoryHonest`,
  `MemoryOnlyIfAskedFor`, `OutagesIsolated`, for any adapters,
  selections, sources and skills. They follow from one invariant, `FrontInv`, of
  three parts: `SurfaceInv` (the registered modules are a prefix of the
  adapters, share no id and no tool, and their tools are bound to them; what is
  served passed the audit), `MemoryInv` (the sources still to come differ, none
  has answered, and only the one that is waited for was sent anything) and
  `Course` (how far the call under way has come, and that a call that reached
  the memory was allowed to). Assumed are the shapes of the constants, that
  sources differ in name, and that a built-in adapter brings the memory's tools:
  this is what makes another module's tool of that name a collision.
* Also there: `AnswersAreFresh`, `DenialsAreTrue` and `WalksAreComplete`, for any
  skills, names and pages.
  The first rests on `ReadingInv`: files are only ever edited, so what a request
  has read is not newer than the files, not older than the request, and hashes and
  texts are read after what they go with. The second rests on `StayedInv`: a
  skill that was there all the while is still to be read or among the records,
  under the name it had. The third rests on `WalkInv`: as long
  as no skill went or was renamed, those that the last page was cut from are still there, so a
  skill that stayed and was not shown has at least `next_offset` skills before it,
  and every request finds it again.

Every invariant and action property of the passing runs is stated by a theorem.
Only model-checked is liveness (`Answered`, `OldFilesOpen`, `BatchAnswered`,
`CallsAnswered`), which is out of the prover's reach. The four runs that end in a
counterexample show what can happen, which is for TLC to find.

## 5. Not modelled, and the plan

Modelled first, because everything else relies on it: receipts and calls, then
the task store, its schema, batches and the catalog; then the front: the surface,
skills, memory and `route_and_recall`, and the resume capsule's view of the
receipts. What is left, in order:

1. The resume capsule beside `WorkRuntime`: the task is read before its steps, so
   the current step it names may be done by then.
2. Result shaping as operators (window arithmetic with integer width,
   truncation), against a reference definition, and the retrieval of stored
   results.
3. Compositions: `Batch` over `Accelerator`'s abstract ledger; `Accelerator`'s
   checkpoints and `WorkRuntime`'s in one history.
4. Proofs: the properties of the completion gate for several clients, under a
   condition on which of their operations overlap weaker than that of `SerialSpec`.

Session affinity and projects are single statements on rows that nothing here
depends on: the last writer wins, and no two statements are related. Doctor,
health and status read and report.

Left out for good: HTTP and token handling, configuration, redaction and the
tool contract (text and I/O without protocol), validation of arguments before
anything is stored (one refusal stands for it), bridge-stress (a load
generator), and the inside of AgentGateway and of upstream servers, which are
external: a call may be executed at any time after it was sent, or be lost.
