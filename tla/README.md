# A verification project for bizstruct-be

bizstruct-be turns a business idea into a tree of generated documents. A project is a set of
*rows*, one per stage and instance; a row starts when the rows it draws from are done, a worker
generates its artifacts, and the result creates and starts the rows that follow. The TLA+ modules
here model that pipeline, TLC checks them on small instances, and TLAPS proves the main results for
every instance.

## The system

| Part | State | Operations | Interacts with |
|---|---|---|---|
| Stage machine (`bizstruct_domain`, external) | none | `is_valid_transition`, `available_actions` | asked by StageService and the orchestrator |
| `StageService` (`services/stage.py`) | table `stage_rows` | `create_rows`, `transition`, `reset_from`, `record_result` | works in the caller's transaction, never commits |
| Planner (`services/orchestration.py`) | none (pure) | `initial_rows`, `expand_rows`, `result_problems`, `success_path`, `is_stuck` | called by the orchestrator |
| `GenerationOrchestrator` (`services/orchestrator.py`) | lock of the project row, unsent messages | `start`, `apply_result`, `advance`, `regenerate`, `approve`, `fail`, `cancel`, `expire_stuck` | commits, then publishes and enqueues |
| Hook and snapshot (`routers/internal.py`) | none | `stage_hook`, `get_snapshot` | the worker calls both over HTTP |
| Queue (`servicebus.py`) | Service Bus queue | `enqueue`, `request_cancellation` (logs only) | delivers to the worker at least once |
| Events (`pubsub.py`) | none | `publish` | after a commit, best effort, to clients |
| Watchdog (`expire_stuck` when projects are read) | the clock | | no background process exists |
| Projects API (`services/project.py`, `routers/`) | table `projects` | create, rename, delete, list, derived status | calls the orchestrator |
| Users and tokens (`services/user.py`, `services/auth.py`) | table `users` | register, update, password, login, refresh | |

What is hard about it: every operation is one transaction under the project lock, but what goes out
after its commit (messages) and what comes back (results, made from snapshots read at any time) is
unordered, repeated, lost and late, while users regenerate parts of the tree. Correct means:

- StageService: whatever the sequence of calls, the fields of a row agree with its status.
- Orchestrator: a row that has left `pending` draws from done rows, what it holds was made from what
  these hold now, nothing that could start is left waiting, a result is applied once, a refused
  message fails its own attempt only. Sessions that read, lock and commit in steps do what single
  steps would, and tell their clients about every change.
- Planner: expansion is idempotent, creates a row once, and leads to a complete project.
- Watchdog: only attempts over the timeout expire, and every attempt ends if its project is read.
- Projects and users: requests that read, decide and commit without a lock do not undo each other.

`PROJECT.json` lists under `hazards` the places where these could go wrong.

## Modules

| Module | Models | Extends |
|---|---|---|
| `StageMachine` | the stage machine, as a parameter with assumptions | |
| `StageRows` | the fields of a row and what a status change does to them | `StageMachine` |
| `StageService` | the service alone, under any sequence of calls | `StageRows` |
| `Pipeline` | orchestrator, queue, worker's snapshots and hook of one project, an operation being a step | `StageRows` |
| `Orchestrator` | the same as concurrent sessions with locks, stale reads, events and compensations; implements `Pipeline` | `StageRows` (and an instance of `Pipeline`) |
| `Planner` | `initial_rows`, `expand_rows` on all thirteen stages, the requests for optional ones | |
| `PlannedProject` | a project that grows by the planner, rows finished and regenerated in any order, snapshots read | `Planner` |
| `Watchdog` | the reads that expire stuck rows, with the clock | `StageRows` |
| `Projects` | the title of a project under concurrent requests | |
| `Users` | registration, login, profile and password changes under concurrent requests | |
| `MCStageService`, `MCPipeline`, `MCOrchestrator`, `MCPlannedProject`, `MCWatchdog`, `MCProjects`, `MCUsers` | instances for TLC | |
| `StageRowsProofs` | proofs: what a status change does to a row | `StageRows` |
| `StageServiceProofs` | proofs about the service alone | `StageService`, `StageRowsProofs` |
| `PipelineProofs` | proofs: what rows draw from and were made from; what operations leave behind | `Pipeline`, `StageRowsProofs` |
| `OrchestratorProofs` | proofs: `Orchestrator` implements `Pipeline` and announces what it changes | `Orchestrator`, `StageRowsProofs` |
| `PlannedProjectProofs` | proofs: what the planner builds is well formed, complete and whole | `PlannedProject` |
| `WatchdogProofs`, `ProjectsProofs`, `UsersProofs` | proofs about these modules | the module |

### The stage machine

`bizstruct_domain` is a package outside this repository. Its transition table is the constant
`StageTransitions`. Two assumptions say what this repository shows of it: `KnownTransitions` (the
edges the code takes or the tests expect to be accepted) are in it, `RefusedTransitions` (those
the tests and docstrings expect to be refused) are not. The theorems hold for every table that
satisfies both; the runs use the smallest one, `KnownTransitions`. Three theorems need more:
`Implementation` assumes that a row in `error` does not fail again (`FailureIsFinal`, in `Orchestrator`),
`HoldsWhatSucceeded` that a row that awaits a decision does not fail, `AlwaysAgree` that the table is
`KnownTransitions`. Nothing in this repository contradicts these, or decides them.

### Rows

`StageRow` is the table's record. An attempt id is a number (0 for None): only equality matters, and
`uuid7` never repeats. A timestamp is the value of a clock, the artifacts a set of abstract contents, a failure its
code, a report whether it has error-level violations. `Accepted` holds the checks at the top of `transition`,
`Transition` its assignments; `transition` raises before it writes, so a refused call changes nothing.
It reads the clock once for the start or the end and again for the approval (`ApprovedAt`), so the two
times of an approved row need not be equal. The clock is assumed not to go back; in `StageService` it
moves between calls and between the two reads, in `Pipeline` and `Orchestrator`, which decide nothing
by it, it stands still.

### Pipeline

One action per operation of the orchestrator, each containing everything the operation calls: the
result is stored, the statuses of `success_path` are walked, missing rows are created and ready rows
started in one step, because the code holds the project lock until the commit.

- `apply_success(s, plan, report)` takes a snapshot `s` the worker has read; it may use any snapshot,
  any number of times. `apply_failed` also stands for a result that `result_problems` rejects: both
  end in ERROR with `generation_failed`.
- `Plans` abstracts the content of a result to the set of rows it calls for; `Slot` is what
  `expand_rows` compares to find that a row exists; `Names` are the maps a group names.
- After the commit a message is in `outbox` until `enqueue`, `enqueue_raises` (with the compensating
  transaction) or `lose_messages` (the process died, a compensation raised, or no connection string is
  set). `accept` delivers it early: the queue has taken the message although `enqueue` is still going
  to raise. `queue` never forgets a message: delivery is at least once and unordered.
- `get_snapshot` records in `seen` which attempts of its inputs the worker was shown.
- `expire_stuck` may find any set of running rows stuck.

### Orchestrator

An operation is two steps of a session: `begin` takes the project lock (`_lock_project`), locks the
row the operation is about, if it is about one, and reads the rows; the action named after the
operation decides from what was `loaded` and commits. In between only a compensation can run, which
locks the row of its message and not the project. `regenerate` locks and reads again the rows it
resets; `cancel` and `expire_stuck` do not, so they may write over what a compensation has written.
A session writes the columns of the rows it changed (`Written`). Each operation appends its events where
the code does (`Announce`): in `start` and `GrowAndAdvance` for the rows it creates, in `regenerate` for those
it resets, in `Advance` for those it starts, in `MoveToError`, `apply_success` (each status of `SuccessPath`), `approve`
and `compensate` for the row it moves. `events` keeps the statuses of each row in their order; the order
of events of different rows is left open. After the commit the session publishes them, then sends its
messages one by one (`publish`, `enqueue`); a refused one is compensated (`compensate`) before the next is sent. `rollback` stands for every refusal and exception
before the commit, `give_up` for a process that dies after it or a compensation that raises.

The refinement mapping: the messages all sessions have left to send are `Pipeline`'s `outbox`, and the failure of a
row is the one it moved to ERROR with (`cause`), which `cancel` may overwrite. `unannounced` is a history
variable: the rows whose last change has neither been followed by an event with the new status nor lost
its event with a session.

### Planner and PlannedProject

`Planner` translates the planner function by function on a sequence of rows whose ids are their
positions. Each loop of the planner is the set of rows it finds missing (`MissingMaps`, `MissingFanOut`,
`MissingCanvases`, ...), which `Add` appends; the rows of several canvases are added side by side, because
those of one are never looked up for another. Only the ids differ from those the loops would give,
and no ref goes from one row of such a set to another. So there is neither recursion nor a fold, and the
planner can be proved about. `only_generated_optional_stages` refuses requests with an optional stage
nothing generates.

`PlannedProject` finishes any ready row with any number of segments or groups, expands, and regenerates
any done row; attempts and failures are left to `Pipeline`. `DependsOn` follows the refs up to the rows
that are reset, `Closure` down to what `get_snapshot` collects for the worker. Both take seven steps
(`AnyDistance`), the longest path of the stage graph: the code searches until it finds nothing new.

### Watchdog

Every request that reads projects is a process: it queries stuck rows without a lock
(`stale_running_rows`), locks one project after the other and expires what is stuck by then
(`expire_stuck`), ends early if a project is gone (`project_gone`), and reads its answer (`answer`).
The rest of the system starts, ends and resets attempts at any time. A row's time is the age of its
attempt, which saturates one above the timeout. `overdue` is a history variable: the attempts a
request found stuck and that have not ended since.

### Projects

Requests on one project, in steps: `get_by_id`, then the commit. `update` writes the title if it
differs from the loaded one; the result of a brief, while one is awaited, locks the row, reads, and
names the project if its title is a default one. `chosen` is a history variable: the title was last
written because a user asked for it.

### Users

A request checks that the email is free, then commits; the table has the last word (`Admitted`, the
unique and not-null constraints). A session writes the columns whose value differs from the one it
loaded (`Written`). `Normal` is what `NormalizedEmail` makes of a typed email (stripped, in lower
case); login looks the email up as typed. Whoever is not active is turned away before a
request begins (`Admissible`). A constraint that is violated surfaces as 503, as every database error
does.

## Runs

| Run | Question | Result |
|---|---|---|
| `stage_service` | do a row's fields agree with its status under any calls? | holds, 69,392 states |
| `pipeline` | does the pipeline stay sound under every fault, and when content changes? | holds, 290,520 states |
| `orchestrator` | do concurrent sessions implement the pipeline, announce the status they leave a row in, and end? | holds, 104,259 states |
| `planned_project` | does the planner build a whole project, once, and show the worker all of its inputs? | holds, 9,835 states |
| `watchdog` | do stuck attempts, and only these, end? | holds, 19,562 states |
| `project_title` | does a brief leave the user's title alone? | holds, 5,537 states |
| `users` | do concurrent requests keep emails unique and leave each other's changes alone? | holds, 66,629 states |
| `groups_regenerated` | do canvases follow the regenerated groups (ADR 0001, line 30)? | violated |
| `stray_group` | does `approve` raise on corrupt data only (docstring of `expand_rows`)? | violated |
| `brief_regenerated` | does a regenerated brief leave the rows as they are (ADR 0001, line 88)? | violated |
| `cancel_overwrites` | does `cancel` leave rows in error alone (docstring of `cancel`)? | violated |
| `login_as_registered` | can a user log in with what they registered with (docstring of `authenticate`)? | violated |

Bounds, and why they are enough:

- `stage_service`: two rows, one depending on the other (`reset_from` reaches it), two attempts (one
  restart), one retry, and a clock that starts at 1 and goes up to 2: the reads of one call may be equal or differ.
- `pipeline`, of projects of two kinds, told apart by what their first brief calls for. A chain
  (`IsChain`) is a brief, one map and a patterns row: the shortest one in which a row has both an input and
  a dependent and an input two steps away. Two attempts, so every message and snapshot of the first
  can meet the second. All faults, both values of `auto_approve`. `OneCallReturns` bounds `accept`: of
  the messages to send one at a time has been taken by the queue already. A project that grows has one
  or two segments, two patterns rows (for a project that began with one or two maps), their canvases, and the
  `stray` one that names a map its patterns row does not draw from. There `NoFaults` leaves out faults, a
  second snapshot for a message and `auto_approve`, `EnqueueFirst` delays between commit and enqueue:
  the question is which rows exist, and the chain covers the rest.
- `groups_regenerated`, `stray_group`: the projects that grow, with a second canvas content for both patterns
  rows or for the first one the stray canvas.
- `orchestrator`, `cancel_overwrites`: two sessions (one operates while the other compensates), a brief
  and one map, three starts in all (one restart). `Bounded` leaves out `auto_approve` and a second
  snapshot for a message, which do not touch locks and are in the chain of `pipeline`.
- `planned_project`: one or two segments, one or two groups, but not two of both (`OneDimension`),
  which is beyond five minutes (`brief_regenerated` stops before that); optional stages none or both. Segments and groups are independent in
  the planner: groups only name maps.
- `watchdog`: two projects with a row each (a loop of two turns), two requests (one works for the
  other), timeout 1 (an age below, at and above it).
- `project_title`: two requests, the default titles of both languages and two others (a choice and a
  proposal).
- `users`, `login_as_registered`: two requests, two emails one of which has two spellings, and three ids,
  so that there is always a free one; each column is patched on its own, and the email together with the flag
  (`MCPatches`). Ids and requests are symmetric, and no liveness is checked there.

Deadlock is checked in every run: some operation is always enabled.

Fairness is assumed in two modules, and nobody ever has to begin a request.

- `Watchdog`: time goes by, and a request that has begun is carried through (the server runs its
  coroutine to the end). No result has to come: `AttemptsEnd` says that every attempt ends *if* its
  project is read again and again, which is what the lazy watchdog relies on (ADR 0001, line 35). A
  request may end with 404 when another project is deleted; that can delay an attempt's end but not
  prevent it.
- `Orchestrator`: a session that works or dispatches goes on (weak fairness of `Proceed`), and a
  compensation gets the row lock it waits for although operations lock the row in between (strong
  fairness of `compensate`: the database grants a lock to those who wait, in turn). `RequestsEnd` needs
  no fairness of the queue: a refused message is not tried again.
  The state constraint cuts behaviours that start a fourth attempt, of a brief or of a map; what
  `RequestsEnd` is about, a session ending, does not depend on what the others begin.

Mutants: for every property `PROJECT.json` names a mutated definition (kept beside the original and
marked as a mutant in its comment) under which TLC finds the property violated.

### What the violations show

- `groups_regenerated`: `_expand_after_patterns` finds a canvas by position only. After patterns is
  regenerated with other groups, the canvas of a position still draws from the old group's maps.
- `stray_group`: a patterns row awaits a decision, the user regenerates a map that one of its groups
  names and that it does not draw from, then approves: `expand_rows` raises although the stored data is sound.
- `brief_regenerated`: a brief with one segment is regenerated with two. A map, a scenario and an
  ideation are added for the second, and the existing patterns row does not draw from them. The ADR defers
  the case, saying that no rows are added. `CompletedMeansWhole` holds with the added rows.
- `cancel_overwrites`: `cancel` reads a running row, the compensation of its refused message fails the
  row, and `cancel` writes `canceled_by_user` over `queue_unavailable`.
- `login_as_registered`: a user who registers as "A@mail" is stored as "a@mail". Login takes an
  `EmailStr`, which keeps the case before the @, and looks it up as it is: 401 for the very email and
  password the user registered with.

Other disagreements between code and documents met on the way, which need no run of their own:

- `_detail` reads rows and status by two statements; a commit in between shows, say, no failed row
  beside the status `failed` (`schemas/project.py:153`).
- Of two registrations that both find an email free, the second is answered with 503 and not with the
  409 `routers/users.py:27` declares.
- Listing projects is answered with 404, which it does not declare, when a project is deleted during
  `expire_stuck` (`project_gone`).
- A user who names a project "New project" sees the name replaced by the brief, although the docstring
  of `_name_project_from_brief` says a chosen name is never touched: whether it was chosen is told from
  its text. `ChosenTitleKept` leaves default titles out, so it does not show this.

## Proofs

| Theorem | Module | Shows of every behavior |
|---|---|---|
| `TypeCorrect`, `AlwaysAgree`, `AlwaysCounted` | `StageServiceProofs` | `TypeOK`, `FieldsAgreeWithStatus`, `RetriesCountedOnStartsOnly` |
| `TypeCorrect`, `AlwaysGrounded`, `AlwaysMadeFromCurrentInputs` | `PipelineProofs` | `TypeOK`, `Grounded`, `MadeFromCurrentInputs` |
| `NothingWaits`, `AlwaysCreatedOnce`, `AlwaysRegenerates`, `AlwaysExpand` | `PipelineProofs` | `NothingReadyIsLeft`, `RowsCreatedOnce`, `RegenerateGoesThrough`, `AcceptedResultsExpand` |
| `AlwaysAppliedOnce`, `RefusalsStayTheirOwn` | `PipelineProofs` | `ResultsAppliedOnce`, `RefusalFailsItsOwnAttempt` |
| `HoldsWhatSucceeded` | `PipelineProofs` | `HoldsOnlyWhatItFinished`, if a row that awaits a decision cannot fail |
| `Implementation`, `TypeCorrect`, `AlwaysAnnounced` | `OrchestratorProofs` | `ImplementsPipeline`, `TypeOK`, `ChangesAreAnnounced` |
| `Invariant` | `PlannedProjectProofs` | `IInv`, the inductive invariant: the rows are well formed and complete |
| `RefsLead`, `ExpandsOnce`, `CanvasesStay` | `PlannedProjectProofs` | `TypeOK`, `ExpandedOnce`, `CanvasStaysInItsSegments` |
| `SnapshotsWhole`, `NothingStrands`, `CompletedWhole` | `PlannedProjectProofs` | `SnapshotIsWhole`, `NothingStranded`, `CompletedMeansWhole` |
| `TypeCorrect`, `AlwaysOver`, `AlwaysStuckFirst` | `WatchdogProofs` | `TypeOK`, `FoundAttemptsAreOver`, `OnlyStuckRowsExpire` |
| `TypeCorrect`, `AlwaysKept` | `ProjectsProofs` | `TypeOK`, `ChosenTitleKept` |
| `TypeCorrect`, `AlwaysUnique`, `DeactivatedForGood`, `NothingUnasked` | `UsersProofs` | `TypeOK`, `EmailsAreUnique`, `DeactivationHolds`, `OnlyAskedColumnsChange` |

The theorems about `Pipeline` and `Orchestrator` hold for every graph of rows without cycles
(`GraphAssumption`), every plan in which no two rows have the same slot, the initial rows included
(`PlanAssumption`), every bound on attempts, every admissible stage machine, and any number of sessions;
those about `PlannedProject` for any numbers of segments and groups and any requests
(`PlannedProjectAssumption`; none as well, should the external schema of a brief admit that); those about the
other modules for any number of rows, projects, users and requests.

**FieldsAgreeWithStatus** holds of the edges the code takes (`StageTransitions = KnownTransitions`): a table
with an edge from `done` to `consistency_check`, say, would leave the end of the attempt in place.
`TransitionAgrees` goes through the edges; `FInv` adds that no attempt starts or ends later than now. The end
and the approval are different reads of the clock, so what holds of them is `finished <= approved`.

**Grounded.** It is not inductive. `regenerate` resets the dependents that exist, so a row that does not
exist must be pending; and a row may start only if an attempt is left for it. `IInv` adds both to
`TypeOK`. It is stated of the rows a transaction has arrived at (`Consistent(E, R)`), because each
operation changes them and then hands them to `AdvanceAndCommit`: `AdvanceKeeps` is proved once, and
each operation shows that what it hands over is consistent. The key steps are that a row may move to
ERROR only from a status other than `pending` and `done` (`ErrorEdges`, from the refused edges), so
that failing a row never takes the ground from another, and that the rows reset with `r` are closed
under dependence (`RegenerateConsistent`).

**MadeFromCurrentInputs** needs `Trace`: the attempt of a row outside `pending` is the last one issued
to it, no message or snapshot is of an attempt not issued yet, and a snapshot read for the current
attempt shows the current inputs. A result is accepted only for the current attempt, so its snapshot
is current; regenerating an input resets the row, and its next attempt is newer than any snapshot.

**The rows.** `RInv` adds to `IInv` that nothing ready is left and that the rows are `Tidy`: none is in a
status no operation leaves behind (`consistency_check`, `needs_retry`), none holds artifacts before its
attempt has ended or lacks them when it has succeeded, what a row holds is one result of its own,
existing rows have different slots, and what done rows call for is there. The last part is why a result
that `result_problems` accepts can always be expanded, whatever the other rows hold.

**The refinement.** A step of a session is the step of `Pipeline` with the same name when it commits,
and none before. What makes this true is `AsRead`: what a session at work has read of a row is what the table
holds, or else the row was running, the session has not locked it, and the message of its attempt has been
refused since. So a stale row is one that was running and is in ERROR now: it is neither ready nor done nor
does it hold anything new for the planner (`SamePlanning`), the rows an operation changes are locked
and therefore not stale (`Prepared`), and only `cancel` and `expire_stuck` write over one, which changes
nothing but its failure. `CommitKeeps` shows the invariant once for all commits, `AdvanceMaps` and
`MoveToErrorMaps` the two kinds of commits. Without the row lock of the compensation `AsRead` fails at the
row of a message (`CompensateImplements`). By the theorem every safety property of `Pipeline` holds of the sessions too,
for the rows as `FirstFailure` shows them.

**ChangesAreAnnounced.** A row counts as unannounced from any commit that changes it until an event with its
status is published, or a session whose last event for it has that status is lost. The invariant is
`Announcing`: some session has such an event last, and a session that compensates has none left, so that those
of its compensation replace none. It is not immediate, because what a commit changes and what the operation has
appended come from different places: each operation has a lemma that every row its commit changes is one it
appended an event for, with the status it ends in (`StartAnnounces`, `RegenerateAnnounces`,
`ApplySuccessAnnounces`, ...), through `GrowAnnounces` and `AdvanceAnnounces`, because a row may be created or reset
and started in one operation and is then told of twice, in this order (`AnnounceTells`). Publishing takes
the first status of a row and leaves the last (`TailEnds`).

**The planner.** `IInv` has two halves. `WellFormed` says how rows hang together: refs lead to earlier rows of
stages nearer to the brief (`Depth`), a done row draws on done rows, rows of a stage differ in their index or in
the row they follow (`Source`), canvases draw on whole segments, the optional inputs that were enabled are taken.
Whatever row the planner adds keeps it, as long as the row `Fits` (`GrowthKeepsForm`), and each loop
has a lemma that its missing rows fit. `Complete` says, layer by layer, that nothing is missing. It fails for the row a
result was just applied to, and expansion restores one layer after the other (`AfterBriefComplete`,
`AfterPatternsComplete`, `AfterCanvasComplete`, joined in `Expanded`). Regenerating takes nothing away: what
is reset only counts for less (`RegenerateHolds`), but it must take every row above along for done rows to
draw on done rows. That seven steps up reach all of them (`UpClosed`) is by `Depth`: each step leads at least one
stage further. The properties follow: complete rows leave nothing to expand (`Idle`); the smallest row that
is not done draws on done rows only, so it is ready (`Smallest`); what a ready row draws on at any distance is done
(`DownStays`); and when all rows are done, every layer is there, once (`Distinct`).
The proof corrected a property: `CompletedMeansWhole` used to promise a map for every segment of a
brief, which the run could not refute with two segments and which is false of more than `MAX_SEGMENTS`.

**The others.** `FoundAttemptsAreOver` follows from `Found`: while a request goes through its projects, what
is left of its history runs, is stuck and belongs to projects still to come. `ChosenTitleKept`
follows from `Locked`: the title a result has read is still the title when it writes.
`EmailsAreUnique` is inductive by itself.

Only model-checked: liveness under fairness (`RequestsEnd`, `AttemptsEnd`), which the prover cannot do.
Every other property of a passing run is proved.

## Not modelled

- The deletion of a project while the orchestrator works on it, beside what `Watchdog` (`delete`) and
  `Projects` (`commit_delete`) have of it: the foreign keys remove the rows, and the operations end with
  404 or roll back, which `rollback` and `give_up` stand for.
- The order in which clients receive the events of different sessions (no document promises one), the
  connection to Web PubSub and the access clients negotiate.
- Tokens, ownership and paging of projects, the derived status of a project, and the columns of a user
  beside those in `Users`.
- The schema checks of artifacts (`result_problems` is a choice of the model), which answer of the
  hook a refusal gets, and the order `get_rows` returns rows in.
- The wiring of services, configuration, error handlers and migrations: no state of their own that
  an interleaving could reach.

## Plan

1. Deletion of a project against the operations of the orchestrator: `Pipeline` and `Orchestrator` with
   an action that removes the rows, and the proofs that go with it.
2. Tokens and the derived status of a project, if a question comes up that a test would hardly reach.
