# Verification of the Workflow Harness

TLA+ models of the parts of `marceloamoreno87/workflow-dev-template` in which
order, concurrency and failure matter, the TLC runs that check them on small
instances, and proofs, checked by TLAPS, of what holds on every instance.

## 1. The system

`harnessd` takes GitHub issues in as **Work Items**, moves them through a
workflow of fifteen states, has **Agent Roles** (product, implementer,
reviewer) work on them in git worktrees, and leaves the decisions that matter
to humans, who command it through a dashboard and Telegram. Everything is one
Go program (`src/internal`), one SQLite file and a few JSON files.

| Component | State it keeps | Operations | Hard behaviour | What makes it correct |
|---|---|---|---|---|
| `workflow` | none (pure) | `Handle`, `Allowed`, `Fold` | block and resolve | a history Fold accepts rebuilds the item that was decided on |
| `gatekeeper` | none (pure) | `Decide` | judged before, applied later | no automation passes a human gate |
| `journal` | tables `events`, `commands` | `Load`, `Apply` | concurrent writers, lost answers, retries | one chain of events per item, a command acts once |
| `journal` leases | table `leases` | acquire, renew, release | clocks, expiry | one holder at a time |
| `loop` | `LoopState` (its caller's) | `Begin`, `Advance` | limits, repetition, deadline | bounded fixes, done only when earned, it ends |
| `daemon` | `d.known`, `d.loops`, their files, worktrees | `Tick`, `advanceItem`, `ExecuteRole`, `Open` | crash between any two writes, operators during a role, errors | workflow and loop stay consistent, work goes on |
| `daemon` Telegram, `telegram` | offset file | poll, challenge, command | redelivery, expiry | a command at most once, sensitive ones confirmed |
| `dashboard` | projection rows | command, list | stale upserts, data race | rows never go back |
| `workspace` | `.worktrees/<project>` | `Prepare`, `Close` | shared directories | isolation |
| `codex`, `stack`, `runner` | processes | run a thread, a gate, a task | timeouts, descendants that outlive them | nothing starts late, a pass is earned |
| `github`, `githublive` | none | `Reconcile`, retried HTTP calls | duplicates, lost answers | no effect twice |
| `delivery`, `coolify` | none | validate, deploy, roll back | stale health | only released commits deploy |
| `flags` | none (pure) | `Evaluate`, rollout | growing percentages | nobody is switched off by growth |
| `knowledge` | bundle | propose, apply | concurrent proposals | versions advance by one |
| `registry` | YAML files | parse, validate | broken manifests | pure validation |
| `telemetry`, `mcp`, `cli` | records | sums, front ends | none | pure or unwired |

How they interact: `Tick` (a goroutine), the HTTP handlers of the dashboard
(others) and the Telegram poll (inside `Tick`) all go through
`journal.Store`; each loads an item, asks `gatekeeper`, and calls `Apply`,
three steps of which only the last is atomic. `Tick` alone moves the role
loops and writes `daemon-loops.json` and `daemon-known.json`; workflow and loop
are separate stores, written one after the other. Roles run for minutes inside
`Tick`, on a directory of the file system.

## 2. The modules

| Module | Models | Kind |
|---|---|---|
| `Workflow` | `internal/workflow` | operators |
| `Gatekeeper` | `internal/gatekeeper` | operators |
| `WorkItems` | what workflow and journal promise | abstract specification |
| `Journal` | `internal/journal` (events, commands) with its clients | specification, implements `WorkItems` |
| `Loop` | `internal/loop` | operators |
| `RoleLoop` | one loop and whoever feeds it | specification |
| `Daemon` | `internal/daemon`: ticks over journal, loops and worktrees, on top of `Gatekeeper` and `Loop` | specification |
| `Execution` | what lies under a tick: `execute.go`, `codex.Run`, `stack.Run`, the two JSON files | specification |
| `FrontEnds` | `daemon/telegram.go`, `internal/telegram`, `internal/dashboard`, on top of `Gatekeeper` and `Workflow` | specification |
| `Lock` | what a lease is for | abstract specification |
| `Lease` | the table `leases` of `internal/journal` with its clients | specification, implements `Lock` |
| `RemoteCalls` | `internal/githublive`, `internal/coolify` and the servers they call | specification |
| `Intake` | `internal/github`, on top of `Workflow` | specification |
| `Rollout` | `internal/flags` | specification |
| `Knowledge` | `internal/knowledge` | specification |
| `JournalProofs`, `RoleLoopProofs`, `DaemonProofs`, `ExecutionProofs`, `FrontEndsProofs`, `LeaseProofs` | | theorems about the module they are named after |
| `WorkflowProofs` | | lemmas on `Handle` and `Replay` that two of them share |
| `LibraryProofs` | | theorems about `RemoteCalls`, `Rollout`, `Knowledge`, `Intake` and their composition |
| `MCJournal`, `MCRoleLoop`, `MCDaemon`, `MCExecution`, `MCFrontEnds`, `MCLibraries` | instances for TLC | |

**Workflow.** An item is `[state, resume, version]`, the Go struct without its
ID; `Transitions` is the table; `Handle` answers the set of events (empty for
an error); `Replay` is one turn of Fold's loop. `Projection` is what Fold comes
to on an accepted history, read off its last event, and the journal decides on
it; that Fold, a recursive function, agrees is checked by the run
`journal_gates` and proved (`FoldAgrees`).

**Journal.** `Issue` is the first half of `applyWorkflow` and
`ApplyOperatorCommand`: load, `Decide`, build the command. Automation expects
the version it loaded, a human whatever version was on the screen. The calls of
`Apply` that may still come are `pending`; each may be made any number of times
(an answer is lost, the client retries) until `Settle`. The four outcomes of
`Apply` are `Duplicate`, `Conflict`, `Refuse`, `Commit`: one SQLite transaction
on one connection (`SetMaxOpenConns(1)`), hence one step.

**Loop, RoleLoop.** `Advance` answers what comes of an event, or nothing for an
error. The deadline is `left`, the time to go. `RoleLoop` feeds it any event in
any stage and keeps history variables (builds, failures, evidence) that the
properties compare with what the loop says of itself. "budget breach" and the
other reasons are written with underscores.

**Daemon.** `tick` is the program counter and the locals of `Tick`: `queue`
(what is left of the polled issues, then of `sortedIDs`), `cur` (the item),
`seen` (the state in the snapshot `item`, which the code takes once and reloads
after some commands only), `cmd`, `expected`. One action per stretch between
two accesses to the journal, a role or the disk:

| Actions | Code |
|---|---|
| `Boot`, `Crash` | `Open` after a start by systemd; the process dies anywhere |
| `BeginTick`, `PollFails`, `Intake`, `FinishIntake`, `EndTick` | `Tick`, `persistKnown` |
| `Visit`, `Enter` | `advanceItem`, the head of `advanceLoop` |
| `DecideCommand`, `Applied`, `ApplyRefused`, `Reload` | `applyWorkflow`, `Apply`, the load after it |
| `SpecLeg`, `ImplementLeg`, `ReviewLeg` | the three legs of `advanceLoop` |
| `PrepareTree`, `PrepareFails` | `ensureWorktree`, and what git leaves behind when it fails or is killed |
| `ProductEnds`, `ImplementerPasses`, `ImplementerFails`, `ReviewerEnds`, `RoleFails` | the outcomes of `ExecuteRole` |
| `GatesPass`, `Mirror` | `feed`, `mirrorBlock` |
| `CloseTree`, `CloseFails` | `closeIfPresent`, and its error |
| `OperatorCommand`, `Elapse` | `ApplyOperatorCommand`, the clock |

An error of `Tick` goes to `Fail`: `Serve` ignores it, except on the first
tick, where it exits. Four errors are of the world and not of the state: a poll,
a role, and the two git commands. Each may happen every time, so one that
repeats at every tick (a confidential project, which `telemetry.Select` routes
to no model; a product thread that never completes; a worktree git refuses to
remove) is a behaviour of the model, in which the item is never fed and those
after it are never visited. Only crashes are counted. `trees` are the
directories there are, `built` the items whose work passed its gates in the
directory that is there now. Git is not atomic (`GitStops`): stopped by an error
or by the death of `harnessd` it may leave a directory without a worktree, which
`os.Stat` takes for one, or a worktree that has lost its work.

**Execution.** `Daemon` takes a role as one step with an outcome and a write as
one step that succeeds. `Execution` opens both. `run` is the program counter
and the locals of `Tick`, `ExecuteRole`, `codex.Run` and `stack.Run`; a loop
record is only how far its item got (no record, a title, begun, `ProductDone`),
since what else is in it is `Loop`'s business.

| Actions | Code |
|---|---|
| `Open`, `Truncate`, `Written`, `WriteFails`, `Crash` | `loadKnown`, `loadLoops`, `os.WriteFile` in its two steps, death between them |
| `BeginTick`, `Intake`, `PersistKnown`, `Visit`, `EndTick` | `Tick` as far as it reads and writes the files |
| `Leg`, `Execute` | `advanceLoop`, `ExecuteRole` up to the start of the thread: routing, `Deadline` |
| `Exits`, `TimesOut`, `Drained` | `cmd.Run`: the process ends, or its context kills it at its deadline, and later the pipe of its output closes |
| `ThreadEnds`, `ThreadFails`, `ProductCompletes`, `ProductEnds` | what `codex.Run` makes of it; a product thread completes in one step, its record is saved in the next, and `harnessd` may die between the two |
| `GateStarts`, `GateMissing`, `GateEnds` | `stack.Run`, gate after gate, each followed by `worktreeHead`; `Evidence.Validate` refuses a negative exit code, so a killed gate is an error of the role, not a failed gate |
| `RoleEnds`, `FeedSpecReady`, `GoOn`, `AfterFeed` | the outcome, `feed`, `saveLoop` |

A process and the call that runs it do not end together. `codex.Run` and
`stack.Run` give `exec.CommandContext` a writer that is no file, no `WaitDelay`
and no process group: the context kills the process, and `cmd.Run` then waits
until every descendant has closed the pipe, for as long as that takes. This is
the place "drain", where time passes without a bound. "head" is `git rev-parse`
after a gate, under ten seconds and a drain of its own, whatever the context of
the thread says. A gate that comes up when that context has ended is not
started: it gets the result "expired", an error with exit code 0.

`Visit` may leave an item where it is and `Leg` may choose any role that
the record allows: which item waits and which role is due is decided in
`Daemon`, from state this module does not have. The gates of a reviewer run too
and their results are ignored, as in the code.

**FrontEnds.** `ApplyOperatorCommand` is four kinds of step, for each of its
callers (`Ticker`, which is the Telegram poll inside `Tick`, and the HTTP
handlers): `LoadAndDecide`, `ApplyCommits` or `ApplyRefuses`, and then
`feedDashboard`, in which an item is loaded (`FeedLoad`) and its row replaced
(`Upsert`) one after the other, so that two feeders can overtake each other.
`Poll` reads the whole batch from the offset on; `Skip`, `OfferChallenge` and
`Accept` are the branches of `handleTelegramUpdate`, judged by the time the
tick was given, which `BeginTick` chooses between the last tick's and the
clock's: `time.Ticker` keeps one tick that fired while the last one ran.
`SaveOffset` comes once after the batch; `Crash` may come anywhere, and in
`SaveOffset` may leave a torn file, after which every poll fails.

**Lease.** The row is compared as the code compares it, as RFC3339Nano text;
the unit of time is half a second, so that times with and without a fraction
exist. Each client has a clock of its own, ahead of the slowest by at most
`MaxSkew`. A call is asked for, takes effect and is heard as three steps, and a
client may die between them. Nothing in the repository takes a lease but the
tests, so the client is modelled as an orderly one (the comment of the module
says what that means): the row's behaviour is the code's, the discipline of the
clients is the assumption under which `Backed` is worth having.

**RemoteCalls.** A call is sent up to `maxAttempts` times (`coolify`: once); a
server may do what is asked and fail to say so, or not do it and say anything.
The servers are external. The body is read from one reader made before
the first attempt, so a later attempt of a POST carries none: a retried POST
never succeeds, and this is also why it has no second effect. `MergePR` sends
no expected head: the merge merges what is there.

**Intake.** `Reconcile` over item, issue and board, with its own table
`stepCommand`, and a caller that applies what it answered later or again; the
table is checked against that of the workflow.

**Rollout.** One flag as one user sees it. `percentage*100` is a product of
floats, truncated: for a whole number of buckets it may come out one too small,
and `rounded` is the set of percentages for which it does, an arbitrary one.

**Knowledge.** Authors read, write a proposal against what they read, and have
it applied, late or again.

**MCLibraries** instantiates the last five together: they share no state, so a
behaviour chooses one of them at its start and the others rest. It is five
runs in one.

Definitions whose comment says *Mutant of* are deliberately wrong variants,
used only to show that a property notices the fault; no specification refers
to them.

## 3. The runs

| Run | Instance | Checks |
|---|---|---|
| `journal_races` | one item, 4 events, 6 command IDs, 2 calls outstanding | `TypeOK`, `OncePerCommand`, `CommittedWhereDecided`, `HistoryOnlyGrows`, `RetryGetsSameAnswer` |
| `journal_gates` | one item, 9 events, views one version off, 1 call outstanding | `ChainOK`, `FoldAgrees`, `HumanGates`, `ImplementsWorkItems` |
| `role_loop` | two signatures, costs 0 to 2, budgets 1 and 3, deadline one unit away | `TypeOK`, `WithinBudget`, `FixesAccounted`, `NoFailureTwiceRunning`, `DoneIsEarned`, `Settles` |
| `daemon` | two items of one project, 3 operator commands, 1 crash, errors at any time, deadline one unit away | `TypeOK`, `BegunIsKnown`, `WorkflowAhead`, `ReviewsWhatWasBuilt`, `TriageHappens`, `WorkSettles` |
| `daemon_shared_project` | two items of one project | `Isolated`: **violated** |
| `daemon_resolve` | one project, `resolve_block` | `ResolveSticks`: **violated** |
| `daemon_stale_snapshot` | one project, `approve_pr` | `PastReviewIsHuman`: **violated** |
| `daemon_broken_project` | the first item's manifest unreadable | `TriageHappens`: **violated** |
| `executions` | two items, one of them confidential, two gates, two faults | `TypeOK`, `NothingForgotten`, `StartsInTime`, `ProductPaidOnce`, `PassIsEarned`, `RolesEnd` |
| `front_ends` | one item in review, two messages, one POST, one move of the daemon's, one fault | `TypeOK`, `MessageActsOnce`, `NoneDropped`, `MessagesSettle`, `RowsCatchUp` |
| `front_ends_long_tick` | the same | `TimelyCommandsHeard`: **violated** |
| `libraries` | two clients, callers, authors; any user of a flag; one item and its board | `LibTypeOK`, `Backed`, `ImplementsLock`, `OneEffectPerCall`, `OkMeansDone`, `IntakeFits`, `NeverSwitchedOff`, `NoLostUpdate` |

**Bounds.** *Journal*: four events are enough for an item to leave a state and
return to it (block, resolve) while a call decided before is outstanding, the
shortest history in which a version tells what a state cannot; nine are enough
to be approved, deployed, sent back by the client and implemented again. What
several items could do to each other is left to the theorems, which hold for
any number. `MaxSkew` bounds how old a human's view is; older ones take the
same branch (conflict). *RoleLoop*: two signatures alternate up to the limit of
fixes; a deadline of one unit can fall before any event. *Daemon*: three
commands authorize an item, send it back after review and start it again, or
block and resolve it at any step of a role; one crash can hit any step, a git
command included. `MaxOps` and `MaxFaults` make commands and crashes finite in
number, not in place; errors are not bounded. Items that share a project are
the usual case and the harder one, so the run has one project; with two,
projects and items only fall apart. One failure signature: two equal failures block the loop, which
is enough for every path of the daemon; how signatures alternate is the
business of `RoleLoop`. *Execution*: with `ThreadTimeout` 2 and `GateTimeout`
1 a gate may be killed by its own timeout or by that of the thread it follows,
and a second role of the same tick may start at the last moment allowed;
`MaxTime` 4 lets a pipe stay open until every deadline of that tick is past; `MaxRecords`
1 with two items makes files that `Open` refuses; two faults can be a failed
write and the crash after it. *FrontEnds*: an item in review that is sent
back, started and submitted again comes back to the state a message was written
in, which is the only way a message delivered twice could act twice; one item
suffices because rows and versions are per item; ages, leads and challenges of
one minute all expire within two. *libraries*: with `Ttl` 4 (two seconds),
clocks one unit apart and a clock that runs for seven units a lease
expires, is taken over and expires again, with both kinds of fraction; three
attempts are what the code makes; the percentages are below, at and above a
bucket, the places those next to them; nine events take an item through
deployment and back; four versions let two authors pass each other twice.
`CHECK_DEADLOCK FALSE` stands where the bounded or finished system really
stops.

**Fairness.** `RoleLoop`: someone goes on feeding the loop (weak fairness of
`Feed` over all events: an accepted event keeps being available, none is
favoured). `Daemon`: weak fairness of `TickStep`: the ticker fires for ever, each
call `Tick` makes returns, with a result or with an error, systemd restarts a
failed process; strong fairness of `Elapse`, since time passes between two ticks
again and again. That a call returns is where `Execution` takes over; that it
returns without an error is owed by nobody. `TriageHappens` and `WorkSettles`
therefore name what they need (`Clear`): from some time on no poll fails, and
no role or git command fails for the item or for one that sorts before it.
Errors of the items after it may go on for ever, and so may operators and
crashes up to their bound. `Execution`: weak fairness of what `harnessd` does
of itself (`Proceed`, `TimesOut` among it, which the contexts enforce) and of
`Elapse`. Nothing is owed by a process, by a pipe or by git. `RolesEnd` has
the premise that pipes do close (`PipesClose`); what it shows beyond is that
the deadlines are enough for processes that never end by themselves. Without
the premise it is false: a killed `npm` that leaves a server behind holds the
daemon for as long as that server lives. `FrontEnds`: weak fairness of `TickStep`, as above, and of the steps of
each HTTP call, which `net/http` goes on with. Operators, crashes, lost answers
and errors owe nothing. The modules of `libraries` state safety only.

**What the five violations say.** They are disagreements between the code and
what the repository says of it; each is listed with both places in
`PROJECT.json`.

1. *Isolated*: a worktree belongs to a project, not to a Work Item. What does
   hold with a shared one is `ReviewsWhatWasBuilt`: a reviewer finds the work of
   its item there, beside that of others, unless another item of the project
   was approved, whose end removes the worktree.
2. *ResolveSticks*: no event leaves the stage blocked of a loop, so a resolved
   item is blocked again at the next visit.
3. *PastReviewIsHuman*: `mirrorBlock` decides on a snapshot, `applyWorkflow`
   then blocks the item wherever it is by now.
4. *TriageHappens* with a broken project: `Tick` returns at the first item with
   an error, so the items that sort after it are never visited.
5. *TimelyCommandsHeard*: `pollTelegram` runs at the end of a tick, after the
   roles, and judges the messages by the time the tick began. A message sent
   during a tick that has run longer than a minute is "from the future", is
   dropped, and the offset is saved past it.

## 4. The theorems

`JournalProofs`, for every set of items, IDs, clients and bounds, has all nine
properties the two journal runs check.

- `TypeCorrect`, `ChainCorrect`, `OnceCorrect`. `Handle` decides on the item as
  loaded in the transaction that stores the event, so the chain needs nothing
  of what a caller knew.
- `HumanGatesHold`. `HumanGates` is not inductive: it needs that no call
  outstanding carries a gate command in automation's name (`GatesClosed`), which
  is what `Decide` saw to before the call was made.
- `CommittedWhereDecidedHolds`. It takes what an outstanding call knows. No two
  carry the same ID (`DistinctCalls`: a commit is that of the call whose ID
  appears in `commands`), and what automation saw is either the item as it is or
  a version the item has left (`SeenOrStale`). The second carries the gatekeeper's
  judgement over the time between it and `Commit`: with the check of the version
  gone it says nothing, and the property fails.
- `HistoryOnlyGrowsHolds`, and `RetryGetsSameAnswerHolds`, by the invariant
  `AnswersStored`: a call told "committed" was told of the event that is stored
  under its ID, and stored events stay, so `Duplicate` answers the same again.
- `ImplementsWorkItemsHolds`, the refinement: `Commit` is the step of `WorkItems`
  its command names, everything else stutters.
- `FoldCorrect`: Fold accepts a chain of any length and comes to `Projection`.
  What a fold computes takes induction, and the library's induction theorems
  cannot be instantiated here; the proof takes the least prefix on which the two
  differ instead (`LeastNatural`, from the well-foundedness of finite sets under
  inclusion), which cannot be, by one turn of the loop (`ReplayNext`).

`RoleLoopProofs`, for every budget, duration and set of signatures and costs:
`LoopTypeCorrect`, `BudgetKept`, `FixesBounded`, `RepetitionStops`,
`DoneCorrect`. The invariant ties the loop's fields to the history: while it
works, `fixes` is the number of failures taken in, `last` and `streak` are the
last failure and 1, and in the stage after a leg the evidence is there.

`DaemonProofs`, for every set of items, projects and failures, every budget and
duration, any number of commands and faults: `DaemonTypeCorrect`,
`BegunItemsKnown`, `WorkflowIsAhead`, `ReviewsAreOfBuiltWork`. None of the last
three is inductive. The invariant has a part for the data and one for `tick`.
For the data: an item that was in review stays in the states after the Spec, a
block resumes into one of them too; a loop that has begun is in the file; a loop
in review has its work in the worktree or shares its project with a loop that is
done (`Kept`). `Kept` is what the errors of git put at risk: what is lost in a
worktree is lost on the way to its removal only, and `Tick` removes it for a loop
that is done, which stays done. For `tick`: at each place the program
counter may be at, the stage of the loop it is working on (`StageOK`), that its
item is known and has a project (`QueueOK`), and what has been done on the way
from the gates to the feed of `gates_passed` (`PassedOK`). It lasts because only
`Tick` moves loops and worktrees, and because what operators change, the Work
Items, enters it through `past.reviewed` alone, which grows. A snapshot in
`tick.seen` says "reviewing" only of an item that was in review, however
stale it is. `WorkflowIsAhead` assumes that a role after the Spec is required
(`BuildsOrReviews`): the default requires all three, but a configuration with
the product role only has loops that are done right after the Spec.
`ReviewsAreOfBuiltWork` needs no hypothesis: any number of items may share a
project.

`ExecutionProofs`, for every set of items, gates, timeouts and number of
faults: `ExecutionTypeCorrect`, `RecordsRemembered`, `RolesStartInTime`,
`PassesAreEarned`, `ProductsPaidOnce`. Every step leaves the record `run` in one of a few shapes,
with a lemma each; the invariant says what the clock and the gates allow in
each of them: a process that runs has a deadline that is not past, the context
of a thread ends within two thread timeouts of the start of its tick
(`Deadline` bounds the start, the timeout the rest), a gate is started only
while that context lives, and who is on the way to "approved" as an
implementer has all results passed. `RolesStartInTime` is about starts because
ends have no bound: between a kill and the return of `Run` any time may
pass. For the files it
says that `saved` is what the loops file holds, and that memory never falls
behind it: only `Open` sets memory back, and it refuses a torn file.
`ProductsPaidOnce` takes a second invariant (`PaidOK`): an item without
`ProductDone` has cost no more threads than there were faults, and the record
that counts is the one in memory while the daemon runs and the one in the file
while it does not. The two change over without a fault only when a first
tick fails, and then they agree: a first tick ends with its first failed write.

`LeaseProofs`, for any number of clients, any ttl and any difference of clocks:
`LeaseTypeCorrect`, `ActorsAreBacked`, `LeaseIsALock` (the refinement of
`Lock`). The invariant says that a client's promise (`until`, or the answer
under way) is at most what the row says as long as the row names it. A row that
is taken over had expired by the taker's clock, up to the text order, which is
off by less than a second: `NotAfter(e, n)` gives `e < n + Second`. The
clocks differ by `MaxSkew` at most, so its last holder was within `Margin` of
the end by its own clock and had stopped. That is what `Margin` is for, and it
shows what an orderly client must leave: the skew and nearly a second.

`LibraryProofs`, package by package:

- `RemoteCalls`, for any number of callers and attempts: `CallsTypeCorrect`,
  `OneEffect`, `OkIsDone`. Only the first attempt of a POST carries a body, and
  one that had its effect is never the first again; a merge happens once
  because the server's `merged` does; "done" is answered only by a server that
  did it, and a caller told so has exactly one effect to its name, so that of
  several callers with one merge among them no two are told that they merged.
- `Rollout`, for any stages, place and rounding: `RolloutTypeCorrect`,
  `RolloutNeverSwitchesOff`. The flag's percentage is that of the last accepted
  stage, stages increase, and the number of buckets is monotone in the
  percentage whichever products come out too small: rounding takes one bucket
  at most, and only from a whole number of buckets, below which any smaller
  percentage already has at least one bucket less.
- `Knowledge`, for any authors and versions: `KnowledgeTypeCorrect`,
  `UpdatesAreRead`. A proposal's version is one more than that of the concept its
  author read, versions only grow, and two concepts of one version are the same
  concept.
- `Intake`, for any board and length of history: `IntakeTypeCorrect`,
  `IntakeAlwaysFits`. The invariant says of a proposal that waits what `Reconcile`
  knew: the version it expects is not ahead of the item's, and as long as it is
  the item's the proposal fits it. `Reconcile`'s table is within the workflow's
  (`StepsAreTransitions`), so `Handle` has one answer then, and none afterwards.

`LibrariesTypeCorrect`: each step of the composition in `MCLibraries` is a step of
one package or stutters in it, so its behaviours are behaviours of each
(`LeasesAlone`, `CallsAlone`, ...), and `LibTypeOK` follows from the type theorems
of the five. Through the same lemmas every theorem above holds of what the run
`libraries` explores.

`FrontEndsProofs`, for any number of items, callers and messages and any bounds:
`FrontEndsTypeCorrect`, `MessagesActOnce`, `NoMessageDropped`. The invariant has
four parts, which TLC checked on the instance of the run before they were proved.
*Types*. *Control*: what the place `Tick` is at says about its call, the update it
handles and the offset; a call of the Telegram poll carries the item and
version of that update. *Delivered*: every update before the one being handled
has its outcome, so that the offset saved after the batch passes none that has
not. *Spent*: a message that acted left its item ahead of the version it names.
The last is what makes a redelivery harmless whoever moves the item
meanwhile: an event of `Handle` moves the version on by one, versions never go
back, and a call that expects an older one is refused. HTTP handlers and
the refresh of rows run beside all this and touch none of it. The proof showed
one assumption on a constant to be too weak: the items there are at the start
must be stored ones (`Start`), in a state of the workflow; one with a version
and no state, which no history leads to, would have a row outside its type.

Assumptions are the named ones on the constants; TLC evaluates them in every
run. Every invariant and every safety property of a step that a passing run
checks is stated by one of these theorems (`WorkflowAhead` under the hypothesis
named above). Only model-checked is liveness (`Settles`,
`TriageHappens`, `WorkSettles`, `RolesEnd`, `MessagesSettle`, `RowsCatchUp`):
it rests on fairness, which takes ENABLED, outside the prover's reach. The
violations are of instances, and so are the runs that show them.

## 5. Not modelled, and why

*What a model leaves out of its component.* In `Daemon` an operator command is
one step and sees the current version (its own races are those of `Journal` and
`FrontEnds`); a role's effect on the worktree is only whether its work passed
the gates there; the loop's costs are zero, as `feed` leaves `CostUSD`. In
`Execution` the limit of 4 MiB and the fields of a record are left out, the
limit of records stands for both. In `FrontEnds` the bytes of updates, HMAC and
texts are left out: a challenge is its gate, version and expiry. `feedDashboard`
ranges over `d.known` from HTTP handlers while `Tick` writes that map, without
a lock, which Go answers by stopping the process or not at all: the model
has a fixed set of known items, and a crash anywhere. The allowed actions in
the answer to a conflict change no state.

*Left out for good.* `runner` (validates a task and starts one docker
process; nothing in the daemon calls it), `mcp` (its only backend refuses every
mutation), `cli` and `cmd` (arguments and wiring), YAML and JSON validation,
argv and environment building, spans and usage sums, HTML, bundle loading and
search: pure, or I/O whose outcomes the models take as choices.

*Things seen while modelling that no property is about.*
An item of a confidential or restricted project fails in `ExecuteRole` at every
tick. Its loop is never fed, so its deadline is never looked at either, and every
tick ends there: the items that sort after it are never visited. This is
outside the premise of `TriageHappens` and `WorkSettles`.
`codex.Run` and `stack.Run` set no `WaitDelay`, so their timeouts bound a process
and not the call.
The gates of a reviewer run and their failures are ignored.
An item submitted on the dashboard never enters `d.known`, so no tick visits it.
The gate `gofmt -l` exits with 0 whatever it lists, so it never fails.
`Reconcile` proposes, as automation, commands the gatekeeper would deny
automation; it does not ask it.
The ID of an intake step names the step and not the time, so a step taken a
second time (implementing, changes requested, implementing) is answered as a
duplicate and the item stays where it is; docs/implementation-plan.md:80 wants
the same ID for the same step, and gets it.

## 6. Plan

Order is by what can go wrong and is hard to test.

1. *done* `Workflow`, `Gatekeeper`, `Journal` with `WorkItems` and proofs.
2. *done* `Loop`, `RoleLoop` and proofs.
3. *done* `Daemon`, composing 1 and 2.
4. *done* `Lease` with `Lock`, and proofs, the refinement included.
5. *done* `Execution` (files, threads, gates, deadlines) and proofs.
6. *done* `FrontEnds` (Telegram, dashboard rows, operator commands).
7. *done* `Intake`, `RemoteCalls`, `Rollout`, `Knowledge`, and proofs.
8. *done* `DaemonProofs`: type correctness, `BegunIsKnown`, `WorkflowAhead`,
   `ReviewsWhatWasBuilt`.
9. *done* The remaining properties of `Journal`, with the refinement of
   `WorkItems` and `FoldAgrees`; `FrontEndsProofs`; `ProductPaidOnce`; `IntakeFits`.
10. Proofs: that each loop of `Daemon` is a loop of `RoleLoop`, so that what is
    proved of one loop holds inside the daemon; how the rows of the dashboard
    relate to the items they show.
