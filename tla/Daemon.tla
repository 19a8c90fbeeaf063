------------------------------- MODULE Daemon -------------------------------
(***************************************************************************)
(* internal/daemon: harnessd, which ticks over every Work Item it knows    *)
(* and moves workflow (the journal) and role loop (daemon-loops.json)      *)
(* forward together, while operators command the same items through the    *)
(* dashboard and Telegram, roles fail, and the process dies and restarts.  *)
(*                                                                         *)
(* Tick is one goroutine; what it may be interrupted at is each of its     *)
(* calls to the journal, to a role and to the disk: one step each, `tick`  *)
(* being its program counter and locals.  The journal is its Work Items    *)
(* (module Journal has the rows and the races of Apply).  d.loops is       *)
(* written through to its file by saveLoop, so it is one variable; d.known *)
(* and daemon-known.json are two.                                          *)
(***************************************************************************)
EXTENDS Gatekeeper, Loop

CONSTANTS Item,           \* Work Item IDs, in the order of sortedIDs
          Project,        \* project IDs
          ProjectOf,      \* registry.yaml: the project of an item
          NoProject,      \* ... of an item whose repository is unregistered
          Broken,         \* projects whose manifest cannot be read
          RequiredRoles, Budget, Duration,    \* Config; Duration in Elapses
          Failures,       \* what gates and reviews may fail with
          Menu,           \* the command types operators issue
          MaxOps,         \* bound: operator commands
          MaxFaults       \* bound: crashes

ASSUME ItemAssumption == Item \subseteq Nat \ {0}
ASSUME ProjectAssumption ==
  /\ ProjectOf \in [Item -> Project \cup {NoProject}]
  /\ Broken \subseteq Project
ASSUME ConfigAssumption ==
  /\ RequiredRoles \in (SUBSET Role) \ {{}}
  /\ Budget \in Nat \ {0}
  /\ Duration \in Nat \ {0}
ASSUME FailuresAssumption == NoSignature \notin Failures
ASSUME DaemonBoundsAssumption ==
  /\ Menu \subseteq CommandType
  /\ MaxOps \in Nat
  /\ MaxFaults \in Nat

VARIABLES item,        \* item[i]: the Work Item the journal loads
          known,       \* d.known
          knownFile,   \* daemon-known.json
          loops,       \* loops[i]: the loop of LoopRecord, NotBegun without one
          product,     \* items whose LoopRecord has ProductDone
          trees,       \* projects with a directory .worktrees/<project>
          built,       \* items whose work, gates passed, is in its worktree
          tick,        \* where Tick is
          past,        \* history: items that were in review, and items
                       \* blocked because their loop was
          ops, faults  \* so far

journal == <<item, past>>
memory == <<known, knownFile, loops, product>>
disk == <<trees, built>>
counts == <<ops, faults>>
vars == <<journal, memory, disk, tick, counts>>

Fresh == Begin(RequiredRoles, Budget, Duration)
NotBegun == [Fresh EXCEPT !.stage = "none"]

Working == {"ready", "implementing", "reviewing"}

Automation == DaemonContext("automation")
Operator == DaemonContext("operator")

NoItem == 0

At(pc, first) ==
  [pc |-> pc, first |-> first, queue |-> {}, cur |-> NoItem, seen |-> NoState,
   cmd |-> "none", expected |-> 0, role |-> NoRole]

Init ==
  /\ item = [i \in Item |-> EmptyItem]
  /\ known = {} /\ knownFile = {}
  /\ loops = [i \in Item |-> NotBegun]
  /\ product = {}
  /\ trees = {} /\ built = {}
  /\ tick = At("down", TRUE)
  /\ past = [reviewed |-> {}, mirrored |-> {}]
  /\ ops = 0 /\ faults = 0

(* The locals of Tick. *)
cur == tick.cur
Goto(pc) == tick' = [tick EXCEPT !.pc = pc]

(* advanceItem returns without an error: on to the next item. *)
Leave == tick' = [At("visit", tick.first) EXCEPT !.queue = tick.queue]

(* Tick returns an error.  Serve exits on its first tick, else it goes on. *)
Fail == tick' = IF tick.first THEN At("down", TRUE) ELSE At("idle", FALSE)

Fault == faults < MaxFaults /\ faults' = faults + 1 /\ UNCHANGED ops

Command(i, type, actor, expected) ==
  [id |-> "any", item |-> i, expected |-> expected, actor |-> actor,
   type |-> type, reason |-> TRUE]

(* The journal takes an event of item i. *)
Record(i, e) ==
  /\ item' = [item EXCEPT ![i] = Replay(item[i], e)]
  /\ past' = [reviewed |-> past.reviewed \cup (IF e.to = "reviewing" THEN {i} ELSE {}),
              mirrored |-> past.mirrored \cup
                (IF e.to = "blocked" /\ e.actor = "automation" THEN {i} ELSE {})]
-----------------------------------------------------------------------------
(* Serve: Open reads the files, the first tick comes at once. *)
Boot ==
  /\ tick.pc = "down"
  /\ known' = knownFile
  /\ tick' = At("idle", TRUE)
  /\ UNCHANGED <<journal, knownFile, loops, product, disk, counts>>

(* Poll answers with issues; those already known are skipped.              *)
BeginTick ==
  /\ tick.pc = "idle"
  /\ \E polled \in SUBSET (Item \ known) :
       tick' = [tick EXCEPT !.pc = "intake", !.queue = polled]
  /\ UNCHANGED <<journal, memory, disk, counts>>

PollFails ==
  /\ tick.pc = "idle"
  /\ Fail
  /\ UNCHANGED <<journal, memory, disk, counts>>

(* An issue nobody submitted yet is submitted; one in the journal is known. *)
Intake(i) ==
  /\ tick.pc = "intake"
  /\ i \in tick.queue
  /\ IF item[i] = EmptyItem
     THEN /\ tick' = [tick EXCEPT !.pc = "apply", !.queue = @ \ {i}, !.cur = i,
                                  !.cmd = "submit_work", !.expected = 0]
          /\ UNCHANGED known
     ELSE /\ tick' = [tick EXCEPT !.queue = @ \ {i}]
          /\ known' = known \cup {i}
  /\ UNCHANGED <<journal, knownFile, loops, product, disk, counts>>

(* Mutant of FinishIntake: the file is left to a later tick.               *)
FinishIntakeLazily ==
  /\ tick.pc = "intake"
  /\ tick.queue = {}
  /\ tick' = [tick EXCEPT !.pc = "visit", !.queue = known]
  /\ UNCHANGED <<journal, memory, disk, counts>>

(* persistKnown, then every known item in turn. *)
FinishIntake ==
  /\ tick.pc = "intake"
  /\ tick.queue = {}
  /\ knownFile' = known
  /\ tick' = [tick EXCEPT !.pc = "visit", !.queue = known]
  /\ UNCHANGED <<journal, known, loops, product, disk, counts>>

EndTick ==
  /\ tick.pc = "visit"
  /\ tick.queue = {}
  /\ tick' = At("idle", FALSE)
  /\ UNCHANGED <<journal, memory, disk, counts>>

(* advanceItem: triage what is in the inbox, begin a loop where there is    *)
(* none, skip the items that wait for a human or have no project.          *)
Visit ==
  /\ tick.pc = "visit"
  /\ \E i \in tick.queue :
       LET on(pc, cmd) == tick' = [tick EXCEPT !.pc = pc, !.queue = @ \ {i},
                                               !.cur = i, !.cmd = cmd]
           skipped == tick' = [tick EXCEPT !.queue = @ \ {i}]
           p == ProjectOf[i]
       IN  /\ \A j \in tick.queue : i <= j
           /\ CASE item[i].state = "inbox" -> on("decide", "begin_triage") /\ UNCHANGED loops
                [] item[i].state \in Working /\ p \in Broken -> Fail /\ UNCHANGED loops
                [] item[i].state \in Working /\ p \notin Broken \cup {NoProject} ->
                     /\ on("enter", "none")
                     /\ loops' = IF loops[i].stage # "none" THEN loops
                                 ELSE [loops EXCEPT ![i] = Fresh]
                [] OTHER -> skipped /\ UNCHANGED loops
  /\ UNCHANGED <<journal, known, knownFile, product, disk, counts>>

(* advanceLoop loads the item again: `seen` is its snapshot. *)
Enter ==
  /\ tick.pc = "enter"
  /\ tick' = [tick EXCEPT
       !.seen = item[cur].state,
       !.pc = CASE loops[cur].stage = "done" -> "close"
                [] loops[cur].stage = "blocked" -> "mirror"
                [] loops[cur].stage = "specifying" -> "spec"
                [] loops[cur].stage = "implementing" -> "implement"
                [] loops[cur].stage = "reviewing" -> "review"]
  /\ UNCHANGED <<journal, memory, disk, counts>>
-----------------------------------------------------------------------------
(* applyWorkflow: Load and Decide, then Apply of what was loaded.          *)
ApplyWorkflow(type) == tick' = [tick EXCEPT !.pc = "decide", !.cmd = type]

DecideCommand ==
  /\ tick.pc = "decide"
  /\ IF Permits(Automation, item[cur].state, tick.cmd)
     THEN tick' = [tick EXCEPT !.pc = "apply", !.expected = item[cur].version]
     ELSE Fail
  /\ UNCHANGED <<journal, memory, disk, counts>>

Applying == Handle(item[cur], Command(cur, tick.cmd, "automation", tick.expected))

(* Apply refuses: the item moved after it was loaded. *)
ApplyRefused ==
  /\ tick.pc = "apply"
  /\ Applying = {}
  /\ Fail
  /\ UNCHANGED <<journal, memory, disk, counts>>

Applied ==
  /\ tick.pc = "apply"
  /\ \E e \in Applying : Record(cur, e)
  /\ IF tick.cmd = "submit_work"
     THEN /\ known' = known \cup {cur}
          /\ tick' = [At("intake", tick.first) EXCEPT !.queue = tick.queue]
     ELSE /\ UNCHANGED known
          /\ IF tick.cmd \in {"begin_triage", "block"} THEN Leave ELSE Goto("reload")
  /\ UNCHANGED <<knownFile, loops, product, disk, counts>>

(* The load that follows begin_implementation and submit_review.           *)
Reload ==
  /\ tick.pc = "reload"
  /\ tick' = [tick EXCEPT
       !.seen = item[cur].state,
       !.pc = IF tick.cmd = "begin_implementation" THEN "implement" ELSE "passed"]
  /\ UNCHANGED <<journal, memory, disk, counts>>
-----------------------------------------------------------------------------
(* ExecuteRole: first ensureWorktree, then the Agent Thread and the gates,  *)
(* whose outcome is the step after.                                        *)
StartRole(role) == tick' = [tick EXCEPT !.pc = "prepare", !.role = role]

(* What has become of the disk when a git command fails or is killed, which *)
(* no context does: half a worktree made, or the work in one gone, and in  *)
(* both cases a directory that os.Stat takes for the worktree.             *)
Elsewhere == {i \in built : ProjectOf[i] # ProjectOf[cur]}

GitStops ==
  \/ UNCHANGED disk
  \/ tick.pc = "prepare" /\ trees' = trees \cup {ProjectOf[cur]} /\ UNCHANGED built
  \/ tick.pc = "close" /\ built' = Elsewhere /\ UNCHANGED trees

(* The worktree of the project is made, unless its directory is there. *)
PrepareTree ==
  /\ tick.pc = "prepare"
  /\ trees' = trees \cup {ProjectOf[cur]}
  /\ Goto("running")
  /\ UNCHANGED <<journal, memory, built, counts>>

PrepareFails ==
  /\ tick.pc = "prepare"
  /\ GitStops
  /\ Fail
  /\ UNCHANGED <<journal, memory, counts>>

(* No route to a model for a confidential or restricted project, a thread   *)
(* or a gate with an error, a product thread that is not "completed": the  *)
(* tick ends and nothing is fed, at every tick again while the cause stays. *)
RoleFails ==
  /\ tick.pc = "running"
  /\ Fail
  /\ UNCHANGED <<journal, memory, disk, counts>>

(* feed: Advance at no cost, saved. *)
Feed(e) ==
  \E result \in Advance(loops[cur], e, 0) : loops' = [loops EXCEPT ![cur] = result.after]

(* What follows the feeds of the implementer and of the reviewer. *)
Conclude ==
  CASE loops'[cur].stage = "blocked" -> Goto("mirror")
    [] loops'[cur].stage = "done" /\ tick.role = "reviewer" -> Goto("close")
    [] OTHER -> Leave

(* After the Spec the same visit goes on to the stage the loop is in now.  *)
(* Of the two paths that feed spec_ready, one loads the item again.        *)
AfterSpec ==
  CASE loops'[cur].stage = "implementing" ->
         tick' = [tick EXCEPT !.seen = IF @ = "ready" THEN item[cur].state ELSE @,
                              !.pc = "implement"]
    [] OTHER -> Leave

SpecLeg ==
  /\ tick.pc = "spec"
  /\ CASE tick.seen = "ready" /\ cur \notin product ->
            StartRole("product") /\ UNCHANGED loops
       [] tick.seen = "ready" /\ cur \in product -> Feed(SpecReady) /\ AfterSpec
       [] tick.seen \in {"implementing", "reviewing"} -> Feed(SpecReady) /\ AfterSpec
       [] OTHER -> Leave /\ UNCHANGED loops
  /\ UNCHANGED <<journal, known, knownFile, product, disk, counts>>

ProductEnds ==
  /\ tick.pc = "running" /\ tick.role = "product"
  /\ product' = product \cup {cur}
  /\ Goto("spec")
  /\ UNCHANGED <<journal, known, knownFile, loops, disk, counts>>

(* Mutant of ImplementLeg: an item in review skips the implementer.        *)
ImplementLegSkipped ==
  /\ tick.pc = "implement"
  /\ CASE tick.seen = "ready" -> ApplyWorkflow("begin_implementation")
       [] tick.seen = "implementing" -> StartRole("implementer")
       [] tick.seen = "reviewing" -> Goto("passed")
       [] OTHER -> Leave
  /\ UNCHANGED <<journal, memory, disk, counts>>

(* The implementer's leg. *)
ImplementLeg ==
  /\ tick.pc = "implement"
  /\ CASE tick.seen = "ready" -> ApplyWorkflow("begin_implementation")
       [] tick.seen \in {"implementing", "reviewing"} -> StartRole("implementer")
       [] OTHER -> Leave
  /\ UNCHANGED <<journal, memory, disk, counts>>

ImplementerFails ==
  /\ tick.pc = "running" /\ tick.role = "implementer"
  /\ built' = built \ {cur}
  /\ \E sig \in Failures : Feed(GatesFailed(sig)) /\ Conclude
  /\ UNCHANGED <<journal, known, knownFile, product, trees, counts>>

(* Mutant of ImplementerPasses: the loop is fed before the item is submitted. *)
ImplementerPassesLoopFirst ==
  /\ tick.pc = "running" /\ tick.role = "implementer"
  /\ built' = built \cup {cur}
  /\ Feed(GatesPassed)
  /\ IF tick.seen = "implementing" THEN ApplyWorkflow("submit_review")
                                   ELSE Conclude
  /\ UNCHANGED <<journal, known, knownFile, product, trees, counts>>

ImplementerPasses ==
  /\ tick.pc = "running" /\ tick.role = "implementer"
  /\ built' = built \cup {cur}
  /\ IF tick.seen = "implementing" THEN ApplyWorkflow("submit_review")
                                   ELSE Goto("passed")
  /\ UNCHANGED <<journal, memory, trees, counts>>

GatesPass ==
  /\ tick.pc = "passed"
  /\ Feed(GatesPassed)
  /\ Conclude
  /\ UNCHANGED <<journal, known, knownFile, product, disk, counts>>

(* The reviewer's leg.  Where the item is still, or again, implementing,    *)
(* the loop is fed gates_passed, which it takes for an error in this stage *)
(* (short of its deadline).                                                *)
ReviewLeg ==
  /\ tick.pc = "review"
  /\ CASE tick.seen = "implementing" ->
            \/ Feed(GatesPassed) /\ Leave
            \/ Advance(loops[cur], GatesPassed, 0) = {} /\ Fail /\ UNCHANGED loops
       [] tick.seen = "reviewing" -> StartRole("reviewer") /\ UNCHANGED loops
       [] OTHER -> Leave /\ UNCHANGED loops
  /\ UNCHANGED <<journal, known, knownFile, product, disk, counts>>

ReviewerEnds ==
  /\ tick.pc = "running" /\ tick.role = "reviewer"
  /\ \/ Feed(Reviewed("approve", NoSignature)) /\ Conclude
     \/ \E sig \in Failures : Feed(Reviewed("changes", sig)) /\ Conclude
  /\ UNCHANGED <<journal, known, knownFile, product, disk, counts>>

(* Mutant of Mirror: an item in review is left to the humans.              *)
MirrorSparesReview ==
  /\ tick.pc = "mirror"
  /\ IF tick.seen \in {"reviewing", "blocked", "done", "cancelled"} THEN Leave
                                                       ELSE ApplyWorkflow("block")
  /\ UNCHANGED <<journal, memory, disk, counts>>

(* mirrorBlock: the block of the loop becomes a block of the Work Item,     *)
(* unless the snapshot says that it needs none.                            *)
Mirror ==
  /\ tick.pc = "mirror"
  /\ IF tick.seen \in {"blocked", "done", "cancelled"} THEN Leave
                                                       ELSE ApplyWorkflow("block")
  /\ UNCHANGED <<journal, memory, disk, counts>>

(* closeIfPresent: the worktree of the project goes, with all that is in it. *)
CloseTree ==
  /\ tick.pc = "close"
  /\ trees' = trees \ {ProjectOf[cur]}
  /\ built' = Elsewhere
  /\ Leave
  /\ UNCHANGED <<journal, memory, counts>>

(* git refuses to remove it: the next tick tries again. *)
CloseFails ==
  /\ tick.pc = "close"
  /\ ProjectOf[cur] \in trees
  /\ GitStops
  /\ Fail
  /\ UNCHANGED <<journal, memory, counts>>

(* The goroutine of Tick, and the service manager that restarts it. *)
TickStep ==
  \/ Boot \/ BeginTick \/ PollFails \/ FinishIntake \/ EndTick \/ Visit \/ Enter
  \/ \E i \in Item : Intake(i)
  \/ DecideCommand \/ ApplyRefused \/ Applied \/ Reload
  \/ PrepareTree \/ PrepareFails \/ RoleFails \/ SpecLeg \/ ProductEnds
  \/ ImplementLeg \/ ImplementerFails \/ ImplementerPasses \/ GatesPass
  \/ ReviewLeg \/ ReviewerEnds \/ Mirror \/ CloseTree \/ CloseFails
-----------------------------------------------------------------------------
(* ApplyOperatorCommand, for the dashboard and for Telegram, while harnessd *)
(* runs.  Its own races with the journal are those of module Journal: here *)
(* the operator saw the item as it is.                                     *)
OperatorCommand(i, type) ==
  /\ tick.pc # "down"
  /\ ops < MaxOps
  /\ Permits(Operator, item[i].state, type)
  /\ \E e \in Handle(item[i], Command(i, type, "operator", item[i].version)) :
       Record(i, e)
  /\ ops' = ops + 1
  /\ UNCHANGED <<memory, disk, tick, faults>>

Crash ==
  /\ tick.pc # "down"
  /\ Fault
  /\ tick' = At("down", TRUE)
  /\ GitStops
  /\ UNCHANGED <<journal, memory>>

(* Time passes between two ticks; a tick takes the time it began at. *)
Elapse ==
  /\ tick.pc \in {"idle", "down"}
  /\ \E i \in Item : loops[i].stage \notin Over \cup {"none"} /\ loops[i].left > 0
  /\ loops' = [i \in Item |->
       IF loops[i].stage \notin Over \cup {"none"} /\ loops[i].left > 0
       THEN [loops[i] EXCEPT !.left = @ - 1] ELSE loops[i]]
  /\ UNCHANGED <<journal, known, knownFile, product, disk, tick, counts>>

Next ==
  \/ TickStep \/ Crash \/ Elapse
  \/ \E i \in Item, type \in Menu : OperatorCommand(i, type)

(***************************************************************************)
(* The ticker fires for ever and Tick goes on, whether its calls succeed   *)
(* or not (how long a role may take is module Execution); systemd restarts *)
(* what fails; time passes again and again between the ticks.  Nobody owes *)
(* the daemon a command, and no git and no role owes it a success.         *)
(***************************************************************************)
Spec == Init /\ [][Next]_vars /\ WF_vars(TickStep) /\ SF_vars(Elapse)
-----------------------------------------------------------------------------
Signature == Failures \cup {NoSignature}

LoopState ==
  [stage : Stage \cup {"none"}, roles : {RequiredRoles}, fixes : 0 .. MaxFixes,
   last : Signature, streak : 0 .. 2, spent : {0}, budget : {Budget},
   left : 0 .. Duration, reason : BlockReason \cup {"none"}]

TickState ==
  [pc : {"down", "idle", "intake", "visit", "enter", "decide", "apply", "reload",
         "spec", "prepare", "running", "implement", "passed", "review", "mirror", "close"},
   first : BOOLEAN, queue : SUBSET Item, cur : Item \cup {NoItem},
   seen : State \cup {NoState}, cmd : CommandType \cup {"none"}, expected : Nat,
   role : Role \cup {NoRole}]

TypeOK ==
  /\ item \in [Item -> WorkItem]
  /\ known \subseteq Item /\ knownFile \subseteq Item
  /\ loops \in [Item -> LoopState]
  /\ product \subseteq Item
  /\ trees \subseteq Project
  /\ built \subseteq Item
  /\ tick \in TickState
  /\ past \in [reviewed : SUBSET Item, mirrored : SUBSET Item]
  /\ ops \in 0 .. MaxOps /\ faults \in 0 .. MaxFaults

(* A crash orphans no work: an item whose loop has begun is in the file of  *)
(* known items, which alone makes the next process visit it (FinishIntake  *)
(* persists d.known before the first advanceItem).                         *)
BegunIsKnown == \A i \in Item : loops[i].stage # "none" => i \in knownFile

(* "Workflow ahead, loop behind": a loop that is in review or done has a    *)
(* Work Item that was submitted for review, whatever crashes or commands   *)
(* fall between submit_review and the feed of gates_passed.                *)
WorkflowAhead ==
  \A i \in Item :
    loops[i].stage \in {"reviewing", "done"} =>
      /\ i \in past.reviewed
      /\ item[i].state \notin {NoState, "inbox", "triage", "ready", "specifying"}

(* Each Work Item runs in an isolated worktree: where a role runs, no other *)
(* item's work lies.                                                       *)
Isolated ==
  tick.pc = "running" => \A i \in built : ProjectOf[i] = ProjectOf[cur] => i = cur

(* A reviewer finds in the worktree the work that passed the gates, also of *)
(* an item that humans put in review, unless another item of the project   *)
(* is done: the worktree goes with the first that is.                      *)
ReviewsWhatWasBuilt ==
  tick.pc = "running" /\ tick.role = "reviewer" =>
    \/ cur \in built
    \/ \E i \in Item \ {cur} : ProjectOf[i] = ProjectOf[cur] /\ loops[i].stage = "done"

(* The daemon never undoes a human's resolve_block: it blocks an item for   *)
(* its loop once, not again and again.                                     *)
ResolveSticks ==
  [][\A i \in Item :
       /\ item[i].state # "blocked" /\ item'[i].state = "blocked"
       /\ ops' = ops
       => i \notin past.mirrored]_vars

(* What is past review is left to the humans: the daemon moves no such item. *)
PastReview == {"changes_requested", "ready_to_deploy", "deploying", "client_qa",
               "rolling_out", "done", "failed", "cancelled"}

PastReviewIsHuman ==
  [][\A i \in Item :
       item[i].state \in PastReview /\ ops' = ops => item'[i] = item[i]]_vars

(***************************************************************************)
(* The errors that end a tick before it is past item i: a failed poll, and *)
(* a role or a git command that failed for i or an item before it.  The    *)
(* code repeats them for as long as their cause stays, and for the items   *)
(* of a confidential project that is for ever.                             *)
(***************************************************************************)
ErrsUpTo(i) ==
  \/ PollFails
  \/ cur <= i /\ (PrepareFails \/ RoleFails \/ CloseFails)

(* From some time on there are none. *)
Clear(i) == <>[][~ErrsUpTo(i)]_vars

(* Restarts, operators and whatever fails for the items after it: nothing   *)
(* but an error in this item's turn or before it keeps an item that the    *)
(* daemon knows of in the inbox.                                           *)
TriageHappens ==
  \A i \in Item :
    Clear(i) => (i \in knownFile /\ item[i].state = "inbox" ~> item[i].state # "inbox")

(* What the daemon works on comes to an end, approved or handed back to a   *)
(* human: it does not stay in its hands for ever, unless errors do.        *)
WorkSettles ==
  \A i \in Item :
    Clear(i) =>
      (i \in knownFile /\ item[i].state \in Working /\ ProjectOf[i] \in Project \ Broken
         ~> item[i].state \notin Working \/ loops[i].stage = "done")
=============================================================================
