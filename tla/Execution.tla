----------------------------- MODULE Execution ------------------------------
(***************************************************************************)
(* What lies under the ticks of module Daemon: ExecuteRole, with the Agent *)
(* Thread (internal/codex), the gates (internal/stack) and their deadlines, *)
(* which bound a process but not the Run that waits for it, and the two    *)
(* files daemon-known.json and daemon-loops.json, which os.WriteFile       *)
(* truncates before it writes and Open refuses when they do not parse or   *)
(* are too large.                                                          *)
(*                                                                         *)
(* A loop record is how far its item got: 0 no record, 1 a title, 2 a loop *)
(* that has begun, 3 ProductDone.  What else is in it is module Loop.      *)
(***************************************************************************)
EXTENDS Naturals, Sequences, FiniteSets

CONSTANTS Item,            \* Work Items, in the order of sortedIDs
          Routed,          \* items whose classification may reach a model
          Gates,           \* sortedGates of the adapter
          GateTimeout,     \* the timeout of a gate
          ThreadTimeout,   \* threadTimeout
          MaxRecords,      \* maxKnownItems, maxLoopRecords
          MaxTime, MaxFaults      \* bounds

ASSUME ExecutionAssumption ==
  /\ Item \subseteq Nat \ {0} /\ Routed \subseteq Item
  /\ Len(Gates) \in Nat \ {0}
  /\ {GateTimeout, ThreadTimeout, MaxRecords} \subseteq Nat \ {0}
  /\ {MaxTime, MaxFaults} \subseteq Nat

VARIABLES time,        \* the clock
          known,       \* d.known
          loops,       \* d.loops
          file,        \* file.known and file.loops, as they parse
          torn,        \* the files that do not
          run,         \* where Tick and ExecuteRole are
          saved,       \* history: the loops of the last saveLoop that returned
          paid,        \* history: product threads completed, by item
          faults       \* so far

vars == <<time, known, loops, file, torn, run, saved, paid, faults>>
memory == <<known, loops>>
disk == <<file, torn, saved>>

NoItem == 0
Kept == {"known", "loops"}

At(pc, now, first) ==
  [pc |-> pc, now |-> now, first |-> first, queue |-> {}, cur |-> NoItem, role |-> "none",
   until |-> 0, gateUntil |-> 0, exit |-> "none", status |-> "none", results |-> <<>>,
   then |-> "none"]

(* A first start: no file is an empty file, of its own kind. *)
Init ==
  /\ time = 0
  /\ known = {}
  /\ loops = [i \in Item |-> 0]
  /\ file = [known |-> {}, loops |-> loops]
  /\ torn = {}
  /\ run = At("down", 0, TRUE)
  /\ saved = loops
  /\ paid = [i \in Item |-> 0]
  /\ faults = 0

Fault == faults < MaxFaults /\ faults' = faults + 1

(* The tick ends with an error: Serve goes on, but not after its first tick. *)
Failed == IF run.first THEN At("down", 0, TRUE) ELSE At("idle", run.now, FALSE)
Fail == run' = Failed
Leave == run' = [At("visit", run.now, run.first) EXCEPT !.queue = run.queue]
-----------------------------------------------------------------------------
Records == {i \in Item : file.loops[i] > 0}

(* Mutant of Readable: a loops file that does not parse is as good as none. *)
ReadableLoosely ==
  "known" \notin torn /\ Cardinality(file.known) <= MaxRecords

(* loadKnown, loadLoops: a file that is torn or too large stops Open. *)
Readable ==
  /\ torn = {}
  /\ Cardinality(file.known) <= MaxRecords
  /\ Cardinality(Records) <= MaxRecords

(* Open, by the service manager again and again. *)
Open ==
  /\ run.pc = "down"
  /\ IF Readable
     THEN /\ known' = file.known
          /\ loops' = IF "loops" \in torn THEN [i \in Item |-> 0] ELSE file.loops
          /\ run' = At("idle", time, TRUE)
     ELSE UNCHANGED <<memory, run>>
  /\ UNCHANGED <<time, disk, paid, faults>>

(* os.WriteFile truncates; what it writes is the next step. *)
Truncate(name, pc) ==
  /\ torn' = torn \cup {name}
  /\ run' = [run EXCEPT !.pc = "write", !.then = pc]
  /\ UNCHANGED <<file, saved>>

SaveLoop(i, progress, pc) ==
  /\ loops' = [loops EXCEPT ![i] = progress]
  /\ Truncate("loops", pc)

Written ==
  /\ run.pc = "write"
  /\ IF run.then = "visit"
     THEN /\ file' = [file EXCEPT !.known = known]
          /\ torn' = torn \ {"known"}
          /\ UNCHANGED saved
     ELSE /\ file' = [file EXCEPT !.loops = loops]
          /\ torn' = torn \ {"loops"}
          /\ saved' = loops
  /\ run' = [run EXCEPT !.pc = run.then, !.then = "none"]
  /\ UNCHANGED <<time, memory, paid, faults>>

(* The disk refuses; memory is ahead of the file now, and the tick ends. *)
WriteFails ==
  /\ run.pc = "write"
  /\ Fault
  /\ Fail
  /\ UNCHANGED <<time, memory, disk, paid>>

Crash ==
  /\ run.pc # "down"
  /\ Fault
  /\ run' = At("down", 0, TRUE)
  /\ UNCHANGED <<time, memory, disk, paid>>
-----------------------------------------------------------------------------
BeginTick ==
  /\ run.pc = "idle"
  /\ \E now \in run.now .. time, polled \in SUBSET (Item \ known) :
       run' = [At("intake", now, run.first) EXCEPT !.queue = polled]
  /\ UNCHANGED <<time, memory, disk, paid, faults>>

(* An issue becomes known; one that is new to the journal as well gets a   *)
(* loop record, if it has none.                                            *)
Intake(i) ==
  /\ run.pc = "intake"
  /\ i \in run.queue
  /\ known' = known \cup {i}
  /\ \/ /\ loops[i] = 0
        /\ loops' = [loops EXCEPT ![i] = 1]
        /\ torn' = torn \cup {"loops"}
        /\ run' = [run EXCEPT !.pc = "write", !.then = "intake", !.queue = run.queue \ {i}]
     \/ /\ run' = [run EXCEPT !.queue = run.queue \ {i}]
        /\ UNCHANGED <<loops, torn>>
  /\ UNCHANGED <<time, file, saved, paid, faults>>

PersistKnown ==
  /\ run.pc = "intake"
  /\ run.queue = {}
  /\ torn' = torn \cup {"known"}
  /\ run' = [run EXCEPT !.pc = "write", !.then = "visit", !.queue = known]
  /\ UNCHANGED <<time, memory, file, saved, paid, faults>>

EndTick ==
  /\ run.pc = "visit"
  /\ run.queue = {}
  /\ run' = At("idle", run.now, FALSE)
  /\ UNCHANGED <<time, memory, disk, paid, faults>>
-----------------------------------------------------------------------------
(***************************************************************************)
(* ExecuteRole up to the start of the thread: a confidential or restricted *)
(* project has no route to a model, and Deadline, counted from the start   *)
(* of the tick, must not have passed.                                      *)
(***************************************************************************)
Starts(i) == i \in Routed /\ time < run.now + ThreadTimeout

Execute(i, role) ==
  /\ time < MaxTime
  /\ run' = IF Starts(i)
            THEN [run EXCEPT !.pc = "thread", !.role = role, !.until = time + ThreadTimeout]
            ELSE Failed

Into(i, pc, then) ==
  run' = [run EXCEPT !.pc = pc, !.then = then, !.cur = i, !.queue = run.queue \ {i}]

(* advanceItem: the item waits for others, or its loop begins if it has not. *)
Visit ==
  /\ run.pc = "visit"
  /\ \E i \in run.queue :
       /\ \A j \in run.queue : i <= j
       /\ \/ /\ run' = [run EXCEPT !.queue = run.queue \ {i}]
             /\ UNCHANGED <<loops, torn>>
          \/ /\ loops[i] < 2
             /\ loops' = [loops EXCEPT ![i] = 2]
             /\ torn' = torn \cup {"loops"}
             /\ Into(i, "write", "leg")
          \/ /\ loops[i] >= 2
             /\ Into(i, "leg", "none")
             /\ UNCHANGED <<loops, torn>>
  /\ UNCHANGED <<time, known, file, saved, paid, faults>>

(* advanceLoop: which role is for module Daemon to say; never product twice. *)
Leg ==
  /\ run.pc = "leg"
  /\ \/ loops[run.cur] = 2 /\ Execute(run.cur, "product")
     \/ \E role \in {"implementer", "reviewer"} : Execute(run.cur, role)
     \/ Leave
  /\ UNCHANGED <<time, memory, disk, paid, faults>>

(***************************************************************************)
(* A process ends by itself, is killed by somebody, or is killed by its    *)
(* context at its deadline.  cmd.Run does not return with it: with a       *)
(* writer for its output and no WaitDelay it waits until whatever the      *)
(* process has left behind closes the pipe, for which there is no bound.   *)
(* "missing": no such binary; "expired": the context had ended before the  *)
(* process began.  Both answer an error with the exit code 0 of an empty   *)
(* Result.                                                                 *)
(***************************************************************************)
GateResult == {"zero", "nonzero", "missing", "expired"}
Exit == GateResult \cup {"killed"}

(* The deadline of the process that runs: codex, or the gate.              *)
Limit == IF run.pc = "thread" THEN run.until ELSE run.gateUntil

Drain(exit) ==
  run' = [run EXCEPT !.pc = "drain", !.exit = exit,
                     !.then = IF run.pc = "thread" THEN "ended" ELSE "head"]

Exits(exit) ==
  /\ run.pc \in {"thread", "gate"}
  /\ Drain(exit)
  /\ UNCHANGED <<time, memory, disk, paid, faults>>

(* Mutant of TimesOut: the command does not hear of the context.           *)
TimesOutNever == FALSE /\ UNCHANGED vars

TimesOut ==
  /\ run.pc \in {"thread", "gate"}
  /\ time = Limit
  /\ Drain("killed")
  /\ UNCHANGED <<time, memory, disk, paid, faults>>

Drained ==
  /\ run.pc = "drain"
  /\ run' = [run EXCEPT !.pc = run.then, !.then = "none"]
  /\ UNCHANGED <<time, memory, disk, paid, faults>>
-----------------------------------------------------------------------------
(* codex.Run answers.  An exit code of 0 is all it asks of the process: it  *)
(* may return long after the deadline and yet without an error.            *)
ThreadEnds(status) ==
  /\ run.pc = "ended"
  /\ run.exit = "zero"
  /\ run.role # "product"
  /\ run' = [run EXCEPT !.pc = "gates", !.exit = "none", !.status = status]
  /\ UNCHANGED <<time, memory, disk, paid, faults>>

(* Only "completed" counts of a product thread. *)
ProductCompletes ==
  /\ run.pc = "ended"
  /\ run.exit = "zero"
  /\ run.role = "product"
  /\ paid' = [paid EXCEPT ![run.cur] = @ + 1]
  /\ run' = [run EXCEPT !.pc = "completed", !.exit = "none"]
  /\ UNCHANGED <<time, memory, disk, faults>>

(* No codex binary, an exit code, a transcript with a line that does not    *)
(* parse (one cut by the 256 KiB cap as well), a final message that does   *)
(* not validate, a product thread that is not "completed": all errors.     *)
ThreadFails ==
  /\ run.pc = "ended"
  /\ Fail
  /\ UNCHANGED <<time, memory, disk, paid, faults>>

(* Mutant of ProductEnds: what is saved is the record as it was.           *)
ProductEndsUnsaved ==
  /\ run.pc = "completed"
  /\ SaveLoop(run.cur, 2, "feed")
  /\ UNCHANGED <<time, known, paid, faults>>

(* ProductDone is saved at once. *)
ProductEnds ==
  /\ run.pc = "completed"
  /\ SaveLoop(run.cur, 3, "feed")
  /\ UNCHANGED <<time, known, paid, faults>>

(* feed(spec_ready) saves the record again. *)
FeedSpecReady ==
  /\ run.pc = "feed"
  /\ SaveLoop(run.cur, loops[run.cur], "next")
  /\ UNCHANGED <<time, known, paid, faults>>

(* The same visit goes on to the implementer, in what is left of the tick. *)
GoOn ==
  /\ run.pc = "next"
  /\ \/ Execute(run.cur, "implementer")
     \/ Leave
  /\ UNCHANGED <<time, memory, disk, paid, faults>>
-----------------------------------------------------------------------------
(* stack.Run, gate by gate, under the context of the thread. *)
Sooner(s, t) == IF s <= t THEN s ELSE t

(* Mutant of GateStarts: a gate has its own timeout, and no other.         *)
GateStartsUnbound ==
  /\ run.pc = "gates"
  /\ Len(run.results) < Len(Gates)
  /\ run' = [run EXCEPT !.pc = "gate", !.gateUntil = time + GateTimeout]
  /\ UNCHANGED <<time, memory, disk, paid, faults>>

(* Mutant of GateStarts: one gate too many.                                *)
GateStartsPastEnd ==
  /\ run.pc = "gates"
  /\ Len(run.results) <= Len(Gates)
  /\ run' = [run EXCEPT !.pc = "gate",
                         !.gateUntil = Sooner(run.until, time + GateTimeout)]
  /\ UNCHANGED <<time, memory, disk, paid, faults>>

GateStarts ==
  /\ run.pc = "gates"
  /\ Len(run.results) < Len(Gates)
  /\ run' = IF time < run.until
            THEN [run EXCEPT !.pc = "gate",
                             !.gateUntil = Sooner(run.until, time + GateTimeout)]
            ELSE [run EXCEPT !.pc = "head", !.exit = "expired"]
  /\ UNCHANGED <<time, memory, disk, paid, faults>>

GateMissing ==
  /\ run.pc = "gates"
  /\ Len(run.results) < Len(Gates)
  /\ run' = [run EXCEPT !.pc = "head", !.exit = "missing"]
  /\ UNCHANGED <<time, memory, disk, paid, faults>>

(* After each gate worktreeHead asks git for the commit, with ten seconds   *)
(* and a drain of its own, then Evidence.Validate refuses the exit code -1 *)
(* of a gate that was killed: no failed gate, but an error of the whole    *)
(* role.                                                                   *)
GateEnds ==
  /\ run.pc = "head"
  /\ IF run.exit = "killed" THEN Fail
     ELSE run' = [run EXCEPT !.pc = "gates", !.exit = "none",
                             !.results = Append(run.results, run.exit)]
  /\ UNCHANGED <<time, memory, disk, paid, faults>>

ExitCode(result) == IF result = "nonzero" THEN 1 ELSE 0

(* Mutant of FailedGates: what counts is the exit code of the evidence.         *)
FailedGatesByEvidence(results) ==
  {n \in DOMAIN results : ExitCode(results[n]) # 0}

(* The gates whose Run answered an error. *)
FailedGates(results) == {n \in DOMAIN results : results[n] # "zero"}

(* The outcome: a reviewer approves by its status, an implementer by its    *)
(* gates.                                                                  *)
Approved ==
  IF run.role = "reviewer" THEN run.status = "completed"
                           ELSE FailedGates(run.results) = {}

(* ... which the loop is fed and its record saved with. *)
RoleEnds ==
  /\ run.pc = "gates"
  /\ Len(run.results) = Len(Gates)
  /\ SaveLoop(run.cur, loops[run.cur], IF Approved THEN "approved" ELSE "refused")
  /\ UNCHANGED <<time, known, paid, faults>>

AfterFeed ==
  /\ run.pc \in {"approved", "refused"}
  /\ Leave
  /\ UNCHANGED <<time, memory, disk, paid, faults>>

(* Time passes where harnessd waits: for its ticker, for a process, which   *)
(* lives up to its deadline and no longer, and for a pipe or git.          *)
Waiting == {"idle", "down", "drain", "head"}
Elapse ==
  /\ \/ run.pc \in Waiting /\ time < MaxTime
     \/ run.pc \in {"thread", "gate"} /\ time < Limit
  /\ time' = time + 1
  /\ UNCHANGED <<memory, disk, run, paid, faults>>

(* What harnessd does of itself; how a process ends and when the last of    *)
(* what it started lets go of the pipe is not for harnessd to say.         *)
Proceed ==
  \/ Open \/ Written \/ PersistKnown \/ EndTick
  \/ Visit \/ Leg \/ ProductEnds \/ FeedSpecReady \/ GoOn
  \/ \E i \in Item : Intake(i)
  \/ \E status \in {"completed", "other"} : ThreadEnds(status)
  \/ ProductCompletes \/ ThreadFails
  \/ GateStarts \/ GateMissing \/ RoleEnds \/ AfterFeed
  \/ TimesOut

Next ==
  \/ Proceed \/ BeginTick \/ Elapse
  \/ WriteFails \/ Crash
  \/ \E exit \in {"zero", "nonzero", "killed"} : Exits(exit)
  \/ Drained \/ GateEnds

(* Serve goes on by itself and time passes; nothing is owed by a process,   *)
(* by a pipe or by git.                                                    *)
Spec == Init /\ [][Next]_vars /\ WF_vars(Proceed) /\ WF_vars(Elapse)
-----------------------------------------------------------------------------
Saving == {"intake", "visit", "leg", "feed", "next", "approved", "refused"}
Then == Saving \cup {"none", "ended", "head"}
InRole == {"thread", "drain", "ended", "gates", "gate", "head"}
Pc == Saving \cup InRole \cup {"down", "idle", "write", "completed"}
Moment == 0 .. MaxTime + ThreadTimeout

RunState ==
  [pc : Pc, now : Moment, first : BOOLEAN, queue : SUBSET Item, cur : Item \cup {NoItem},
   role : {"none", "product", "implementer", "reviewer"},
   until : Moment, gateUntil : Moment, exit : Exit \cup {"none"},
   status : {"none", "completed", "other"},
   results : Seq(GateResult), then : Then]

(* Types; no gate is run twice. *)
TypeOK ==
  /\ time \in Moment
  /\ known \subseteq Item
  /\ loops \in [Item -> 0 .. 3] /\ saved \in [Item -> 0 .. 3]
  /\ file \in [known : SUBSET Item, loops : [Item -> 0 .. 3]]
  /\ torn \subseteq Kept
  /\ run \in RunState /\ Len(run.results) <= Len(Gates)
  /\ faults \in 0 .. MaxFaults

(* A daemon that runs knows all that a saveLoop before it reported as       *)
(* saved: a torn file stops it, it never passes for an empty one.          *)
NothingForgotten ==
  run.pc # "down" => \A i \in Item : saved[i] <= loops[i]

(* However many roles one tick runs after one another, and however long Run *)
(* waits for what a process of theirs has left behind, no process of a     *)
(* role, codex or a gate, is started two thread timeouts after the tick    *)
(* began: the deadline is counted from the tick, the context from the role. *)
StartsInTime ==
  [][run'.pc \in {"thread", "gate"} /\ run'.pc # run.pc
       => time < run.now + 2 * ThreadTimeout]_vars

(* A completed product thread is not run again, but for a fault before its  *)
(* record was saved.                                                       *)
ProductPaidOnce == \A i \in Item : paid[i] <= 1 + faults

(* An implementer passes only if every gate ran and exited with 0.         *)
PassIsEarned ==
  run.pc = "approved" /\ run.role = "implementer" =>
    /\ Len(run.results) = Len(Gates)
    /\ \A n \in DOMAIN run.results : run.results[n] = "zero"

(* Where no pipe and no git is held open for ever, no thread and no gate    *)
(* holds up the daemon for ever: the deadlines end what hangs.             *)
PipesClose == []<>(run.pc \notin {"drain", "head"})
RolesEnd == PipesClose => (run.pc \in InRole ~> run.pc \notin InRole)
=============================================================================
