---------------------------- MODULE DaemonProofs -----------------------------
(***************************************************************************)
(* What holds of harnessd for every set of items and projects, every       *)
(* configuration of the loop, and any number of commands and faults.  The  *)
(* invariant says of each place Tick may be at which stage the loop of its *)
(* item is in and what has been done for it; operators move Work Items but *)
(* no loops, so this lasts through whatever they do in between.            *)
(***************************************************************************)
EXTENDS Daemon, TLAPS

USE ItemAssumption, ProjectAssumption, ConfigAssumption,
    FailuresAssumption, DaemonBoundsAssumption
-----------------------------------------------------------------------------
(* The states of an item that was in review once. *)
Late == State \ {"inbox", "triage", "ready", "specifying"}

(* A loop that requires a role which comes after the Spec. *)
BuildsOrReviews == RequiredRoles \cap {"implementer", "reviewer"} # {}

(* The work of an item is in its worktree still, unless another item of the *)
(* project is done: that one took the worktree with it.                    *)
Kept(i) ==
  \/ i \in built
  \/ \E j \in Item \ {i} : ProjectOf[j] = ProjectOf[i] /\ loops[j].stage = "done"

ItemOK(i) ==
  /\ item[i].state = "reviewing" => i \in past.reviewed
  /\ i \in past.reviewed => /\ item[i].state \in Late
                            /\ item[i].state = "blocked" => item[i].resume \in Late

LoopOK(i) ==
  /\ loops[i].stage # "blocked" => loops[i].streak <= 1
  /\ loops[i].stage # "none" => i \in knownFile
  /\ BuildsOrReviews /\ loops[i].stage \in {"reviewing", "done"} => i \in past.reviewed
  /\ loops[i].stage = "reviewing" => Kept(i)

DataType ==
  /\ item \in [Item -> WorkItem]
  /\ known \subseteq Item /\ knownFile \subseteq Item
  /\ loops \in [Item -> LoopState]
  /\ product \subseteq Item
  /\ trees \subseteq Project
  /\ built \subseteq Item
  /\ past \in [reviewed : SUBSET Item, mirrored : SUBSET Item]
  /\ ops \in 0 .. MaxOps /\ faults \in 0 .. MaxFaults

DataOK ==
  /\ DataType
  /\ knownFile \subseteq known
  /\ \A i \in Item : ItemOK(i) /\ LoopOK(i)

(* What Tick is doing. *)
Ordering(cmds) == tick.pc \in {"decide", "apply", "reload"} /\ tick.cmd \in cmds
Runs(role) == tick.pc \in {"prepare", "running"} /\ tick.role = role

(* Where it looks at no loop yet. *)
Outside == tick.pc \in {"down", "idle", "intake"} \/ Ordering({"submit_work"})
Before == Outside \/ tick.pc = "visit" \/ Ordering({"begin_triage"})

CommandOK ==
  /\ tick.pc \in {"decide", "apply", "reload"} =>
       /\ tick.cur \in Item
       /\ tick.cmd \in {"submit_work", "begin_triage", "begin_implementation",
                        "submit_review", "block"}
  /\ tick.pc = "decide" => tick.cmd # "submit_work"
  /\ tick.pc = "reload" => tick.cmd \in {"begin_implementation", "submit_review"}

SnapshotOK ==
  /\ tick.pc \in {"down", "idle", "intake", "visit"} => tick.seen = NoState
  /\ tick.seen = "reviewing" => tick.cur \in past.reviewed

(* What a tick is still to visit, or visits, the next process will know. *)
QueueOK ==
  /\ ~Outside => tick.queue \subseteq knownFile
  /\ ~Before => /\ tick.cur \in knownFile
                /\ ProjectOf[tick.cur] \in Project
                /\ loops[tick.cur].stage # "none"

StageOK ==
  /\ tick.pc = "spec" \/ Runs("product") => loops[tick.cur].stage = "specifying"
  /\ (\/ tick.pc \in {"implement", "passed"} \/ Runs("implementer")
      \/ Ordering({"begin_implementation", "submit_review"}))
       => loops[tick.cur].stage = "implementing"
  /\ tick.pc = "review" \/ Runs("reviewer") => loops[tick.cur].stage = "reviewing"
  /\ tick.pc = "mirror" \/ Ordering({"block"}) => loops[tick.cur].stage = "blocked"
  /\ tick.pc = "close" => loops[tick.cur].stage = "done"

RoleOK ==
  tick.pc \in {"prepare", "running"} =>
    /\ tick.role # NoRole
    /\ tick.role = "implementer" => tick.seen \in {"implementing", "reviewing"}

(* On the way from the gates to the feed of gates_passed. *)
PassedOK ==
  /\ tick.pc = "passed" \/ Ordering({"submit_review"}) => tick.cur \in built
  /\ tick.pc = "passed" \/ (tick.pc = "reload" /\ tick.cmd = "submit_review")
       => tick.cur \in past.reviewed

TickOK ==
  /\ tick \in TickState
  /\ CommandOK /\ SnapshotOK /\ QueueOK /\ StageOK /\ RoleOK /\ PassedOK

DaemonInv == DataOK /\ TickOK
-----------------------------------------------------------------------------
(* The shapes a step may leave tick in.                                    *)
Fields(t, pc, first, queue, c, seen, cmd, expected, role) ==
  /\ t \in TickState
  /\ t.pc = pc /\ t.first = first /\ t.queue = queue /\ t.cur = c
  /\ t.seen = seen /\ t.cmd = cmd /\ t.expected = expected /\ t.role = role

Pc == {"down", "idle", "intake", "visit", "enter", "decide", "apply", "reload",
       "spec", "prepare", "running", "implement", "passed", "review", "mirror", "close"}

LEMMA AtFields ==
  ASSUME NEW pc \in Pc, NEW first \in BOOLEAN
  PROVE  Fields(At(pc, first), pc, first, {}, NoItem, NoState, "none", 0, NoRole)
BY DEF At, Fields, TickState, Pc

Waiting(t, q) == [t EXCEPT !.queue = q]

LEMMA WaitingFields ==
  ASSUME NEW t \in TickState, NEW q \in SUBSET Item
  PROVE  Fields(Waiting(t, q), t.pc, t.first, q, t.cur, t.seen, t.cmd, t.expected, t.role)
BY DEF Waiting, Fields, TickState

Gone(t, pc) == [t EXCEPT !.pc = pc]

LEMMA GoneFields ==
  ASSUME NEW t \in TickState, NEW pc \in Pc
  PROVE  Fields(Gone(t, pc), pc, t.first, t.queue, t.cur, t.seen, t.cmd, t.expected, t.role)
BY ZenonT(60) DEF Gone, Fields, TickState, Pc

GoneWith(t, pc, q) == [t EXCEPT !.pc = pc, !.queue = q]

LEMMA GoneWithFields ==
  ASSUME NEW t \in TickState, NEW pc \in Pc, NEW q \in SUBSET Item
  PROVE  Fields(GoneWith(t, pc, q), pc, t.first, q, t.cur, t.seen, t.cmd, t.expected, t.role)
BY ZenonT(60) DEF GoneWith, Fields, TickState, Pc

Taken(t, pc, q, i, cmd) == [t EXCEPT !.pc = pc, !.queue = q, !.cur = i, !.cmd = cmd]

LEMMA TakenFields ==
  ASSUME NEW t \in TickState, NEW pc \in Pc, NEW q \in SUBSET Item, NEW i \in Item,
         NEW cmd \in CommandType \cup {"none"}
  PROVE  Fields(Taken(t, pc, q, i, cmd), pc, t.first, q, i, t.seen, cmd, t.expected, t.role)
BY ZenonT(60) DEF Taken, Fields, TickState, Pc

Submitting(t, q, i) ==
  [t EXCEPT !.pc = "apply", !.queue = q, !.cur = i, !.cmd = "submit_work", !.expected = 0]

LEMMA SubmittingFields ==
  ASSUME NEW t \in TickState, NEW q \in SUBSET Item, NEW i \in Item
  PROVE  Fields(Submitting(t, q, i), "apply", t.first, q, i, t.seen, "submit_work", 0, t.role)
BY ZenonT(60) DEF Submitting, Fields, TickState, CommandType

Looked(t, seen, pc) == [t EXCEPT !.seen = seen, !.pc = pc]

LEMMA LookedFields ==
  ASSUME NEW t \in TickState, NEW seen \in State \cup {NoState}, NEW pc \in Pc
  PROVE  Fields(Looked(t, seen, pc), pc, t.first, t.queue, t.cur, seen, t.cmd, t.expected,
                t.role)
BY ZenonT(60) DEF Looked, Fields, TickState, Pc

Ordered(t, cmd) == [t EXCEPT !.pc = "decide", !.cmd = cmd]

LEMMA OrderedFields ==
  ASSUME NEW t \in TickState, NEW cmd \in CommandType
  PROVE  Fields(Ordered(t, cmd), "decide", t.first, t.queue, t.cur, t.seen, cmd,
                t.expected, t.role)
BY ZenonT(60) DEF Ordered, Fields, TickState

Decided(t, version) == [t EXCEPT !.pc = "apply", !.expected = version]

LEMMA DecidedFields ==
  ASSUME NEW t \in TickState, NEW version \in Nat
  PROVE  Fields(Decided(t, version), "apply", t.first, t.queue, t.cur, t.seen, t.cmd,
                version, t.role)
BY ZenonT(60) DEF Decided, Fields, TickState

Started(t, role) == [t EXCEPT !.pc = "prepare", !.role = role]

LEMMA StartedFields ==
  ASSUME NEW t \in TickState, NEW role \in Role
  PROVE  Fields(Started(t, role), "prepare", t.first, t.queue, t.cur, t.seen, t.cmd,
                t.expected, role)
BY ZenonT(60) DEF Started, Fields, TickState
-----------------------------------------------------------------------------
(* What the workflow does to an item. *)
LEMMA HandleEvent ==
  ASSUME NEW it \in WorkItem, NEW i, NEW type \in CommandType, NEW actor, NEW expected,
         NEW e \in Handle(it, Command(i, type, actor, expected))
  PROVE  /\ e.to \in State /\ e.to \in Targets(it, type)
         /\ e.version = it.version + 1 /\ e.from = it.state
         /\ e.kind = IF type = "submit_work" THEN "work_submitted" ELSE "state_changed"
         /\ it = EmptyItem => type = "submit_work"
<1> DEFINE c == Command(i, type, actor, expected)
<1>1. c.type = type
  BY DEF Command
<1>2. Validated(it, c)
  BY DEF Handle
<1>3. PICK to \in Targets(it, type) :
        e = [kind |-> IF type = "submit_work" THEN "work_submitted" ELSE "state_changed",
             version |-> it.version + 1, command |-> c.id, actor |-> c.actor,
             from |-> it.state, to |-> to]
  BY <1>1, <1>2 DEF Handle
<1>4. it = EmptyItem => type = "submit_work"
  BY <1>1, <1>2 DEF Validated
<1> HIDE DEF c
<1>5. QED
  BY <1>3, <1>4 DEF Targets

LEMMA FromEmpty ==
  ASSUME NEW it \in WorkItem, NEW type \in CommandType, NEW to \in Targets(it, type)
  PROVE  /\ it = EmptyItem => to = "inbox"
         /\ type = "submit_work" => it = EmptyItem
         /\ it.state = "blocked" => to # "blocked" /\ to = it.resume
BY DEF Targets, Transitions, EmptyItem, NoState, Terminal

LEMMA ToReview ==
  ASSUME NEW it, NEW to \in Targets(it, "submit_review")
  PROVE  to = "reviewing"
BY DEF Targets, Transitions

(* An item that was in review stays past the Spec. *)
LEMMA LateStays ==
  ASSUME NEW it \in WorkItem, NEW type \in CommandType, NEW to \in Targets(it, type),
         it.state \in Late, it.state = "blocked" => it.resume \in Late
  PROVE  to \in Late
<1>1. it # EmptyItem
  BY DEF EmptyItem, Late, State, NoState
<1>2. CASE <<it.state, type, to>> \in Transitions
  BY <1>2 DEF Transitions, Late, State
<1>3. CASE it.state = "blocked" /\ to = it.resume
  BY <1>3
<1>4. QED
  BY <1>1, <1>2, <1>3 DEF Targets

(* Fold takes what Handle answers. *)
LEMMA ReplayHandled ==
  ASSUME NEW it \in WorkItem, NEW i, NEW type \in CommandType, NEW actor, NEW expected,
         NEW e \in Handle(it, Command(i, type, actor, expected))
  PROVE  /\ Replay(it, e) \in WorkItem
         /\ Replay(it, e).state = e.to
         /\ e.to = "blocked" => Replay(it, e).resume = it.state
<1>1. /\ e.to \in State /\ e.to \in Targets(it, type)
      /\ e.version = it.version + 1 /\ e.from = it.state
      /\ e.kind = IF type = "submit_work" THEN "work_submitted" ELSE "state_changed"
      /\ it = EmptyItem => type = "submit_work"
  BY HandleEvent
<1>2. /\ it = EmptyItem => e.to = "inbox"
      /\ type = "submit_work" => it = EmptyItem
      /\ it.state = "blocked" => e.to # "blocked" /\ e.to = it.resume
  BY <1>1, FromEmpty
<1>3. it # Corrupt
  BY DEF Corrupt, WorkItem, State, NoState
<1>4. /\ it.state \in State \cup {NoState} /\ it.resume \in State \cup {NoState}
      /\ it.version + 1 \in Nat
  BY DEF WorkItem
<1>5. PICK r : r = IF it.state # "blocked" /\ e.to = "blocked" THEN it.state
                   ELSE IF it.state = "blocked" /\ e.to # "blocked" THEN NoState
                   ELSE it.resume
  OBVIOUS
<1>6. Replay(it, e) = [state |-> e.to, resume |-> r, version |-> it.version + 1]
  BY <1>1, <1>2, <1>3, <1>5 DEF Replay
<1>7. r \in State \cup {NoState} /\ (e.to = "blocked" => r = it.state)
  BY <1>2, <1>4, <1>5
<1>8. QED
  BY <1>1, <1>4, <1>6, <1>7 DEF WorkItem

(* The journal takes an event: items that were in review stay so. *)
LEMMA RecordOK ==
  ASSUME DataOK, NEW i \in Item, NEW type \in CommandType, NEW actor, NEW expected,
         NEW e \in Handle(item[i], Command(i, type, actor, expected)),
         Record(i, e)
  PROVE  /\ item' \in [Item -> WorkItem]
         /\ past' \in [reviewed : SUBSET Item, mirrored : SUBSET Item]
         /\ past.reviewed \subseteq past'.reviewed
         /\ type = "submit_review" => i \in past'.reviewed
         /\ \A j \in Item : ItemOK(j)'
<1>1. /\ item \in [Item -> WorkItem] /\ item[i] \in WorkItem
      /\ past \in [reviewed : SUBSET Item, mirrored : SUBSET Item]
  BY DEF DataOK, DataType
<1>2. /\ Replay(item[i], e) \in WorkItem /\ Replay(item[i], e).state = e.to
      /\ e.to = "blocked" => Replay(item[i], e).resume = item[i].state
      /\ e.to \in Targets(item[i], type)
  BY <1>1, ReplayHandled, HandleEvent
<1>3. PICK new : new = Replay(item[i], e)
  OBVIOUS
<1>4. item' = [item EXCEPT ![i] = new]
  BY <1>3 DEF Record
<1>5. PICK R : R = past.reviewed \cup (IF e.to = "reviewing" THEN {i} ELSE {})
  OBVIOUS
<1>6. past'.reviewed = R /\ past' \in [reviewed : SUBSET Item, mirrored : SUBSET Item]
  <2>1. PICK M : M = past.mirrored \cup
           (IF e.to = "blocked" /\ e.actor = "automation" THEN {i} ELSE {})
    OBVIOUS
  <2>2. past' = [reviewed |-> R, mirrored |-> M]
    BY <1>5, <2>1 DEF Record
  <2>3. R \subseteq Item /\ M \subseteq Item
    BY <1>1, <1>5, <2>1
  <2>4. QED
    BY <2>2, <2>3
<1>7. item' \in [Item -> WorkItem]
  BY <1>1, <1>2, <1>3, <1>4
<1>8. type = "submit_review" => e.to = "reviewing"
  BY <1>2, ToReview
<1>9. ASSUME NEW j \in Item
      PROVE  ItemOK(j)'
  <2>1. ItemOK(j)
    BY DEF DataOK
  <2>2. CASE j # i
    <3>1. item'[j] = item[j] /\ (j \in past'.reviewed <=> j \in past.reviewed)
      BY <1>1, <1>4, <1>5, <1>6, <2>2
    <3>2. QED
      BY <2>1, <3>1 DEF ItemOK
  <2>3. CASE j = i
    <3>1. /\ item'[i] = new /\ new.state = e.to
          /\ e.to = "blocked" => new.resume = item[i].state
      BY <1>1, <1>2, <1>3, <1>4
    <3>2. e.to = "reviewing" => i \in past'.reviewed
      BY <1>5, <1>6
    <3>3. ASSUME i \in past.reviewed
          PROVE  e.to \in Late /\ item[i].state \in Late
      BY <1>1, <1>2, <2>1, <2>3, <3>3, LateStays DEF ItemOK
    <3>4. i \in past'.reviewed => i \in past.reviewed \/ e.to = "reviewing"
      BY <1>5, <1>6
    <3>5. "reviewing" \in Late
      BY DEF Late, State
    <3>6. i \in past'.reviewed =>
            e.to \in Late /\ (e.to = "blocked" => item[i].state \in Late)
      BY <3>3, <3>4, <3>5
    <3>7. QED
      BY <2>3, <3>1, <3>2, <3>6 DEF ItemOK
  <2>4. QED
    BY <2>2, <2>3
<1>10. QED
  BY <1>5, <1>6, <1>7, <1>8, <1>9
-----------------------------------------------------------------------------
(* What the role loop makes of an event at no cost. *)
Step(from, kind, to) ==
  \/ to = "blocked"
  \/ from = "specifying" /\ kind = "spec_ready" /\ to \in {"implementing", "done"}
     /\ (BuildsOrReviews => to = "implementing")
  \/ from = "implementing" /\ kind = "gates_passed" /\ to \in {"reviewing", "done"}
  \/ from = "implementing" /\ kind = "gates_failed" /\ to = "implementing"
  \/ from = "reviewing" /\ kind = "reviewed" /\ to \in {"done", "implementing"}

Sound(s) == s \in LoopState /\ (s.stage # "blocked" => s.streak <= 1)

Restage(s, stage) == [s EXCEPT !.stage = stage]

LEMMA Restaged ==
  ASSUME NEW s, Sound(s), NEW stage \in Stage, s.stage # "blocked"
  PROVE  Sound(Restage(s, stage)) /\ Restage(s, stage).stage = stage
BY DEF Sound, LoopState, Restage

LEMMA Blocked ==
  ASSUME NEW s \in LoopState, NEW reason \in BlockReason,
         NEW r \in Block(s, reason)
  PROVE  Sound(r.after) /\ r.after.stage = "blocked"
<1>1. PICK t : t = [s EXCEPT !.stage = "blocked", !.reason = reason]
  OBVIOUS
<1>2. r.after = t
  BY <1>1 DEF Block
<1>3. t \in LoopState /\ t.stage = "blocked"
  BY <1>1 DEF LoopState, Stage
<1>4. QED
  BY <1>2, <1>3 DEF Sound

LEMMA FailureTaken ==
  ASSUME NEW s, Sound(s), s.stage # "blocked", NEW sig \in Signature,
         NEW r \in RecordFailure(s, sig)
  PROVE  Sound(r.after) /\ r.after.stage \in {"implementing", "blocked"}
<1>1. /\ s \in LoopState /\ s.fixes \in 0 .. 3 /\ s.streak \in 0 .. 2
      /\ s.streak <= 1
  BY DEF Sound, LoopState, MaxFixes
<1>2. CASE s.fixes >= MaxFixes
  <2>1. r \in Block(s, "fix_budget_exhausted")
    BY <1>2 DEF RecordFailure
  <2>2. QED
    BY <1>1, <2>1, Blocked DEF BlockReason
<1>3. CASE ~(s.fixes >= MaxFixes)
  <2>1. PICK n : n = IF sig # NoSignature /\ sig = s.last THEN s.streak + 1 ELSE 1
    OBVIOUS
  <2>2. PICK t : t = [s EXCEPT !.fixes = s.fixes + 1, !.streak = n, !.last = sig]
    OBVIOUS
  <2>3. r \in IF n >= 2 THEN Block(t, "repeated_failure")
                        ELSE To(t, "implementing", "implementer")
    <3>1. t.streak = n
      BY <1>1, <2>2 DEF LoopState
    <3>2. r \in IF t.streak >= 2 THEN Block(t, "repeated_failure")
                                 ELSE To(t, "implementing", "implementer")
      BY <1>3, <2>1, <2>2 DEF RecordFailure
    <3>3. QED
      BY <3>1, <3>2
  <2>4. n \in 0 .. 2 /\ s.fixes + 1 \in 0 .. 3
    BY <1>1, <1>3, <2>1 DEF MaxFixes
  <2>5. t \in LoopState /\ t.streak = n /\ t.stage = s.stage
    BY <1>1, <2>2, <2>4 DEF LoopState, MaxFixes
  <2>6. CASE n >= 2
    BY <2>3, <2>5, <2>6, Blocked DEF BlockReason
  <2>7. CASE ~(n >= 2)
    <3>1. Sound(t)
      BY <2>4, <2>5, <2>7 DEF Sound
    <3>2. r.after = Restage(t, "implementing")
      BY <2>3, <2>7 DEF To, Restage
    <3>3. QED
      BY <2>5, <3>1, <3>2, Restaged DEF Stage
  <2>8. QED
    BY <2>6, <2>7
<1>4. QED
  BY <1>2, <1>3

(* The events Tick feeds. *)
Fed == {SpecReady, GatesPassed}
         \cup {GatesFailed(sig) : sig \in Failures}
         \cup {Reviewed("approve", NoSignature)}
         \cup {Reviewed("changes", sig) : sig \in Failures}

LEMMA FedEvents ==
  ASSUME NEW e \in Fed
  PROVE  /\ e.signature \in Signature
         /\ e.verdict \in {"none", "approve", "changes"}
BY DEF Fed, SpecReady, GatesPassed, GatesFailed, Reviewed, Signature

LEMMA Completed ==
  ASSUME NEW s, Sound(s), s.stage # "blocked", NEW role \in {NoRole, "implementer"},
         NEW stage \in {"implementing", "reviewing"}, NEW r \in Complete(s, role, stage)
  PROVE  /\ Sound(r.after) /\ r.after.stage \in {stage, "done"}
         /\ role = NoRole /\ BuildsOrReviews => r.after.stage = stage
<1>1. s.roles = RequiredRoles
  BY DEF Sound, LoopState
<1>2. r.after = Restage(s, stage) \/ r.after = Restage(s, "done")
  BY DEF Complete, To, Restage
<1>3. Sound(r.after) /\ r.after.stage \in {stage, "done"}
  <2>1. stage \in Stage /\ "done" \in Stage
    BY DEF Stage
  <2>2. QED
    BY <1>2, <2>1, Restaged
<1>4. ASSUME role = NoRole, BuildsOrReviews
      PROVE  r.after.stage = stage
  <2>1. "implementer" \in RequiredRoles \/ "reviewer" \in RequiredRoles
    BY <1>4 DEF BuildsOrReviews
  <2>2. NextPipelineRole(s.roles, role) # NoRole
    BY <1>1, <1>4, <2>1 DEF NextPipelineRole, NoRole
  <2>3. r.after = Restage(s, stage)
    BY <2>2 DEF Complete, To, Restage
  <2>4. QED
    BY <2>3, Restaged DEF Stage
<1>5. QED
  BY <1>3, <1>4

LEMMA Advanced ==
  ASSUME NEW s, Sound(s), NEW e \in Fed, NEW r \in Advance(s, e, 0)
  PROVE  /\ Sound(r.after) /\ Step(s.stage, e.kind, r.after.stage)
         /\ s.stage # "done"
<1>1. /\ s \in LoopState /\ s.spent = 0 /\ s.budget = Budget /\ Budget \in Nat \ {0}
  BY DEF Sound, LoopState
<1>2. s.stage \notin Over /\ s.stage # "blocked" /\ s.stage # "done"
  BY DEF Advance, Over
<1>3. ~(s.spent + 0 > s.budget)
  BY <1>1
<1>4. CASE s.left = 0
  <2>1. r \in Block(s, "deadline_exceeded")
    BY <1>2, <1>3, <1>4 DEF Advance
  <2>2. QED
    BY <1>1, <1>2, <2>1, Blocked DEF BlockReason, Step
<1>5. CASE s.left # 0
  <2>1. PICK t : t = [s EXCEPT !.spent = s.spent + 0]
    OBVIOUS
  <2>2. r \in React(t, e)
    BY <1>2, <1>3, <1>5, <2>1 DEF Advance
  <2>3. t \in LoopState /\ t.stage = s.stage /\ t.streak = s.streak
    BY <1>1, <2>1 DEF LoopState
  <2>4. Sound(t) /\ t.stage # "blocked"
    BY <1>2, <2>3 DEF Sound
  <2>5. e.signature \in Signature /\ e.verdict \in {"none", "approve", "changes"}
    BY FedEvents
  <2>6. CASE t.stage = "specifying" /\ e.kind = "spec_ready"
    <3>1. r \in Complete(t, NoRole, "implementing")
      BY <2>2, <2>6 DEF React
    <3>2. QED
      BY <2>3, <2>4, <2>6, <3>1, Completed DEF Step
  <2>7. CASE t.stage = "implementing" /\ e.kind = "gates_passed"
    <3>1. r \in Complete(t, "implementer", "reviewing")
      BY <2>2, <2>7 DEF React
    <3>2. QED
      BY <2>3, <2>4, <2>7, <3>1, Completed DEF Step
  <2>8. CASE t.stage = "implementing" /\ e.kind = "gates_failed"
    <3>1. r \in RecordFailure(t, e.signature)
      BY <2>2, <2>8 DEF React
    <3>2. QED
      BY <2>3, <2>4, <2>5, <2>8, <3>1, FailureTaken DEF Step
  <2>9. CASE t.stage = "reviewing" /\ e.kind = "reviewed"
    <3>1. r \in Review(t, e)
      BY <2>2, <2>9 DEF React
    <3>2. CASE e.verdict = "approve"
      <4>1. r.after = Restage(t, "done")
        BY <3>1, <3>2 DEF Review, To, Restage
      <4>2. QED
        BY <2>3, <2>4, <2>9, <4>1, Restaged DEF Step, Stage
    <3>3. CASE e.verdict = "changes"
      <4>1. r \in RecordFailure(t, e.signature)
        BY <3>1, <3>3 DEF Review
      <4>2. QED
        BY <2>3, <2>4, <2>5, <2>9, <4>1, FailureTaken DEF Step
    <3>4. CASE e.verdict = "none"
      BY <3>1, <3>4 DEF Review
    <3>5. QED
      BY <2>5, <3>2, <3>3, <3>4
  <2>10. QED
    BY <2>2, <2>6, <2>7, <2>8, <2>9 DEF React
<1>6. QED
  BY <1>2, <1>4, <1>5
-----------------------------------------------------------------------------
(* What a step leaves as it was. *)
LEMMA SameData ==
  ASSUME DataOK, UNCHANGED <<journal, memory, disk>>,
         ops' \in 0 .. MaxOps, faults' \in 0 .. MaxFaults
  PROVE  DataOK'
<1>1. /\ item' = item /\ past' = past /\ known' = known /\ knownFile' = knownFile
      /\ loops' = loops /\ product' = product /\ trees' = trees /\ built' = built
  BY DEF journal, memory, disk
<1>2. DataType'
  BY <1>1 DEF DataOK, DataType
<1>3. \A i \in Item : ItemOK(i)' /\ LoopOK(i)'
  BY <1>1 DEF DataOK, ItemOK, LoopOK, Kept
<1>4. QED
  BY <1>1, <1>2, <1>3 DEF DataOK

LEMMA SameCounts ==
  ASSUME DataOK, UNCHANGED counts
  PROVE  ops' \in 0 .. MaxOps /\ faults' \in 0 .. MaxFaults
BY DEF DataOK, DataType, counts

LEMMA FaultCounts ==
  ASSUME DataOK, Fault
  PROVE  ops' \in 0 .. MaxOps /\ faults' \in 0 .. MaxFaults
<1>1. faults \in Nat /\ faults < MaxFaults /\ faults' = faults + 1 /\ ops' = ops
  BY DEF DataOK, DataType, Fault
<1>2. QED
  BY <1>1 DEF DataOK, DataType

(* Where a tick ends, nothing is known of it. *)
LEMMA Halted ==
  ASSUME NEW pc \in {"down", "idle"}, NEW first \in BOOLEAN, tick' = At(pc, first)
  PROVE  TickOK'
<1>1. Fields(tick', pc, first, {}, NoItem, NoState, "none", 0, NoRole)
  BY AtFields DEF Pc
<1>2. CommandOK' /\ SnapshotOK' /\ QueueOK' /\ StageOK'
  BY <1>1 DEF Fields, CommandOK, SnapshotOK, QueueOK, StageOK, Outside, Before,
              Ordering, Runs, NoState
<1>3. RoleOK' /\ PassedOK'
  BY <1>1 DEF Fields, RoleOK, PassedOK, Ordering
<1>4. QED
  BY <1>1, <1>2, <1>3 DEF TickOK, Fields

LEMMA FailHalts == ASSUME Fail PROVE TickOK'
BY Halted DEF Fail

LEMMA LeftFor ==
  ASSUME tick \in TickState, Leave, tick.queue \subseteq knownFile'
  PROVE  TickOK'
<1>1. tick.first \in BOOLEAN /\ tick.queue \in SUBSET Item
  BY DEF TickState
<1>2. PICK t : t = At("visit", tick.first)
  OBVIOUS
<1>3. Fields(t, "visit", tick.first, {}, NoItem, NoState, "none", 0, NoRole)
  BY <1>1, <1>2, AtFields DEF Pc
<1>4. tick' = Waiting(t, tick.queue) /\ t \in TickState
  BY <1>2, <1>3 DEF Leave, Waiting, Fields
<1>5. Fields(tick', "visit", tick.first, tick.queue, NoItem, NoState, "none", 0, NoRole)
  BY <1>1, <1>3, <1>4, WaitingFields DEF Fields
<1>6. CommandOK' /\ SnapshotOK' /\ QueueOK' /\ StageOK'
  BY <1>5 DEF Fields, CommandOK, SnapshotOK, QueueOK, StageOK, Outside, Before,
              Ordering, Runs, NoState
<1>7. RoleOK' /\ PassedOK'
  BY <1>5 DEF Fields, RoleOK, PassedOK, Ordering
<1>8. QED
  BY <1>5, <1>6, <1>7 DEF TickOK, Fields

(* Tick waits while others act: what it relies on only grows. *)
LEMMA TickWaits ==
  ASSUME TickOK, tick' = tick, knownFile' = knownFile, loops' = loops,
         built' = built, past.reviewed \subseteq past'.reviewed
  PROVE  TickOK'
<1>1. CommandOK' /\ QueueOK' /\ StageOK' /\ RoleOK'
  BY DEF TickOK, CommandOK, QueueOK, StageOK, RoleOK, Outside, Before, Ordering, Runs
<1>2. SnapshotOK' /\ PassedOK'
  BY DEF TickOK, SnapshotOK, PassedOK, Ordering
<1>3. QED
  BY <1>1, <1>2 DEF TickOK

(* Where a loop is looked at, whose it is and in which project. *)
LEMMA InLoop ==
  ASSUME DaemonInv,
         \/ tick.pc \in {"enter", "spec", "prepare", "running", "implement", "passed",
                         "review", "mirror", "close"}
         \/ Ordering({"begin_implementation", "submit_review", "block"})
  PROVE  /\ tick \in TickState /\ cur \in Item /\ cur \in knownFile
         /\ tick.queue \subseteq knownFile /\ tick.queue \in SUBSET Item
         /\ ProjectOf[cur] \in Project
         /\ loops[cur] \in LoopState /\ Sound(loops[cur])
         /\ item[cur] \in WorkItem /\ item[cur].state \in State \cup {NoState}
<1>1. ~Before /\ ~Outside
  BY DEF Before, Outside, Ordering
<1>2. tick.queue \subseteq knownFile /\ cur \in knownFile /\ ProjectOf[cur] \in Project
  BY <1>1 DEF DaemonInv, TickOK, QueueOK, cur
<1>3. cur \in Item
  BY <1>2 DEF DaemonInv, DataOK, DataType
<1>4. loops[cur] \in LoopState /\ item[cur] \in WorkItem
  BY <1>3 DEF DaemonInv, DataOK, DataType
<1>5. Sound(loops[cur])
  BY <1>3, <1>4 DEF DaemonInv, DataOK, LoopOK, Sound
<1>6. QED
  BY <1>2, <1>3, <1>4, <1>5 DEF DaemonInv, TickOK, TickState, WorkItem
-----------------------------------------------------------------------------
(* One loop moves, or the worktrees do. *)
LEMMA LoopMoves ==
  ASSUME DataOK, NEW i \in Item, NEW s, Sound(s), loops' = [loops EXCEPT ![i] = s],
         item' = item, past' = past, known' = known, knownFile' = knownFile,
         product' = product, trees' \subseteq Project, built' \subseteq Item,
         ops' \in 0 .. MaxOps, faults' \in 0 .. MaxFaults,
         i \in knownFile, loops[i].stage # "done",
         BuildsOrReviews /\ s.stage \in {"reviewing", "done"} => i \in past.reviewed,
         s.stage = "reviewing" => i \in built',
         \A j \in Item \ {i} : j \in built => j \in built'
  PROVE  DataOK'
<1>1. loops' \in [Item -> LoopState] /\ loops'[i] = s
      /\ \A j \in Item \ {i} : loops'[j] = loops[j]
  BY DEF DataOK, DataType, Sound
<1>2. DataType'
  BY <1>1 DEF DataOK, DataType
<1>3. LoopOK(i)'
  BY <1>1 DEF LoopOK, Kept, Sound
<1>4. ASSUME NEW j \in Item
      PROVE  ItemOK(j)' /\ LoopOK(j)'
  <2>1. ItemOK(j) /\ LoopOK(j)
    BY DEF DataOK
  <2>2. ItemOK(j)'
    BY <2>1 DEF ItemOK
  <2>3. CASE j # i
    <3>1. loops'[j] = loops[j] /\ (j \in built => j \in built')
      BY <1>1, <2>3
    <3>2. ASSUME loops[j].stage = "reviewing", NEW k \in Item \ {j},
                 ProjectOf[k] = ProjectOf[j], loops[k].stage = "done"
          PROVE  Kept(j)'
      <4>1. k # i
        BY <3>2
      <4>2. loops'[k].stage = "done"
        BY <1>1, <3>2, <4>1
      <4>3. QED
        BY <3>2, <4>2 DEF Kept
    <3>3. loops[j].stage = "reviewing" => Kept(j)'
      BY <2>1, <3>1, <3>2 DEF LoopOK, Kept
    <3>4. LoopOK(j)'
      BY <2>1, <3>1, <3>3 DEF LoopOK
    <3>5. QED
      BY <2>2, <3>4
  <2>4. QED
    BY <1>3, <2>2, <2>3
<1>5. QED
  BY <1>2, <1>4 DEF DataOK

LEMMA TreesMove ==
  ASSUME DataOK, UNCHANGED <<journal, memory>>,
         ops' \in 0 .. MaxOps, faults' \in 0 .. MaxFaults,
         trees' \subseteq Project, built' \subseteq Item,
         \A j \in built \ built' : loops[j].stage = "reviewing" => Kept(j)'
  PROVE  DataOK'
<1>1. /\ item' = item /\ past' = past /\ known' = known /\ knownFile' = knownFile
      /\ loops' = loops /\ product' = product
  BY DEF journal, memory
<1>2. DataType'
  BY <1>1 DEF DataOK, DataType
<1>3. ASSUME NEW i \in Item
      PROVE  ItemOK(i)' /\ LoopOK(i)'
  <2>1. ItemOK(i) /\ LoopOK(i)
    BY DEF DataOK
  <2>2. loops[i].stage = "reviewing" => Kept(i)'
    BY <1>1, <2>1 DEF LoopOK, Kept
  <2>3. QED
    BY <1>1, <2>1, <2>2 DEF ItemOK, LoopOK
<1>4. QED
  BY <1>1, <1>2, <1>3 DEF DataOK

LEMMA FeedGives ==
  ASSUME DaemonInv, cur \in Item, Sound(loops[cur]), NEW e \in Fed, Feed(e)
  PROVE  \E s : /\ Sound(s) /\ loops' = [loops EXCEPT ![cur] = s]
                /\ loops'[cur] = s
                /\ Step(loops[cur].stage, e.kind, s.stage)
                /\ loops[cur].stage # "done"
<1>1. PICK r \in Advance(loops[cur], e, 0) : loops' = [loops EXCEPT ![cur] = r.after]
  BY DEF Feed
<1>2. /\ Sound(r.after) /\ Step(loops[cur].stage, e.kind, r.after.stage)
      /\ loops[cur].stage # "done"
  BY <1>1, Advanced
<1>3. loops'[cur] = r.after
  BY <1>1 DEF DaemonInv, DataOK, DataType
<1>4. QED
  BY <1>1, <1>2, <1>3
-----------------------------------------------------------------------------
(* Where Tick may be, as long as it is in a loop.                          *)
LegStage(pc) ==
  IF pc = "spec" THEN "specifying"
  ELSE IF pc \in {"implement", "passed"} THEN "implementing"
  ELSE IF pc = "review" THEN "reviewing"
  ELSE IF pc = "mirror" THEN "blocked" ELSE "done"

LegPc == {"spec", "implement", "passed", "review", "mirror", "close"}

(* What every step in a loop needs. *)
Held == /\ tick \in TickState /\ cur \in knownFile' /\ cur \in Item
        /\ tick.queue \subseteq knownFile' /\ ProjectOf[cur] \in Project

LEMMA LookedAt ==
  ASSUME Held, NEW pc \in LegPc, NEW seen \in State \cup {NoState},
         tick' = Looked(tick, seen, pc), loops'[cur].stage = LegStage(pc),
         seen = "reviewing" => cur \in past'.reviewed,
         pc = "passed" => cur \in built' /\ cur \in past'.reviewed
  PROVE  TickOK'
<1>1. Fields(tick', pc, tick.first, tick.queue, tick.cur, seen, tick.cmd, tick.expected,
             tick.role)
  BY LookedFields DEF Held, LegPc, Pc
<1>2. CommandOK' /\ SnapshotOK' /\ RoleOK' /\ PassedOK'
  BY <1>1 DEF Fields, CommandOK, SnapshotOK, RoleOK, PassedOK, Ordering, LegPc, cur
<1>3. StageOK'
  BY <1>1 DEF Fields, StageOK, Ordering, Runs, LegPc, LegStage, cur
<1>4. loops'[cur].stage # "none"
  BY DEF LegPc, LegStage
<1>5. QueueOK'
  BY <1>1, <1>4 DEF Held, Fields, QueueOK, cur
<1>6. QED
  BY <1>1, <1>2, <1>3, <1>5 DEF Fields, TickOK

LEMMA WentTo ==
  ASSUME TickOK, Held, NEW pc \in LegPc,
         tick' = Gone(tick, pc), loops'[cur].stage = LegStage(pc),
         past.reviewed \subseteq past'.reviewed,
         pc = "passed" => cur \in built' /\ cur \in past'.reviewed
  PROVE  TickOK'
<1>1. Fields(tick', pc, tick.first, tick.queue, tick.cur, tick.seen, tick.cmd,
             tick.expected, tick.role)
  BY GoneFields DEF Held, LegPc, Pc
<1>2. CommandOK' /\ RoleOK' /\ PassedOK'
  BY <1>1 DEF Fields, CommandOK, RoleOK, PassedOK, Ordering, LegPc, cur
<1>3. SnapshotOK'
  BY <1>1 DEF TickOK, Fields, SnapshotOK, LegPc
<1>4. StageOK'
  BY <1>1 DEF Fields, StageOK, Ordering, Runs, LegPc, LegStage, cur
<1>5. loops'[cur].stage # "none"
  BY DEF LegPc, LegStage
<1>6. QueueOK'
  BY <1>1, <1>5 DEF Held, Fields, QueueOK, cur
<1>7. QED
  BY <1>1, <1>2, <1>3, <1>4, <1>6 DEF Fields, TickOK

(* applyWorkflow begins. *)
LEMMA OrderedFor ==
  ASSUME TickOK, Held, NEW cmd \in {"begin_implementation", "submit_review", "block"},
         ApplyWorkflow(cmd), past' = past,
         loops'[cur].stage = IF cmd = "block" THEN "blocked" ELSE "implementing",
         cmd = "submit_review" => cur \in built',
         tick.pc \notin {"down", "idle", "intake", "visit"}
  PROVE  TickOK'
<1>1. cmd \in CommandType
  BY DEF CommandType, Transitions
<1>2. tick' = Ordered(tick, cmd)
  BY DEF ApplyWorkflow, Ordered
<1>3. Fields(tick', "decide", tick.first, tick.queue, tick.cur, tick.seen, cmd,
             tick.expected, tick.role)
  BY <1>1, <1>2, OrderedFields DEF Held
<1>4. CommandOK' /\ RoleOK' /\ PassedOK'
  BY <1>3 DEF Held, Fields, CommandOK, RoleOK, PassedOK, Ordering, cur
<1>5. SnapshotOK'
  BY <1>3 DEF TickOK, Fields, SnapshotOK
<1>6. StageOK'
  BY <1>3 DEF Fields, StageOK, Ordering, Runs, cur
<1>7. loops'[cur].stage # "none"
  OBVIOUS
<1>8. QueueOK'
  BY <1>3, <1>7 DEF Held, Fields, QueueOK, cur
<1>9. QED
  BY <1>3, <1>4, <1>5, <1>6, <1>8 DEF Fields, TickOK

(* A role is to start. *)
LEMMA RoleStarted ==
  ASSUME TickOK, Held, NEW role \in Role, StartRole(role), past' = past,
         tick.pc \notin {"down", "idle", "intake", "visit"},
         loops'[cur].stage = IF role = "product" THEN "specifying"
                             ELSE IF role = "implementer" THEN "implementing"
                             ELSE "reviewing",
         role = "implementer" => tick.seen \in {"implementing", "reviewing"}
  PROVE  TickOK'
<1>1. tick' = Started(tick, role)
  BY DEF StartRole, Started
<1>2. Fields(tick', "prepare", tick.first, tick.queue, tick.cur, tick.seen, tick.cmd,
             tick.expected, role)
  BY <1>1, StartedFields DEF Held
<1>3. role \in {"product", "implementer", "reviewer"} /\ role # NoRole
  BY DEF Role, NoRole
<1>4. CommandOK' /\ PassedOK'
  BY <1>2 DEF Fields, CommandOK, PassedOK, Ordering
<1>6. RoleOK'
  BY <1>2, <1>3 DEF Fields, RoleOK
<1>7. SnapshotOK'
  BY <1>2 DEF TickOK, Fields, SnapshotOK
<1>8. StageOK'
  BY <1>2, <1>3 DEF Fields, StageOK, Ordering, Runs, cur
<1>9. loops'[cur].stage # "none"
  OBVIOUS
<1>10. QueueOK'
  BY <1>2, <1>9 DEF Held, Fields, QueueOK, cur
<1>11. QED
  BY <1>2, <1>4, <1>6, <1>7, <1>8, <1>10 DEF Fields, TickOK
-----------------------------------------------------------------------------
(* Each action keeps the invariant: first those of the tick itself.        *)
LEMMA KnownGrows ==
  ASSUME DataOK, UNCHANGED <<journal, loops, product, disk, counts>>,
         known' \subseteq Item, knownFile' \subseteq known', knownFile \subseteq knownFile'
  PROVE  DataOK'
<1>1. /\ item' = item /\ past' = past /\ trees' = trees /\ built' = built
      /\ ops' = ops /\ faults' = faults /\ loops' = loops /\ product' = product
  BY DEF journal, disk, counts
<1>2. DataType'
  BY <1>1 DEF DataOK, DataType
<1>3. \A i \in Item : ItemOK(i)' /\ LoopOK(i)'
  BY <1>1 DEF DataOK, ItemOK, LoopOK, Kept
<1>4. QED
  BY <1>2, <1>3 DEF DataOK

LEMMA BootKeeps == ASSUME DaemonInv, Boot PROVE DaemonInv'
<1>1. DataOK'
  BY KnownGrows DEF DaemonInv, DataOK, DataType, Boot
<1>2. TickOK'
  BY Halted DEF Boot
<1>3. QED
  BY <1>1, <1>2 DEF DaemonInv

LEMMA BeginTickKeeps == ASSUME DaemonInv, BeginTick PROVE DaemonInv'
<1>1. UNCHANGED <<journal, memory, disk, counts>> /\ tick.pc = "idle"
  BY DEF BeginTick
<1>2. DataOK'
  BY <1>1, SameData, SameCounts DEF DaemonInv
<1>3. PICK polled \in SUBSET Item : tick' = GoneWith(tick, "intake", polled)
  BY DEF BeginTick, GoneWith
<1>4. Fields(tick', "intake", tick.first, polled, tick.cur, tick.seen, tick.cmd,
             tick.expected, tick.role)
  BY <1>3, GoneWithFields DEF DaemonInv, TickOK, Pc
<1>5. tick.seen = NoState
  BY <1>1 DEF DaemonInv, TickOK, SnapshotOK
<1>6. TickOK'
  <2>1. CommandOK' /\ SnapshotOK' /\ QueueOK' /\ StageOK'
    BY <1>4, <1>5 DEF Fields, CommandOK, SnapshotOK, QueueOK, StageOK, Outside, Before,
                Ordering, Runs, NoState
  <2>2. RoleOK' /\ PassedOK'
    BY <1>4 DEF Fields, RoleOK, PassedOK, Ordering
  <2>3. QED
    BY <1>4, <2>1, <2>2 DEF TickOK, Fields
<1>7. QED
  BY <1>2, <1>6 DEF DaemonInv

LEMMA PollFailsKeeps == ASSUME DaemonInv, PollFails PROVE DaemonInv'
<1>1. DataOK'
  BY SameData, SameCounts DEF DaemonInv, PollFails
<1>2. QED
  BY <1>1, FailHalts DEF DaemonInv, PollFails

LEMMA IntakeKeeps ==
  ASSUME DaemonInv, NEW i \in Item, Intake(i) PROVE DaemonInv'
<1>1. /\ tick.pc = "intake" /\ i \in tick.queue /\ tick.queue \in SUBSET Item
      /\ tick \in TickState /\ tick.seen = NoState
  BY DEF DaemonInv, TickOK, SnapshotOK, TickState, Intake
<1>2. PICK q \in SUBSET Item : q = tick.queue \ {i}
  BY <1>1
<1>3. DataOK'
  BY KnownGrows DEF DaemonInv, DataOK, DataType, Intake
<1>4. CASE item[i] = EmptyItem
  <2>1. tick' = Submitting(tick, q, i)
    BY <1>2, <1>4 DEF Intake, Submitting
  <2>2. Fields(tick', "apply", tick.first, q, i, tick.seen, "submit_work", 0, tick.role)
    BY <1>1, <2>1, SubmittingFields
  <2>3. CommandOK' /\ SnapshotOK' /\ QueueOK' /\ StageOK'
    BY <1>1, <2>2 DEF Fields, CommandOK, SnapshotOK, QueueOK, StageOK, Outside, Before,
                Ordering, Runs, NoState
  <2>4. RoleOK' /\ PassedOK'
    BY <2>2 DEF Fields, RoleOK, PassedOK, Ordering
  <2>5. QED
    BY <1>3, <2>2, <2>3, <2>4 DEF DaemonInv, TickOK, Fields
<1>5. CASE item[i] # EmptyItem
  <2>1. tick' = Waiting(tick, q)
    BY <1>2, <1>5 DEF Intake, Waiting
  <2>2. Fields(tick', "intake", tick.first, q, tick.cur, tick.seen, tick.cmd,
               tick.expected, tick.role)
    BY <1>1, <2>1, WaitingFields
  <2>3. CommandOK' /\ SnapshotOK' /\ QueueOK' /\ StageOK'
    BY <1>1, <2>2 DEF Fields, CommandOK, SnapshotOK, QueueOK, StageOK, Outside, Before,
                Ordering, Runs, NoState
  <2>4. RoleOK' /\ PassedOK'
    BY <2>2 DEF Fields, RoleOK, PassedOK, Ordering
  <2>5. QED
    BY <1>3, <2>2, <2>3, <2>4 DEF DaemonInv, TickOK, Fields
<1>6. QED
  BY <1>4, <1>5

LEMMA FinishIntakeKeeps == ASSUME DaemonInv, FinishIntake PROVE DaemonInv'
<1>1. /\ tick.pc = "intake" /\ tick \in TickState /\ tick.seen = NoState
      /\ known \in SUBSET Item
  BY DEF DaemonInv, DataOK, DataType, TickOK, SnapshotOK, FinishIntake
<1>2. DataOK'
  BY KnownGrows DEF DaemonInv, DataOK, DataType, FinishIntake
<1>3. tick' = GoneWith(tick, "visit", known) /\ knownFile' = known
  BY DEF FinishIntake, GoneWith
<1>4. Fields(tick', "visit", tick.first, known, tick.cur, tick.seen, tick.cmd,
             tick.expected, tick.role)
  BY <1>1, <1>3, GoneWithFields DEF Pc
<1>5. CommandOK' /\ SnapshotOK' /\ QueueOK' /\ StageOK'
  BY <1>1, <1>3, <1>4 DEF Fields, CommandOK, SnapshotOK, QueueOK, StageOK, Outside,
              Before, Ordering, Runs, NoState
<1>6. RoleOK' /\ PassedOK'
  BY <1>4 DEF Fields, RoleOK, PassedOK, Ordering
<1>7. QED
  BY <1>2, <1>4, <1>5, <1>6 DEF DaemonInv, TickOK, Fields

LEMMA EndTickKeeps == ASSUME DaemonInv, EndTick PROVE DaemonInv'
<1>1. DataOK'
  BY SameData, SameCounts DEF DaemonInv, EndTick
<1>2. QED
  BY <1>1, Halted DEF DaemonInv, EndTick
-----------------------------------------------------------------------------
(* The visits of the items and their commands.                             *)
LEMMA FreshSound == Sound(Fresh) /\ Fresh.stage = "specifying"
<1>1. Fresh = [stage |-> "specifying", roles |-> RequiredRoles, fixes |-> 0,
               last |-> NoSignature, streak |-> 0, spent |-> 0, budget |-> Budget,
               left |-> Duration, reason |-> "none"]
  BY DEF Fresh, Begin
<1>2. /\ 0 \in 0 .. MaxFixes /\ NoSignature \in Signature /\ Duration \in 0 .. Duration
      /\ "specifying" \in Stage
  BY DEF MaxFixes, Signature, Stage
<1>3. QED
  BY <1>1, <1>2 DEF Sound, LoopState

LEMMA VisitKeeps == ASSUME DaemonInv, Visit PROVE DaemonInv'
<1>1. /\ tick.pc = "visit" /\ tick \in TickState /\ tick.seen = NoState
      /\ tick.queue \in SUBSET Item /\ tick.queue \subseteq knownFile
  <2>1. tick.pc = "visit"
    BY DEF Visit
  <2>2. QED
    BY <2>1 DEF DaemonInv, TickOK, SnapshotOK, QueueOK, Outside, Ordering, TickState
<1>2. UNCHANGED <<journal, known, knownFile, product, disk, counts>>
  BY DEF Visit
<1>3. PICK i \in tick.queue :
        \/ /\ tick' = [tick EXCEPT !.pc = "decide", !.queue = tick.queue \ {i}, !.cur = i,
                                   !.cmd = "begin_triage"]
           /\ loops' = loops
        \/ Fail /\ loops' = loops
        \/ /\ item[i].state \in Working /\ ProjectOf[i] \notin Broken \cup {NoProject}
           /\ tick' = [tick EXCEPT !.pc = "enter", !.queue = tick.queue \ {i}, !.cur = i,
                                   !.cmd = "none"]
           /\ loops' = IF loops[i].stage # "none" THEN loops
                       ELSE [loops EXCEPT ![i] = Fresh]
        \/ tick' = [tick EXCEPT !.queue = tick.queue \ {i}] /\ loops' = loops
  BY DEF Visit
<1>4. i \in Item /\ i \in knownFile
  BY <1>1
<1>5. PICK q \in SUBSET Item : q = tick.queue \ {i}
  BY <1>1
<1>6. q \subseteq knownFile'
  BY <1>1, <1>2, <1>5
<1>7. ASSUME loops' = loops
      PROVE  DataOK'
  BY <1>2, <1>7, SameData, SameCounts DEF DaemonInv, memory
<1>8. CASE tick' = Taken(tick, "decide", q, i, "begin_triage") /\ loops' = loops
  <2>1. "begin_triage" \in CommandType
    BY DEF CommandType, Transitions
  <2>2. Fields(tick', "decide", tick.first, q, i, tick.seen, "begin_triage",
               tick.expected, tick.role)
    BY <1>1, <1>4, <1>8, <2>1, TakenFields DEF Pc
  <2>3. CommandOK' /\ SnapshotOK' /\ QueueOK' /\ StageOK'
    BY <1>1, <1>4, <1>6, <2>2 DEF Fields, CommandOK, SnapshotOK, QueueOK, StageOK,
                Outside, Before, Ordering, Runs, NoState
  <2>4. RoleOK' /\ PassedOK'
    BY <2>2 DEF Fields, RoleOK, PassedOK, Ordering
  <2>5. QED
    BY <1>7, <1>8, <2>2, <2>3, <2>4 DEF DaemonInv, TickOK, Fields
<1>9. CASE Fail /\ loops' = loops
  BY <1>7, <1>9, FailHalts DEF DaemonInv
<1>10. CASE tick' = Waiting(tick, q) /\ loops' = loops
  <2>1. Fields(tick', "visit", tick.first, q, tick.cur, tick.seen, tick.cmd,
               tick.expected, tick.role)
    BY <1>1, <1>10, WaitingFields
  <2>2. CommandOK' /\ SnapshotOK' /\ QueueOK' /\ StageOK'
    BY <1>1, <1>6, <2>1 DEF Fields, CommandOK, SnapshotOK, QueueOK, StageOK, Outside,
                Before, Ordering, Runs, NoState
  <2>3. RoleOK' /\ PassedOK'
    BY <2>1 DEF Fields, RoleOK, PassedOK, Ordering
  <2>4. QED
    BY <1>7, <1>10, <2>1, <2>2, <2>3 DEF DaemonInv, TickOK, Fields
<1>11. CASE /\ item[i].state \in Working /\ ProjectOf[i] \notin Broken \cup {NoProject}
            /\ tick' = Taken(tick, "enter", q, i, "none")
            /\ loops' = IF loops[i].stage # "none" THEN loops
                        ELSE [loops EXCEPT ![i] = Fresh]
  <2>1. Fields(tick', "enter", tick.first, q, i, tick.seen, "none", tick.expected,
               tick.role)
    BY <1>1, <1>4, <1>11, TakenFields DEF Pc
  <2>2. ProjectOf[i] \in Project /\ i \in knownFile'
    BY <1>2, <1>4, <1>11
  <2>3. DataOK' /\ loops'[i].stage # "none"
    <3>1. CASE loops[i].stage # "none"
      BY <1>7, <1>11, <3>1
    <3>2. CASE loops[i].stage = "none"
      <4>1. loops' = [loops EXCEPT ![i] = Fresh]
        BY <1>11, <3>2
      <4>2. loops'[i] = Fresh
        BY <1>4, <4>1 DEF DaemonInv, DataOK, DataType
      <4>3. /\ item' = item /\ past' = past /\ known' = known /\ knownFile' = knownFile
            /\ product' = product /\ trees' = trees /\ built' = built
        BY <1>2 DEF journal, disk
      <4>4. trees \subseteq Project /\ built \subseteq Item /\ DataOK
        BY DEF DaemonInv, DataOK, DataType
      <4>5. ops' \in 0 .. MaxOps /\ faults' \in 0 .. MaxFaults
        BY <1>2, <4>4, SameCounts
      <4>6. DataOK'
        BY <1>4, <3>2, <4>1, <4>3, <4>4, <4>5, FreshSound, LoopMoves
      <4>7. QED
        BY <4>2, <4>6, FreshSound
    <3>3. QED
      BY <3>1, <3>2
  <2>4. CommandOK' /\ SnapshotOK' /\ StageOK'
    BY <1>1, <2>1 DEF Fields, CommandOK, SnapshotOK, StageOK, Ordering, Runs, NoState
  <2>5. QueueOK'
    BY <1>6, <2>1, <2>2, <2>3 DEF Fields, QueueOK
  <2>6. RoleOK' /\ PassedOK'
    BY <2>1 DEF Fields, RoleOK, PassedOK, Ordering
  <2>7. QED
    BY <2>1, <2>3, <2>4, <2>5, <2>6 DEF DaemonInv, TickOK, Fields
<1>12. QED
  BY <1>3, <1>5, <1>8, <1>9, <1>10, <1>11 DEF Taken, Waiting

LEMMA EnterKeeps == ASSUME DaemonInv, Enter PROVE DaemonInv'
<1>1. /\ tick.pc = "enter" /\ UNCHANGED <<journal, memory, disk, counts>>
      /\ loops' = loops /\ knownFile' = knownFile /\ past' = past
  BY DEF Enter, memory, journal
<1>2. DataOK'
  BY <1>1, SameData, SameCounts DEF DaemonInv
<1>3. /\ tick \in TickState /\ cur \in Item /\ cur \in knownFile
      /\ tick.queue \subseteq knownFile /\ ProjectOf[cur] \in Project
      /\ loops[cur] \in LoopState /\ item[cur].state \in State \cup {NoState}
  BY <1>1, InLoop
<1>4. Held
  BY <1>1, <1>3 DEF Held
<1>5. loops[cur].stage \in Stage
  <2>1. loops[cur].stage # "none"
    BY <1>1 DEF DaemonInv, TickOK, QueueOK, Before, Outside, Ordering, cur
  <2>2. QED
    BY <1>3, <2>1 DEF LoopState
<1>6. PICK seen : seen = item[cur].state
  OBVIOUS
<1>7. PICK pc : pc = CASE loops[cur].stage = "done" -> "close"
                       [] loops[cur].stage = "blocked" -> "mirror"
                       [] loops[cur].stage = "specifying" -> "spec"
                       [] loops[cur].stage = "implementing" -> "implement"
                       [] loops[cur].stage = "reviewing" -> "review"
  OBVIOUS
<1>8. tick' = Looked(tick, seen, pc)
  BY <1>6, <1>7 DEF Enter, Looked
<1>9. pc \in LegPc \ {"passed"} /\ loops'[cur].stage = LegStage(pc)
  BY <1>1, <1>5, <1>7 DEF LegPc, LegStage, Stage
<1>10. seen = "reviewing" => cur \in past'.reviewed
  BY <1>1, <1>3, <1>6 DEF DaemonInv, DataOK, ItemOK
<1>11. TickOK'
  BY <1>3, <1>4, <1>6, <1>8, <1>9, <1>10, LookedAt
<1>12. QED
  BY <1>2, <1>11 DEF DaemonInv

LEMMA DecideCommandKeeps == ASSUME DaemonInv, DecideCommand PROVE DaemonInv'
<1>1. /\ tick.pc = "decide" /\ UNCHANGED <<journal, memory, disk, counts>>
      /\ loops' = loops /\ knownFile' = knownFile /\ past' = past /\ built' = built
  BY DEF DecideCommand, memory, journal, disk
<1>2. DataOK'
  BY <1>1, SameData, SameCounts DEF DaemonInv
<1>3. CASE Fail
  BY <1>2, <1>3, FailHalts DEF DaemonInv
<1>4. CASE tick' = Decided(tick, item[cur].version)
  <2>1. tick \in TickState /\ cur \in Item /\ item[cur].version \in Nat
    <3>1. cur \in Item
      BY <1>1 DEF DaemonInv, TickOK, CommandOK, cur
    <3>2. item[cur] \in WorkItem
      BY <3>1 DEF DaemonInv, DataOK, DataType
    <3>3. QED
      BY <3>1, <3>2 DEF DaemonInv, TickOK, WorkItem
  <2>2. PICK v \in Nat : v = item[cur].version
    BY <2>1
  <2>3. Fields(tick', "apply", tick.first, tick.queue, tick.cur, tick.seen, tick.cmd,
               v, tick.role)
    BY <1>4, <2>1, <2>2, DecidedFields
  <2>4. CommandOK' /\ RoleOK'
    BY <1>1, <2>3 DEF DaemonInv, TickOK, Fields, CommandOK, RoleOK, Ordering
  <2>5. SnapshotOK'
    BY <1>1, <2>3 DEF DaemonInv, TickOK, Fields, SnapshotOK
  <2>6. QueueOK'
    BY <1>1, <2>3 DEF DaemonInv, TickOK, Fields, QueueOK, Outside, Before, Ordering
  <2>7. StageOK'
    BY <1>1, <2>3 DEF DaemonInv, TickOK, Fields, StageOK, Ordering, Runs
  <2>8. PassedOK'
    BY <1>1, <2>3 DEF DaemonInv, TickOK, Fields, PassedOK, Ordering
  <2>9. QED
    BY <1>2, <2>3, <2>4, <2>5, <2>6, <2>7, <2>8 DEF DaemonInv, TickOK, Fields
<1>5. QED
  BY <1>3, <1>4 DEF DecideCommand, Decided

LEMMA ApplyRefusedKeeps == ASSUME DaemonInv, ApplyRefused PROVE DaemonInv'
<1>1. DataOK'
  BY SameData, SameCounts DEF DaemonInv, ApplyRefused
<1>2. QED
  BY <1>1, FailHalts DEF DaemonInv, ApplyRefused

(* What an event of the journal leaves of the rest. *)
LEMMA RecordKeepsData ==
  ASSUME DataOK, NEW i \in Item, NEW type \in CommandType, NEW actor, NEW expected,
         NEW e \in Handle(item[i], Command(i, type, actor, expected)),
         Record(i, e), UNCHANGED <<knownFile, loops, product, disk>>,
         known' \subseteq Item, known \subseteq known',
         ops' \in 0 .. MaxOps, faults' \in 0 .. MaxFaults
  PROVE  DataOK'
<1>1. /\ item' \in [Item -> WorkItem]
      /\ past' \in [reviewed : SUBSET Item, mirrored : SUBSET Item]
      /\ past.reviewed \subseteq past'.reviewed
      /\ \A j \in Item : ItemOK(j)'
  BY RecordOK
<1>2. trees' = trees /\ built' = built
  BY DEF disk
<1>3. DataType'
  BY <1>1, <1>2 DEF DataOK, DataType
<1>4. \A j \in Item : LoopOK(j)'
  BY <1>1, <1>2 DEF DataOK, LoopOK, Kept
<1>5. QED
  BY <1>1, <1>3, <1>4 DEF DataOK

LEMMA AppliedKeeps == ASSUME DaemonInv, Applied PROVE DaemonInv'
<1>1. /\ tick.pc = "apply" /\ UNCHANGED <<knownFile, loops, product, disk, counts>>
      /\ trees' = trees /\ built' = built
  BY DEF Applied, disk
<1>2. /\ tick \in TickState /\ cur \in Item
      /\ tick.cmd \in {"submit_work", "begin_triage", "begin_implementation",
                       "submit_review", "block"}
  BY <1>1 DEF DaemonInv, TickOK, CommandOK, cur
<1>3. tick.cmd \in CommandType
  BY <1>2 DEF CommandType, Transitions
<1>4. PICK e \in Handle(item[cur], Command(cur, tick.cmd, "automation", tick.expected)) :
        Record(cur, e)
  BY DEF Applied, Applying
<1>5. DataOK /\ ops' \in 0 .. MaxOps /\ faults' \in 0 .. MaxFaults
  BY <1>1, SameCounts DEF DaemonInv
<1>6. known' \subseteq Item /\ known \subseteq known'
  BY <1>2, <1>5 DEF Applied, DataOK, DataType
<1>7. DataOK'
  BY <1>1, <1>2, <1>3, <1>4, <1>5, <1>6, RecordKeepsData
<1>8. /\ past.reviewed \subseteq past'.reviewed
      /\ tick.cmd = "submit_review" => cur \in past'.reviewed
  BY <1>2, <1>3, <1>4, <1>5, RecordOK
<1>9. TickOK'
  <2>1. CASE tick.cmd = "submit_work"
    <3>1. tick.first \in BOOLEAN /\ tick.queue \in SUBSET Item
      BY <1>2 DEF TickState
    <3>2. PICK t : t = At("intake", tick.first)
      OBVIOUS
    <3>3. Fields(t, "intake", tick.first, {}, NoItem, NoState, "none", 0, NoRole)
      BY <3>1, <3>2, AtFields DEF Pc
    <3>4. tick' = Waiting(t, tick.queue) /\ t \in TickState
      BY <2>1, <3>2, <3>3 DEF Applied, Waiting, Fields
    <3>5. Fields(tick', "intake", tick.first, tick.queue, NoItem, NoState, "none", 0,
                 NoRole)
      BY <3>1, <3>3, <3>4, WaitingFields DEF Fields
    <3>6. CommandOK' /\ SnapshotOK' /\ QueueOK' /\ StageOK'
      BY <3>5 DEF Fields, CommandOK, SnapshotOK, QueueOK, StageOK, Outside, Before,
                  Ordering, Runs, NoState
    <3>7. RoleOK' /\ PassedOK'
      BY <3>5 DEF Fields, RoleOK, PassedOK, Ordering
    <3>8. QED
      BY <3>5, <3>6, <3>7 DEF TickOK, Fields
  <2>2. CASE tick.cmd \in {"begin_triage", "block"}
    <3>1. tick.queue \subseteq knownFile'
      BY <1>1, <2>2 DEF DaemonInv, TickOK, QueueOK, Outside, Ordering
    <3>2. Leave
      BY <2>2 DEF Applied
    <3>3. QED
      BY <1>2, <3>1, <3>2, LeftFor
  <2>3. CASE tick.cmd \in {"begin_implementation", "submit_review"}
    <3>1. tick' = Gone(tick, "reload")
      BY <2>3 DEF Applied, Goto, Gone
    <3>2. Fields(tick', "reload", tick.first, tick.queue, tick.cur, tick.seen, tick.cmd,
                 tick.expected, tick.role)
      BY <1>2, <3>1, GoneFields DEF Pc
    <3>3. CommandOK' /\ RoleOK'
      BY <1>2, <2>3, <3>2 DEF Fields, CommandOK, RoleOK, cur
    <3>4. SnapshotOK'
      BY <1>8, <3>2 DEF DaemonInv, TickOK, Fields, SnapshotOK
    <3>5. QueueOK'
      BY <1>1, <2>3, <3>2 DEF DaemonInv, TickOK, Fields, QueueOK, Outside, Before,
                  Ordering
    <3>6. StageOK'
      BY <1>1, <2>3, <3>2 DEF DaemonInv, TickOK, Fields, StageOK, Ordering, Runs
    <3>7. PassedOK'
      BY <1>1, <1>8, <2>3, <3>2 DEF DaemonInv, TickOK, Fields, PassedOK, Ordering, cur
    <3>8. QED
      BY <3>2, <3>3, <3>4, <3>5, <3>6, <3>7 DEF TickOK, Fields
  <2>4. QED
    BY <1>2, <2>1, <2>2, <2>3
<1>10. QED
  BY <1>7, <1>9 DEF DaemonInv

LEMMA ReloadKeeps == ASSUME DaemonInv, Reload PROVE DaemonInv'
<1>1. /\ tick.pc = "reload" /\ UNCHANGED <<journal, memory, disk, counts>>
      /\ loops' = loops /\ knownFile' = knownFile /\ past' = past /\ built' = built
  BY DEF Reload, memory, journal, disk
<1>2. DataOK'
  BY <1>1, SameData, SameCounts DEF DaemonInv
<1>3. tick.cmd \in {"begin_implementation", "submit_review"}
  BY <1>1 DEF DaemonInv, TickOK, CommandOK
<1>4. /\ tick \in TickState /\ cur \in Item /\ cur \in knownFile
      /\ tick.queue \subseteq knownFile /\ ProjectOf[cur] \in Project
      /\ item[cur].state \in State \cup {NoState}
  BY <1>1, <1>3, InLoop DEF Ordering
<1>5. Held /\ loops'[cur].stage = "implementing"
  <2>1. Held
    BY <1>1, <1>4 DEF Held
  <2>2. StageOK
    BY DEF DaemonInv, TickOK
  <2>3. loops[cur].stage = "implementing"
    BY <1>1, <1>3, <2>2 DEF StageOK, Ordering, cur
  <2>4. QED
    BY <1>1, <2>1, <2>3 DEF cur
<1>6. PICK seen : seen = item[cur].state
  OBVIOUS
<1>7. PICK pc : pc = IF tick.cmd = "begin_implementation" THEN "implement" ELSE "passed"
  OBVIOUS
<1>8. tick' = Looked(tick, seen, pc)
  BY <1>6, <1>7 DEF Reload, Looked
<1>9. seen = "reviewing" => cur \in past'.reviewed
  BY <1>1, <1>4, <1>6 DEF DaemonInv, DataOK, ItemOK
<1>10. pc = "passed" => cur \in built' /\ cur \in past'.reviewed
  BY <1>1, <1>3, <1>7 DEF DaemonInv, TickOK, PassedOK, Ordering, cur
<1>11. pc \in LegPc /\ loops'[cur].stage = LegStage(pc)
  BY <1>5, <1>7 DEF LegPc, LegStage
<1>12. TickOK'
  BY <1>4, <1>5, <1>6, <1>8, <1>9, <1>10, <1>11, LookedAt
<1>13. QED
  BY <1>2, <1>12 DEF DaemonInv
-----------------------------------------------------------------------------
(* The roles, their legs and what follows them.                            *)
LEMMA Concluded ==
  ASSUME TickOK, Held, Conclude, past' = past
  PROVE  TickOK'
<1>1. CASE loops'[cur].stage = "blocked"
  <2>1. tick' = Gone(tick, "mirror") /\ loops'[cur].stage = LegStage("mirror")
    BY <1>1 DEF Conclude, Goto, Gone, LegStage
  <2>2. QED
    BY <2>1, WentTo DEF LegPc
<1>2. CASE loops'[cur].stage = "done" /\ tick.role = "reviewer"
  <2>1. tick' = Gone(tick, "close") /\ loops'[cur].stage = LegStage("close")
    BY <1>2 DEF Conclude, Goto, Gone, LegStage
  <2>2. QED
    BY <2>1, WentTo DEF LegPc
<1>3. CASE Leave
  BY <1>3, LeftFor DEF Held
<1>4. QED
  BY <1>1, <1>2, <1>3 DEF Conclude

(* A feed, and what the worktrees hold after it. *)
LEMMA FeedKeepsData ==
  ASSUME DaemonInv, cur \in Item, cur \in knownFile, Sound(loops[cur]),
         NEW e \in Fed, Feed(e),
         UNCHANGED <<journal, known, knownFile, product, trees, counts>>,
         built' \subseteq Item, \A j \in Item \ {cur} : j \in built => j \in built',
         e.kind = "gates_passed" /\ loops[cur].stage = "implementing" =>
           cur \in built' /\ cur \in past.reviewed
  PROVE  DataOK'
<1>1. PICK s : /\ Sound(s) /\ loops' = [loops EXCEPT ![cur] = s]
               /\ Step(loops[cur].stage, e.kind, s.stage)
               /\ loops[cur].stage # "done"
  BY FeedGives
<1>2. /\ item' = item /\ past' = past /\ known' = known /\ knownFile' = knownFile
      /\ product' = product /\ trees' = trees
  BY DEF journal
<1>3. DataOK /\ trees \subseteq Project /\ LoopOK(cur)
  BY DEF DaemonInv, DataOK, DataType
<1>4. ops' \in 0 .. MaxOps /\ faults' \in 0 .. MaxFaults
  BY <1>3, SameCounts
<1>5. BuildsOrReviews /\ s.stage \in {"reviewing", "done"} => cur \in past.reviewed
  BY <1>1, <1>3 DEF Step, LoopOK
<1>6. s.stage = "reviewing" => cur \in built'
  BY <1>1 DEF Step
<1>7. QED
  BY <1>1, <1>2, <1>3, <1>4, <1>5, <1>6, LoopMoves

(* A loop that is done empties the worktree: what lay there of other items  *)
(* is lost, and they have a loop that is done in their project.            *)
LEMMA Emptied ==
  ASSUME DaemonInv, tick.pc = "close", built' = Elsewhere, loops' = loops
  PROVE  built' \subseteq Item /\ \A j \in built \ built' : loops[j].stage = "reviewing" => Kept(j)'
<1>1. cur \in Item /\ built \subseteq Item
  BY InLoop DEF DaemonInv, DataOK, DataType
<1>2. loops[cur].stage = "done"
  BY DEF DaemonInv, TickOK, StageOK, cur
<1>3. ASSUME NEW j \in built \ built', loops[j].stage = "reviewing"
      PROVE  Kept(j)'
  <2>1. j \in Item /\ j # cur /\ ProjectOf[j] = ProjectOf[cur]
    BY <1>1, <1>2, <1>3 DEF Elsewhere
  <2>2. cur \in Item \ {j} /\ loops'[cur].stage = "done"
    BY <1>1, <1>2, <2>1
  <2>3. QED
    BY <2>1, <2>2 DEF Kept
<1>4. QED
  BY <1>1, <1>3 DEF Elsewhere

(* What a git command that fails, or is killed, leaves. *)
LEMMA GitStopsKeepsData ==
  ASSUME DaemonInv, GitStops, UNCHANGED <<journal, memory>>,
         ops' \in 0 .. MaxOps, faults' \in 0 .. MaxFaults
  PROVE  DataOK'
<1>1. DataOK /\ trees \subseteq Project /\ built \subseteq Item /\ loops' = loops
  BY DEF DaemonInv, DataOK, DataType, memory
<1>2. CASE UNCHANGED disk
  BY <1>1, <1>2, SameData
<1>3. CASE tick.pc = "prepare" /\ trees' = trees \cup {ProjectOf[cur]} /\ UNCHANGED built
  <2>1. ProjectOf[cur] \in Project
    BY <1>3, InLoop
  <2>2. QED
    BY <1>1, <1>3, <2>1, TreesMove
<1>4. CASE tick.pc = "close" /\ built' = Elsewhere /\ UNCHANGED trees
  BY <1>1, <1>4, Emptied, TreesMove
<1>5. QED
  BY <1>2, <1>3, <1>4 DEF GitStops

LEMMA PrepareTreeKeeps == ASSUME DaemonInv, PrepareTree PROVE DaemonInv'
<1>1. /\ tick.pc = "prepare" /\ UNCHANGED <<journal, memory, built, counts>>
      /\ trees' = trees \cup {ProjectOf[cur]} /\ tick' = Gone(tick, "running")
      /\ loops' = loops /\ knownFile' = knownFile /\ past' = past
  BY DEF PrepareTree, Goto, Gone, journal, memory
<1>2. ProjectOf[cur] \in Project /\ tick \in TickState
  BY <1>1, InLoop
<1>3. DataOK'
  <2>1. DataOK /\ trees' \subseteq Project /\ built' = built /\ built \subseteq Item
    BY <1>1, <1>2 DEF DaemonInv, DataOK, DataType
  <2>2. QED
    BY <1>1, <2>1, SameCounts, TreesMove
<1>4. Fields(tick', "running", tick.first, tick.queue, tick.cur, tick.seen, tick.cmd,
             tick.expected, tick.role)
  BY <1>1, <1>2, GoneFields DEF Pc
<1>5. CommandOK' /\ PassedOK'
  BY <1>4 DEF Fields, CommandOK, PassedOK, Ordering
<1>6. SnapshotOK' /\ RoleOK'
  BY <1>1, <1>4 DEF DaemonInv, TickOK, Fields, SnapshotOK, RoleOK
<1>7. QueueOK'
  BY <1>1, <1>4 DEF DaemonInv, TickOK, Fields, QueueOK, Outside, Before, Ordering
<1>8. StageOK'
  BY <1>1, <1>4 DEF DaemonInv, TickOK, Fields, StageOK, Ordering, Runs
<1>9. QED
  BY <1>3, <1>4, <1>5, <1>6, <1>7, <1>8 DEF DaemonInv, TickOK, Fields

LEMMA PrepareFailsKeeps == ASSUME DaemonInv, PrepareFails PROVE DaemonInv'
<1>1. DataOK'
  BY GitStopsKeepsData, SameCounts DEF DaemonInv, PrepareFails
<1>2. QED
  BY <1>1, FailHalts DEF DaemonInv, PrepareFails

LEMMA RoleFailsKeeps == ASSUME DaemonInv, RoleFails PROVE DaemonInv'
<1>1. DataOK'
  BY SameData, SameCounts DEF DaemonInv, RoleFails
<1>2. QED
  BY <1>1, FailHalts DEF DaemonInv, RoleFails

LEMMA SpecLegKeeps == ASSUME DaemonInv, SpecLeg PROVE DaemonInv'
<1>1. /\ tick.pc = "spec" /\ UNCHANGED <<journal, known, knownFile, product, disk, counts>>
      /\ past' = past /\ item' = item /\ trees' = trees /\ built' = built
  BY DEF SpecLeg, journal, disk
<1>2. /\ tick \in TickState /\ cur \in Item /\ cur \in knownFile
      /\ tick.queue \subseteq knownFile /\ ProjectOf[cur] \in Project
      /\ Sound(loops[cur]) /\ item[cur].state \in State \cup {NoState}
  BY <1>1, InLoop
<1>3. Held /\ TickOK
  BY <1>1, <1>2 DEF Held, DaemonInv
<1>4. loops[cur].stage = "specifying"
  BY <1>1 DEF DaemonInv, TickOK, StageOK, cur
<1>5. CASE StartRole("product") /\ UNCHANGED loops
  <2>1. DataOK'
    BY <1>1, <1>5, SameData, SameCounts DEF DaemonInv, memory
  <2>2. TickOK'
    BY <1>1, <1>3, <1>4, <1>5, RoleStarted DEF Role
  <2>3. QED
    BY <2>1, <2>2 DEF DaemonInv
<1>6. CASE Feed(SpecReady) /\ AfterSpec
  <2>1. SpecReady \in Fed /\ SpecReady.kind = "spec_ready"
    BY DEF Fed, SpecReady
  <2>2. built \subseteq Item
    BY DEF DaemonInv, DataOK, DataType
  <2>3. DataOK'
    BY <1>1, <1>2, <1>6, <2>1, <2>2, FeedKeepsData
  <2>4. CASE Leave
    BY <1>2, <1>3, <2>3, <2>4, LeftFor DEF DaemonInv, Held
  <2>5. CASE loops'[cur].stage = "implementing" /\ ~Leave
    <3>1. PICK seen : seen = IF tick.seen = "ready" THEN item[cur].state ELSE tick.seen
      OBVIOUS
    <3>2. tick' = Looked(tick, seen, "implement")
      BY <1>6, <2>5, <3>1 DEF AfterSpec, Looked
    <3>3. seen \in State \cup {NoState}
      BY <1>2, <3>1 DEF TickState
    <3>4. seen = "reviewing" => cur \in past'.reviewed
      BY <1>1, <1>2, <1>3, <3>1 DEF DaemonInv, DataOK, ItemOK, TickOK, SnapshotOK, cur
    <3>5. loops'[cur].stage = LegStage("implement") /\ "implement" \in LegPc
      BY <2>5 DEF LegStage, LegPc
    <3>6. TickOK'
      BY <1>3, <3>2, <3>3, <3>4, <3>5, LookedAt
    <3>7. QED
      BY <2>3, <3>6 DEF DaemonInv
  <2>6. QED
    BY <1>6, <2>4, <2>5 DEF AfterSpec
<1>7. CASE Leave /\ UNCHANGED loops
  <2>1. DataOK'
    BY <1>1, <1>7, SameData, SameCounts DEF DaemonInv, memory
  <2>2. QED
    BY <1>1, <1>2, <1>7, <2>1, LeftFor DEF DaemonInv
<1>8. QED
  BY <1>5, <1>6, <1>7 DEF SpecLeg

LEMMA ProductEndsKeeps == ASSUME DaemonInv, ProductEnds PROVE DaemonInv'
<1>1. /\ Runs("product") /\ UNCHANGED <<journal, known, knownFile, loops, disk, counts>>
      /\ item' = item /\ past' = past /\ trees' = trees /\ built' = built
      /\ ops' = ops /\ faults' = faults
  BY DEF ProductEnds, Runs, journal, disk, counts
<1>2. /\ tick \in TickState /\ cur \in Item /\ cur \in knownFile
      /\ tick.queue \subseteq knownFile /\ ProjectOf[cur] \in Project
  BY <1>1, InLoop DEF Runs
<1>3. Held /\ TickOK
  BY <1>1, <1>2 DEF Held, DaemonInv
<1>4. DataType'
  BY <1>1, <1>2 DEF DaemonInv, DataOK, DataType, ProductEnds
<1>5. \A i \in Item : ItemOK(i)' /\ LoopOK(i)'
  BY <1>1 DEF DaemonInv, DataOK, ItemOK, LoopOK, Kept
<1>6. DataOK'
  BY <1>1, <1>4, <1>5 DEF DaemonInv, DataOK
<1>7. tick' = Gone(tick, "spec")
  BY DEF ProductEnds, Goto, Gone
<1>8. loops'[cur].stage = LegStage("spec") /\ "spec" \in LegPc
  BY <1>1 DEF DaemonInv, TickOK, StageOK, LegStage, LegPc, cur
<1>9. TickOK'
  BY <1>1, <1>3, <1>7, <1>8, WentTo
<1>10. QED
  BY <1>6, <1>9 DEF DaemonInv

LEMMA ImplementLegKeeps == ASSUME DaemonInv, ImplementLeg PROVE DaemonInv'
<1>1. /\ tick.pc = "implement" /\ UNCHANGED <<journal, memory, disk, counts>>
      /\ past' = past /\ loops' = loops /\ knownFile' = knownFile
  BY DEF ImplementLeg, journal, memory
<1>2. /\ tick \in TickState /\ cur \in Item /\ cur \in knownFile
      /\ tick.queue \subseteq knownFile /\ ProjectOf[cur] \in Project
  BY <1>1, InLoop
<1>3. Held /\ TickOK
  BY <1>1, <1>2 DEF Held, DaemonInv
<1>4. loops'[cur].stage = "implementing"
  BY <1>1 DEF DaemonInv, TickOK, StageOK, cur
<1>5. DataOK'
  BY <1>1, SameData, SameCounts DEF DaemonInv
<1>6. CASE ApplyWorkflow("begin_implementation")
  BY <1>1, <1>3, <1>4, <1>5, <1>6, OrderedFor DEF DaemonInv
<1>7. CASE tick.seen \in {"implementing", "reviewing"} /\ StartRole("implementer")
  <2>1. TickOK'
    BY <1>1, <1>3, <1>4, <1>7, RoleStarted DEF Role
  <2>2. QED
    BY <1>5, <2>1 DEF DaemonInv
<1>8. CASE Leave
  BY <1>1, <1>2, <1>5, <1>8, LeftFor DEF DaemonInv
<1>9. QED
  BY <1>6, <1>7, <1>8 DEF ImplementLeg

LEMMA ImplementerFailsKeeps == ASSUME DaemonInv, ImplementerFails PROVE DaemonInv'
<1>1. /\ Runs("implementer") /\ built' = built \ {cur} /\ past' = past
      /\ UNCHANGED <<journal, known, knownFile, product, trees, counts>>
  BY DEF ImplementerFails, Runs, journal
<1>2. PICK sig \in Failures : Feed(GatesFailed(sig)) /\ Conclude
  BY DEF ImplementerFails
<1>3. PICK e : e = GatesFailed(sig)
  OBVIOUS
<1>4. e \in Fed /\ e.kind = "gates_failed" /\ Feed(e)
  BY <1>2, <1>3 DEF Fed, GatesFailed
<1>5. /\ tick \in TickState /\ cur \in Item /\ cur \in knownFile
      /\ tick.queue \subseteq knownFile /\ ProjectOf[cur] \in Project
      /\ Sound(loops[cur])
  BY <1>1, InLoop DEF Runs
<1>6. built' \subseteq Item /\ \A j \in Item \ {cur} : j \in built => j \in built'
  BY <1>1 DEF DaemonInv, DataOK, DataType
<1>7. DataOK'
  BY <1>1, <1>4, <1>5, <1>6, FeedKeepsData
<1>8. Held /\ TickOK
  BY <1>1, <1>5 DEF Held, DaemonInv
<1>9. QED
  BY <1>1, <1>2, <1>7, <1>8, Concluded DEF DaemonInv

LEMMA ImplementerPassesKeeps == ASSUME DaemonInv, ImplementerPasses PROVE DaemonInv'
<1>1. /\ Runs("implementer") /\ built' = built \cup {cur} /\ past' = past
      /\ UNCHANGED <<journal, memory, trees, counts>>
      /\ loops' = loops /\ knownFile' = knownFile /\ trees' = trees
  BY DEF ImplementerPasses, Runs, journal, memory
<1>2. /\ tick \in TickState /\ cur \in Item /\ cur \in knownFile
      /\ tick.queue \subseteq knownFile /\ ProjectOf[cur] \in Project
  BY <1>1, InLoop DEF Runs
<1>3. Held /\ TickOK
  BY <1>1, <1>2 DEF Held, DaemonInv
<1>4. loops'[cur].stage = "implementing" /\ cur \in built'
  BY <1>1 DEF DaemonInv, TickOK, StageOK, cur
<1>5. DataOK'
  <2>1. trees' \subseteq Project /\ built' \subseteq Item /\ DataOK
    BY <1>1, <1>2 DEF DaemonInv, DataOK, DataType
  <2>2. QED
    BY <1>1, <2>1, SameCounts, TreesMove
<1>6. CASE ApplyWorkflow("submit_review")
  <2>1. tick.pc \notin {"down", "idle", "intake", "visit"}
    BY <1>1 DEF Runs
  <2>2. TickOK'
    BY <1>1, <1>3, <1>4, <1>6, <2>1, OrderedFor
  <2>3. QED
    BY <1>5, <2>2 DEF DaemonInv
<1>7. CASE tick.seen # "implementing" /\ Goto("passed")
  <2>1. tick.seen = "reviewing"
    BY <1>1, <1>7 DEF DaemonInv, TickOK, RoleOK, Runs
  <2>2. cur \in past'.reviewed
    BY <1>1, <2>1 DEF DaemonInv, TickOK, SnapshotOK, cur
  <2>3. tick' = Gone(tick, "passed")
    BY <1>7 DEF Goto, Gone
  <2>4. loops'[cur].stage = LegStage("passed") /\ "passed" \in LegPc
    BY <1>4 DEF LegStage, LegPc
  <2>5. TickOK'
    BY <1>1, <1>3, <1>4, <2>2, <2>3, <2>4, WentTo
  <2>6. QED
    BY <1>5, <2>5 DEF DaemonInv
<1>8. QED
  BY <1>6, <1>7 DEF ImplementerPasses

LEMMA GatesPassKeeps == ASSUME DaemonInv, GatesPass PROVE DaemonInv'
<1>1. /\ tick.pc = "passed" /\ past' = past /\ built' = built /\ trees' = trees
      /\ UNCHANGED <<journal, known, knownFile, product, trees, counts>>
      /\ Feed(GatesPassed) /\ Conclude
  BY DEF GatesPass, journal, disk
<1>2. GatesPassed \in Fed /\ GatesPassed.kind = "gates_passed"
  BY DEF Fed, GatesPassed
<1>3. /\ tick \in TickState /\ cur \in Item /\ cur \in knownFile
      /\ tick.queue \subseteq knownFile /\ ProjectOf[cur] \in Project
      /\ Sound(loops[cur])
  BY <1>1, InLoop
<1>4. cur \in built /\ cur \in past.reviewed
  BY <1>1 DEF DaemonInv, TickOK, PassedOK, cur
<1>5. built' \subseteq Item /\ \A j \in Item \ {cur} : j \in built => j \in built'
  BY <1>1 DEF DaemonInv, DataOK, DataType
<1>6. DataOK'
  BY <1>1, <1>2, <1>3, <1>4, <1>5, FeedKeepsData
<1>7. Held /\ TickOK
  BY <1>1, <1>3 DEF Held, DaemonInv
<1>8. QED
  BY <1>1, <1>6, <1>7, Concluded DEF DaemonInv

LEMMA ReviewLegKeeps == ASSUME DaemonInv, ReviewLeg PROVE DaemonInv'
<1>1. /\ tick.pc = "review" /\ UNCHANGED <<journal, known, knownFile, product, disk, counts>>
      /\ past' = past /\ built' = built /\ trees' = trees
  BY DEF ReviewLeg, journal, disk
<1>2. /\ tick \in TickState /\ cur \in Item /\ cur \in knownFile
      /\ tick.queue \subseteq knownFile /\ ProjectOf[cur] \in Project
      /\ Sound(loops[cur])
  BY <1>1, InLoop
<1>3. Held /\ TickOK /\ tick.queue \subseteq knownFile'
  BY <1>1, <1>2 DEF Held, DaemonInv
<1>4. loops[cur].stage = "reviewing"
  BY <1>1 DEF DaemonInv, TickOK, StageOK, cur
<1>5. CASE Feed(GatesPassed) /\ Leave
  <2>1. GatesPassed \in Fed
    BY DEF Fed
  <2>2. built' \subseteq Item /\ \A j \in Item \ {cur} : j \in built => j \in built'
    BY <1>1 DEF DaemonInv, DataOK, DataType
  <2>3. DataOK'
    BY <1>1, <1>2, <1>4, <1>5, <2>1, <2>2, FeedKeepsData
  <2>4. QED
    BY <1>2, <1>3, <1>5, <2>3, LeftFor DEF DaemonInv
<1>6. ASSUME UNCHANGED loops
      PROVE  DataOK'
  BY <1>1, <1>6, SameData, SameCounts DEF DaemonInv, memory
<1>7. CASE (Fail \/ Leave) /\ UNCHANGED loops
  BY <1>2, <1>3, <1>6, <1>7, FailHalts, LeftFor DEF DaemonInv
<1>8. CASE StartRole("reviewer") /\ UNCHANGED loops
  <2>1. DataOK'
    BY <1>6, <1>8
  <2>2. loops'[cur].stage = "reviewing"
    BY <1>4, <1>8
  <2>3. TickOK'
    BY <1>1, <1>3, <1>8, <2>2, RoleStarted DEF Role
  <2>4. QED
    BY <2>1, <2>3 DEF DaemonInv
<1>9. QED
  BY <1>5, <1>7, <1>8 DEF ReviewLeg

LEMMA ReviewerEndsKeeps == ASSUME DaemonInv, ReviewerEnds PROVE DaemonInv'
<1>1. /\ Runs("reviewer") /\ past' = past /\ built' = built /\ trees' = trees
      /\ UNCHANGED <<journal, known, knownFile, product, trees, counts>>
  BY DEF ReviewerEnds, Runs, journal, disk
<1>2. \E e \in Fed : e.kind = "reviewed" /\ Feed(e) /\ Conclude
  <2>1. CASE Feed(Reviewed("approve", NoSignature)) /\ Conclude
    <3>1. /\ Reviewed("approve", NoSignature) \in Fed
          /\ Reviewed("approve", NoSignature).kind = "reviewed"
      BY DEF Fed, Reviewed
    <3>2. QED
      BY <2>1, <3>1
  <2>2. ASSUME NEW sig \in Failures, Feed(Reviewed("changes", sig)), Conclude
        PROVE  \E e \in Fed : e.kind = "reviewed" /\ Feed(e) /\ Conclude
    <3>1. /\ Reviewed("changes", sig) \in Fed
          /\ Reviewed("changes", sig).kind = "reviewed"
      BY DEF Fed, Reviewed
    <3>2. QED
      BY <2>2, <3>1
  <2>3. QED
    BY <2>1, <2>2 DEF ReviewerEnds
<1>3. PICK e \in Fed : e.kind = "reviewed" /\ Feed(e) /\ Conclude
  BY <1>2
<1>4. /\ tick \in TickState /\ cur \in Item /\ cur \in knownFile
      /\ tick.queue \subseteq knownFile /\ ProjectOf[cur] \in Project
      /\ Sound(loops[cur])
  BY <1>1, InLoop DEF Runs
<1>5. built' \subseteq Item /\ \A j \in Item \ {cur} : j \in built => j \in built'
  BY <1>1 DEF DaemonInv, DataOK, DataType
<1>6. DataOK'
  BY <1>1, <1>3, <1>4, <1>5, FeedKeepsData
<1>7. Held /\ TickOK
  BY <1>1, <1>4 DEF Held, DaemonInv
<1>8. QED
  BY <1>1, <1>3, <1>6, <1>7, Concluded DEF DaemonInv

LEMMA MirrorKeeps == ASSUME DaemonInv, Mirror PROVE DaemonInv'
<1>1. /\ tick.pc = "mirror" /\ UNCHANGED <<journal, memory, disk, counts>>
      /\ past' = past /\ loops' = loops /\ knownFile' = knownFile
  BY DEF Mirror, journal, memory
<1>2. /\ tick \in TickState /\ cur \in Item /\ cur \in knownFile
      /\ tick.queue \subseteq knownFile /\ ProjectOf[cur] \in Project
  BY <1>1, InLoop
<1>3. Held /\ TickOK /\ tick.queue \subseteq knownFile'
  BY <1>1, <1>2 DEF Held, DaemonInv
<1>4. loops'[cur].stage = "blocked"
  BY <1>1 DEF DaemonInv, TickOK, StageOK, cur
<1>5. DataOK'
  BY <1>1, SameData, SameCounts DEF DaemonInv
<1>6. CASE ApplyWorkflow("block")
  BY <1>1, <1>3, <1>4, <1>5, <1>6, OrderedFor DEF DaemonInv
<1>7. CASE Leave
  BY <1>2, <1>3, <1>5, <1>7, LeftFor DEF DaemonInv
<1>8. QED
  BY <1>6, <1>7 DEF Mirror

(* A loop that is done gives the worktree up. *)
LEMMA CloseTreeKeeps == ASSUME DaemonInv, CloseTree PROVE DaemonInv'
<1>1. /\ tick.pc = "close" /\ UNCHANGED <<journal, memory, counts>>
      /\ knownFile' = knownFile /\ loops' = loops
      /\ trees' = trees \ {ProjectOf[cur]} /\ built' = Elsewhere /\ Leave
  BY DEF CloseTree, memory
<1>2. /\ tick \in TickState /\ tick.queue \subseteq knownFile
  BY <1>1, InLoop
<1>3. DataOK /\ trees' \subseteq Project
  BY <1>1 DEF DaemonInv, DataOK, DataType
<1>4. DataOK'
  BY <1>1, <1>3, Emptied, SameCounts, TreesMove
<1>5. QED
  BY <1>1, <1>2, <1>4, LeftFor DEF DaemonInv

LEMMA CloseFailsKeeps == ASSUME DaemonInv, CloseFails PROVE DaemonInv'
<1>1. DataOK'
  BY GitStopsKeepsData, SameCounts DEF DaemonInv, CloseFails
<1>2. QED
  BY <1>1, FailHalts DEF DaemonInv, CloseFails
-----------------------------------------------------------------------------
(* The others: operators, the clock, crashes.                              *)
LEMMA OperatorKeeps ==
  ASSUME DaemonInv, NEW i \in Item, NEW type \in Menu, OperatorCommand(i, type)
  PROVE  DaemonInv'
<1>1. /\ ops < MaxOps /\ ops' = ops + 1 /\ faults' = faults /\ tick' = tick
      /\ UNCHANGED <<knownFile, loops, product, disk>> /\ known' = known
      /\ trees' = trees /\ built' = built
  BY DEF OperatorCommand, memory, disk
<1>2. PICK e \in Handle(item[i], Command(i, type, "operator", item[i].version)) :
        Record(i, e)
  BY DEF OperatorCommand
<1>3. DataOK /\ type \in CommandType
  BY DEF DaemonInv
<1>4. ops' \in 0 .. MaxOps /\ faults' \in 0 .. MaxFaults
  <2>1. ops \in Nat /\ MaxOps \in Nat /\ faults \in 0 .. MaxFaults
    BY <1>3 DEF DataOK, DataType
  <2>2. QED
    BY <1>1, <2>1
<1>5. known' \subseteq Item /\ known \subseteq known'
  BY <1>1, <1>3 DEF DataOK, DataType
<1>6. DataOK'
  BY <1>1, <1>2, <1>3, <1>4, <1>5, RecordKeepsData
<1>7. past.reviewed \subseteq past'.reviewed
  BY <1>2, <1>3, RecordOK
<1>8. TickOK'
  BY <1>1, <1>7, TickWaits DEF DaemonInv
<1>9. QED
  BY <1>6, <1>8 DEF DaemonInv

LEMMA CrashKeeps == ASSUME DaemonInv, Crash PROVE DaemonInv'
<1>1. DataOK'
  BY GitStopsKeepsData, FaultCounts DEF DaemonInv, Crash
<1>2. QED
  BY <1>1, Halted DEF DaemonInv, Crash

LEMMA ElapseKeeps == ASSUME DaemonInv, Elapse PROVE DaemonInv'
<1>1. /\ tick.pc \in {"idle", "down"} /\ tick' = tick
      /\ item' = item /\ past' = past /\ known' = known /\ knownFile' = knownFile
      /\ product' = product /\ trees' = trees /\ built' = built
      /\ ops' = ops /\ faults' = faults
  BY DEF Elapse, journal, disk, counts
<1>2. DataOK
  BY DEF DaemonInv
<1>3. ASSUME NEW i \in Item
      PROVE  /\ loops'[i] \in LoopState /\ loops'[i].stage = loops[i].stage
             /\ loops'[i].streak = loops[i].streak
  <2>1. loops[i] \in LoopState /\ loops[i].left \in 0 .. Duration
    BY <1>2 DEF DataOK, DataType, LoopState
  <2>2. CASE loops[i].stage \notin Over \cup {"none"} /\ loops[i].left > 0
    <3>1. PICK n : n = loops[i].left - 1
      OBVIOUS
    <3>2. loops'[i] = [loops[i] EXCEPT !.left = n]
      BY <2>2, <3>1 DEF Elapse
    <3>3. n \in 0 .. Duration
      BY <2>1, <2>2, <3>1
    <3>4. QED
      BY <2>1, <3>2, <3>3 DEF LoopState
  <2>3. CASE ~(loops[i].stage \notin Over \cup {"none"} /\ loops[i].left > 0)
    <3>1. loops'[i] = loops[i]
      BY <2>3 DEF Elapse
    <3>2. QED
      BY <2>1, <3>1
  <2>4. QED
    BY <2>2, <2>3
<1>4. loops' \in [Item -> LoopState]
  <2>1. loops' = [i \in Item |-> loops'[i]]
    BY DEF Elapse
  <2>2. QED
    BY <1>3, <2>1
<1>5. DataType'
  BY <1>1, <1>2, <1>4 DEF DataOK, DataType
<1>6. \A i \in Item : ItemOK(i)' /\ LoopOK(i)'
  BY <1>1, <1>2, <1>3 DEF DataOK, ItemOK, LoopOK, Kept
<1>7. DataOK'
  BY <1>1, <1>2, <1>5, <1>6 DEF DataOK
<1>8. CommandOK' /\ SnapshotOK' /\ QueueOK' /\ StageOK'
  BY <1>1 DEF DaemonInv, TickOK, CommandOK, SnapshotOK, QueueOK, StageOK, Outside,
              Before, Ordering, Runs
<1>9. RoleOK' /\ PassedOK'
  BY <1>1 DEF DaemonInv, TickOK, RoleOK, PassedOK, Ordering
<1>10. QED
  BY <1>1, <1>7, <1>8, <1>9 DEF DaemonInv, TickOK

LEMMA Stutters == ASSUME DaemonInv, UNCHANGED vars PROVE DaemonInv'
<1>1. UNCHANGED <<journal, memory, disk>> /\ UNCHANGED counts /\ tick' = tick
  BY DEF vars
<1>2. DataOK'
  BY <1>1, SameData, SameCounts DEF DaemonInv
<1>3. TickOK'
  BY <1>1, TickWaits DEF DaemonInv, journal, memory, disk
<1>4. QED
  BY <1>2, <1>3 DEF DaemonInv
-----------------------------------------------------------------------------
(* The invariant, and what it implies.                                     *)
LEMMA InitHolds == Init => DaemonInv
<1> SUFFICES ASSUME Init PROVE DaemonInv
  OBVIOUS
<1>1. /\ item = [i \in Item |-> EmptyItem] /\ loops = [i \in Item |-> NotBegun]
      /\ known = {} /\ knownFile = {} /\ product = {} /\ trees = {} /\ built = {}
      /\ past = [reviewed |-> {}, mirrored |-> {}] /\ ops = 0 /\ faults = 0
  BY DEF Init
<1>2. EmptyItem \in WorkItem /\ EmptyItem.state = NoState
  BY DEF EmptyItem, WorkItem, NoState
<1>3. NotBegun \in LoopState /\ NotBegun.stage = "none" /\ NotBegun.streak = 0
  <2>1. Fresh \in LoopState /\ Fresh.streak = 0
    BY FreshSound DEF Sound, Fresh, Begin
  <2>2. QED
    BY <2>1 DEF NotBegun, LoopState
<1>4. ops \in 0 .. MaxOps /\ faults \in 0 .. MaxFaults
  BY <1>1
<1>5. DataType
  BY <1>1, <1>2, <1>3, <1>4 DEF DataType
<1>6. \A i \in Item : ItemOK(i) /\ LoopOK(i)
  BY <1>1, <1>2, <1>3 DEF ItemOK, LoopOK, NoState
<1>7. DataOK
  BY <1>1, <1>5, <1>6 DEF DataOK
<1>8. Fields(tick, "down", TRUE, {}, NoItem, NoState, "none", 0, NoRole)
  BY AtFields DEF Init, Pc
<1>9. CommandOK /\ SnapshotOK /\ QueueOK /\ StageOK
  BY <1>8 DEF Fields, CommandOK, SnapshotOK, QueueOK, StageOK, Outside, Before,
              Ordering, Runs, NoState
<1>10. RoleOK /\ PassedOK
  BY <1>8 DEF Fields, RoleOK, PassedOK, Ordering
<1>11. QED
  BY <1>7, <1>8, <1>9, <1>10 DEF DaemonInv, TickOK, Fields

LEMMA TickStepKeeps == ASSUME DaemonInv, TickStep PROVE DaemonInv'
<1>1. CASE Boot \/ BeginTick \/ PollFails \/ FinishIntake \/ EndTick
  BY <1>1, BootKeeps, BeginTickKeeps, PollFailsKeeps, FinishIntakeKeeps, EndTickKeeps
<1>2. CASE \E i \in Item : Intake(i)
  BY <1>2, IntakeKeeps
<1>3. CASE Visit \/ Enter \/ DecideCommand \/ ApplyRefused \/ Applied \/ Reload
  BY <1>3, VisitKeeps, EnterKeeps, DecideCommandKeeps, ApplyRefusedKeeps, AppliedKeeps,
     ReloadKeeps
<1>4. CASE PrepareTree \/ PrepareFails \/ RoleFails \/ SpecLeg \/ ProductEnds
  BY <1>4, PrepareTreeKeeps, PrepareFailsKeeps, RoleFailsKeeps, SpecLegKeeps,
     ProductEndsKeeps
<1>5. CASE ImplementLeg \/ ImplementerFails \/ ImplementerPasses \/ GatesPass
  BY <1>5, ImplementLegKeeps, ImplementerFailsKeeps, ImplementerPassesKeeps,
     GatesPassKeeps
<1>6. CASE ReviewLeg \/ ReviewerEnds \/ Mirror \/ CloseTree \/ CloseFails
  BY <1>6, ReviewLegKeeps, ReviewerEndsKeeps, MirrorKeeps, CloseTreeKeeps, CloseFailsKeeps
<1>7. QED
  BY <1>1, <1>2, <1>3, <1>4, <1>5, <1>6 DEF TickStep

LEMMA NextKeeps == DaemonInv /\ [Next]_vars => DaemonInv'
<1>1. ASSUME DaemonInv, TickStep \/ Crash \/ Elapse
      PROVE  DaemonInv'
  BY <1>1, TickStepKeeps, CrashKeeps, ElapseKeeps
<1>2. ASSUME DaemonInv, NEW i \in Item, NEW type \in Menu, OperatorCommand(i, type)
      PROVE  DaemonInv'
  BY <1>2, OperatorKeeps
<1>3. ASSUME DaemonInv, UNCHANGED vars
      PROVE  DaemonInv'
  BY <1>3, Stutters
<1>4. QED
  BY <1>1, <1>2, <1>3 DEF Next

LEMMA InvHolds == Spec => []DaemonInv
<1>1. QED
  BY InitHolds, NextKeeps, PTL DEF Spec

LEMMA InvTyped == DaemonInv => TypeOK
BY DEF DaemonInv, DataOK, DataType, TickOK, TypeOK

LEMMA InvKnown == DaemonInv => BegunIsKnown
BY DEF DaemonInv, DataOK, LoopOK, BegunIsKnown

LEMMA InvAhead == ASSUME BuildsOrReviews PROVE DaemonInv => WorkflowAhead
<1>1. ASSUME DaemonInv, NEW i \in Item, loops[i].stage \in {"reviewing", "done"}
      PROVE  i \in past.reviewed /\ item[i].state \in Late
  <2>1. ItemOK(i) /\ LoopOK(i)
    BY <1>1 DEF DaemonInv, DataOK
  <2>2. QED
    BY <1>1, <2>1 DEF ItemOK, LoopOK
<1>2. \A s \in Late : s \notin {NoState, "inbox", "triage", "ready", "specifying"}
  BY DEF Late, State, NoState
<1>3. QED
  BY <1>1, <1>2 DEF WorkflowAhead

LEMMA InvBuilt == DaemonInv => ReviewsWhatWasBuilt
<1>1. ASSUME DaemonInv, tick.pc = "running", tick.role = "reviewer"
      PROVE  Kept(cur)
  <2>1. cur \in Item
    BY <1>1, InLoop
  <2>2. loops[cur].stage = "reviewing"
    BY <1>1 DEF DaemonInv, TickOK, StageOK, Runs, cur
  <2>3. LoopOK(cur)
    BY <1>1, <2>1 DEF DaemonInv, DataOK
  <2>4. QED
    BY <2>2, <2>3 DEF LoopOK
<1>2. QED
  BY <1>1 DEF ReviewsWhatWasBuilt, Kept

(* Every variable of harnessd keeps its type, whatever commands, crashes   *)
(* and failures interleave with its ticks.                                 *)
THEOREM DaemonTypeCorrect == Spec => []TypeOK
<1>1. QED
  BY InvHolds, InvTyped, PTL

(* A crash orphans no work, for any number of items and of crashes: a loop *)
(* has begun only for an item that the file of known items names.          *)
THEOREM BegunItemsKnown == Spec => []BegunIsKnown
<1>1. QED
  BY InvHolds, InvKnown, PTL

(* Where the required roles include one after the Spec, the workflow is    *)
(* never behind the loop: what the loop has in review, or done, the        *)
(* journal had submitted for review, and no command takes it back past it. *)
THEOREM WorkflowIsAhead == ASSUME BuildsOrReviews PROVE Spec => []WorkflowAhead
<1>1. QED
  BY InvHolds, InvAhead, PTL

(* However many items share a project and its one worktree: a reviewer     *)
(* judges the work that passed the gates, also where humans put the item in *)
(* review and where processes died half-way, except after another item of  *)
(* the project was approved, which takes the worktree away.                *)
THEOREM ReviewsAreOfBuiltWork == Spec => []ReviewsWhatWasBuilt
<1>1. QED
  BY InvHolds, InvBuilt, PTL
=============================================================================
