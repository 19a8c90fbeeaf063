-------------------------- MODULE ExecutionProofs ---------------------------
(***************************************************************************)
(* What holds of the execution of roles for every set of items and gates,  *)
(* every timeout and any number of faults.  Every step leaves the record   *)
(* run in one of a few shapes; the invariant says of each of them what the *)
(* clock and the gates have allowed, and of the files that what is torn    *)
(* stops Open, so that memory is never behind what was saved.              *)
(***************************************************************************)
EXTENDS Execution, TLAPS

(* Every gate was run, and passed. *)
AllPassed(r) ==
  /\ Len(r.results) = Len(Gates)
  /\ \A n \in DOMAIN r.results : r.results[n] = "zero"

(* A gate is being run: it has no result yet. *)
GateDue(r) == r.pc \in {"gate", "head"} \/ (r.pc = "drain" /\ r.then = "head")

RunOK(r, t) ==
  /\ r \in RunState
  /\ r.now <= t
  /\ Len(r.results) <= Len(Gates)
  /\ r.pc = "write" => r.then \in Saving
  /\ r.pc = "drain" => r.then \in {"ended", "head"}
  /\ r.pc \in {"drain", "head"} => r.exit \in Exit
  /\ r.pc \in InRole => r.until < r.now + 2 * ThreadTimeout
  /\ r.pc = "thread" => t <= r.until
  /\ r.pc = "gate" => t <= r.gateUntil
  /\ GateDue(r) => Len(r.results) < Len(Gates)
  /\ r.pc = "approved" \/ (r.pc = "write" /\ r.then = "approved") =>
       (r.role = "implementer" => AllPassed(r))

StoreOK ==
  /\ known \subseteq Item
  /\ loops \in [Item -> 0 .. 3] /\ saved \in [Item -> 0 .. 3]
  /\ file \in [known : SUBSET Item, loops : [Item -> 0 .. 3]]
  /\ torn \subseteq Kept
  /\ saved = file.loops

Remembered == run.pc # "down" => \A i \in Item : saved[i] <= loops[i]

ExecInv ==
  /\ time \in Moment /\ faults \in 0 .. MaxFaults
  /\ StoreOK
  /\ RunOK(run, time)
  /\ Remembered

USE ExecutionAssumption
-----------------------------------------------------------------------------
(* The shapes a step may leave run in. *)
ToWrite(r, t) == [r EXCEPT !.pc = "write", !.then = t]
ToWriteLeaving(r, t, q) == [r EXCEPT !.pc = "write", !.then = t, !.queue = q]
Returned(r) == [r EXCEPT !.pc = r.then, !.then = "none"]
Queued(r, q) == [r EXCEPT !.queue = q]
Entered(r, i, pc, t, q) == [r EXCEPT !.pc = pc, !.then = t, !.cur = i, !.queue = q]
Started(r, role, u) == [r EXCEPT !.pc = "thread", !.role = role, !.until = u]
Draining(r, exit, t) == [r EXCEPT !.pc = "drain", !.exit = exit, !.then = t]
ThreadEnded(r, st) == [r EXCEPT !.pc = "gates", !.exit = "none", !.status = st]
Completed(r) == [r EXCEPT !.pc = "completed", !.exit = "none"]
GateStarted(r, u) == [r EXCEPT !.pc = "gate", !.gateUntil = u]
NotStarted(r, exit) == [r EXCEPT !.pc = "head", !.exit = exit]
GateEnded(r, s) == [r EXCEPT !.pc = "gates", !.exit = "none", !.results = s]

LEMMA ZeroIsAMoment == 0 \in Moment /\ MaxTime \in Nat /\ ThreadTimeout \in Nat \ {0}
BY DEF Moment

LEMMA AtOK ==
  ASSUME NEW pc \in Pc \ (InRole \cup {"write", "approved"}), NEW now \in Moment,
         NEW first \in BOOLEAN, NEW t \in Moment, now <= t
  PROVE  RunOK(At(pc, now, first), t) /\ At(pc, now, first).pc = pc
<1>1. At(pc, now, first) \in RunState
  BY DEF At, RunState, Then, Saving, Moment
<1>2. /\ At(pc, now, first).pc = pc /\ At(pc, now, first).now = now
      /\ Len(At(pc, now, first).results) = 0
  BY DEF At
<1>3. QED
  BY <1>1, <1>2 DEF RunOK, GateDue, InRole

LEMMA ToWriteOK ==
  ASSUME NEW r, NEW t, RunOK(r, t), NEW then \in Saving,
         then = "approved" /\ r.role = "implementer" => AllPassed(r)
  PROVE  RunOK(ToWrite(r, then), t) /\ ToWrite(r, then).pc = "write"
<1> DEFINE s == ToWrite(r, then)
<1>1. r \in RunState
  BY DEF RunOK
<1>2. s \in RunState
  BY <1>1 DEF RunState, ToWrite, Pc, Then
<1>3. /\ s.pc = "write" /\ s.then = then /\ s.now = r.now
      /\ s.role = r.role /\ s.results = r.results
  BY <1>1 DEF RunState, ToWrite
<1> HIDE DEF s
<1>4. QED
  BY <1>2, <1>3 DEF RunOK, GateDue, InRole, AllPassed, s

LEMMA ToWriteLeavingOK ==
  ASSUME NEW r, NEW t, RunOK(r, t), NEW then \in Saving \ {"approved"},
         NEW q \in SUBSET Item
  PROVE  RunOK(ToWriteLeaving(r, then, q), t) /\ ToWriteLeaving(r, then, q).pc = "write"
<1> DEFINE s == ToWriteLeaving(r, then, q)
<1>1. r \in RunState
  BY DEF RunOK
<1>2. s \in RunState
  BY <1>1 DEF RunState, ToWriteLeaving, Pc, Then
<1>3. /\ s.pc = "write" /\ s.then = then /\ s.now = r.now /\ s.results = r.results
  BY <1>1 DEF RunState, ToWriteLeaving
<1> HIDE DEF s
<1>4. QED
  BY <1>2, <1>3 DEF RunOK, GateDue, InRole, s

LEMMA FromWriteOK ==
  ASSUME NEW r, NEW t, RunOK(r, t), r.pc = "write"
  PROVE  RunOK(Returned(r), t) /\ Returned(r).pc # "down"
<1> DEFINE s == Returned(r)
<1>1. r \in RunState /\ r.then \in Saving
  BY DEF RunOK
<1>2. s \in RunState
  BY <1>1 DEF RunState, Returned, Pc, Then
<1>3. /\ s.pc = r.then /\ s.now = r.now /\ s.role = r.role /\ s.results = r.results
  BY <1>1 DEF RunState, Returned
<1> HIDE DEF s
<1>4. s.pc \notin InRole \cup {"write", "down"}
  BY <1>1, <1>3 DEF Saving, InRole
<1>5. QED
  BY <1>2, <1>3, <1>4 DEF RunOK, GateDue, InRole, AllPassed, s

LEMMA FromDrainOK ==
  ASSUME NEW r, NEW t, RunOK(r, t), r.pc = "drain"
  PROVE  RunOK(Returned(r), t) /\ Returned(r).pc \in {"ended", "head"}
<1> DEFINE s == Returned(r)
<1>1. r \in RunState /\ r.then \in {"ended", "head"} /\ r.exit \in Exit
  BY DEF RunOK
<1>2. s \in RunState
  BY <1>1 DEF RunState, Returned, Pc, Then, InRole
<1>3. /\ s.pc = r.then /\ s.now = r.now /\ s.until = r.until /\ s.exit = r.exit
      /\ s.results = r.results
  BY <1>1 DEF RunState, Returned
<1>4. r.pc \in InRole
  BY DEF InRole
<1> HIDE DEF s
<1>5. QED
  BY <1>1, <1>2, <1>3, <1>4 DEF RunOK, GateDue, s

LEMMA QueuedOK ==
  ASSUME NEW r, NEW t, RunOK(r, t), NEW q \in SUBSET Item
  PROVE  RunOK(Queued(r, q), t) /\ Queued(r, q).pc = r.pc
<1> DEFINE s == Queued(r, q)
<1>1. r \in RunState
  BY DEF RunOK
<1>2. s \in RunState
  BY <1>1 DEF RunState, Queued
<1>3. /\ s.pc = r.pc /\ s.then = r.then /\ s.now = r.now /\ s.role = r.role
      /\ s.until = r.until /\ s.gateUntil = r.gateUntil /\ s.results = r.results
      /\ s.exit = r.exit
  BY <1>1 DEF RunState, Queued
<1> HIDE DEF s
<1>4. QED
  BY <1>2, <1>3 DEF RunOK, GateDue, InRole, AllPassed, s

LEMMA EnteredOK ==
  ASSUME NEW r, NEW t, RunOK(r, t), NEW i \in Item, NEW q \in SUBSET Item,
         NEW pc, NEW then,
         (pc = "write" /\ then = "leg") \/ (pc = "leg" /\ then = "none")
  PROVE  RunOK(Entered(r, i, pc, then, q), t) /\ Entered(r, i, pc, then, q).pc = pc
<1> DEFINE s == Entered(r, i, pc, then, q)
<1>1. r \in RunState
  BY DEF RunOK
<1>2. pc \in Pc /\ then \in Then
  BY DEF Pc, Then, Saving
<1>3. s \in RunState
  BY <1>1, <1>2 DEF RunState, Entered
<1>4. /\ s.pc = pc /\ s.then = then /\ s.now = r.now /\ s.results = r.results
  BY <1>1 DEF RunState, Entered
<1> HIDE DEF s
<1>5. QED
  BY <1>3, <1>4 DEF RunOK, GateDue, InRole, Saving, s

LEMMA StartedOK ==
  ASSUME NEW r, NEW t, RunOK(r, t), NEW role \in {"product", "implementer", "reviewer"},
         NEW u \in Moment, t <= u, u < r.now + 2 * ThreadTimeout
  PROVE  RunOK(Started(r, role, u), t) /\ Started(r, role, u).pc = "thread"
<1> DEFINE s == Started(r, role, u)
<1>1. r \in RunState
  BY DEF RunOK
<1>2. s \in RunState
  BY <1>1 DEF RunState, Started, Pc, InRole
<1>3. /\ s.pc = "thread" /\ s.now = r.now /\ s.until = u /\ s.results = r.results
  BY <1>1 DEF RunState, Started
<1> HIDE DEF s
<1>4. QED
  BY <1>2, <1>3 DEF RunOK, GateDue, s

LEMMA DrainingOK ==
  ASSUME NEW r, NEW t, RunOK(r, t), NEW exit \in Exit, NEW then,
         \/ r.pc = "thread" /\ then = "ended"
         \/ r.pc = "gate" /\ then = "head"
  PROVE  RunOK(Draining(r, exit, then), t) /\ Draining(r, exit, then).pc = "drain"
<1> DEFINE s == Draining(r, exit, then)
<1>1. r \in RunState /\ r.pc \in InRole
  BY DEF RunOK, InRole
<1>2. s \in RunState
  BY <1>1 DEF RunState, Draining, Pc, Then, InRole
<1>3. /\ s.pc = "drain" /\ s.now = r.now /\ s.until = r.until /\ s.results = r.results
      /\ s.exit = exit /\ s.then = then
  BY <1>1 DEF RunState, Draining
<1> HIDE DEF s
<1>4. QED
  BY <1>1, <1>2, <1>3 DEF RunOK, GateDue, s

LEMMA CompletedOK ==
  ASSUME NEW r, NEW t, RunOK(r, t), r.pc = "ended"
  PROVE  RunOK(Completed(r), t) /\ Completed(r).pc = "completed"
<1> DEFINE s == Completed(r)
<1>1. r \in RunState
  BY DEF RunOK
<1>2. s \in RunState
  BY <1>1 DEF RunState, Completed, Pc
<1>3. s.pc = "completed" /\ s.now = r.now /\ s.results = r.results
  BY <1>1 DEF RunState, Completed
<1> HIDE DEF s
<1>4. QED
  BY <1>2, <1>3 DEF RunOK, GateDue, InRole, s

LEMMA ThreadEndedOK ==
  ASSUME NEW r, NEW t, RunOK(r, t), r.pc = "ended", NEW st \in {"completed", "other"}
  PROVE  RunOK(ThreadEnded(r, st), t) /\ ThreadEnded(r, st).pc = "gates"
<1> DEFINE s == ThreadEnded(r, st)
<1>1. r \in RunState
  BY DEF RunOK
<1>2. s \in RunState
  BY <1>1 DEF RunState, ThreadEnded, Pc, InRole
<1>3. /\ s.pc = "gates" /\ s.now = r.now /\ s.until = r.until /\ s.results = r.results
  BY <1>1 DEF RunState, ThreadEnded
<1> HIDE DEF s
<1>4. QED
  BY <1>2, <1>3 DEF RunOK, GateDue, InRole, s

(* One more result, from a gate that was due. *)
LEMMA ResultOK ==
  ASSUME NEW r \in RunState, NEW result \in GateResult, Len(r.results) < Len(Gates)
  PROVE  /\ Append(r.results, result) \in Seq(GateResult)
         /\ Len(Append(r.results, result)) <= Len(Gates)
<1>1. r.results \in Seq(GateResult)
  BY DEF RunState
<1>2. Len(Append(r.results, result)) = Len(r.results) + 1 /\ Len(r.results) \in Nat
  BY <1>1
<1>3. QED
  BY <1>1, <1>2

LEMMA NotStartedOK ==
  ASSUME NEW r, NEW t, RunOK(r, t), r.pc = "gates", Len(r.results) < Len(Gates),
         NEW exit \in Exit
  PROVE  RunOK(NotStarted(r, exit), t) /\ NotStarted(r, exit).pc = "head"
<1> DEFINE s == NotStarted(r, exit)
<1>1. r \in RunState
  BY DEF RunOK
<1>2. s \in RunState
  BY <1>1 DEF RunState, NotStarted, Pc, InRole
<1>3. /\ s.pc = "head" /\ s.now = r.now /\ s.until = r.until /\ s.results = r.results
      /\ s.exit = exit
  BY <1>1 DEF RunState, NotStarted
<1> HIDE DEF s
<1>4. QED
  BY <1>2, <1>3 DEF RunOK, GateDue, InRole, s

LEMMA GateStartedOK ==
  ASSUME NEW r, NEW t, RunOK(r, t), r.pc = "gates", Len(r.results) < Len(Gates),
         NEW u \in Moment, t <= u
  PROVE  RunOK(GateStarted(r, u), t) /\ GateStarted(r, u).pc = "gate"
<1> DEFINE s == GateStarted(r, u)
<1>1. r \in RunState
  BY DEF RunOK
<1>2. s \in RunState
  BY <1>1 DEF RunState, GateStarted, Pc, InRole
<1>3. /\ s.pc = "gate" /\ s.now = r.now /\ s.until = r.until
      /\ s.gateUntil = u /\ s.results = r.results
  BY <1>1 DEF RunState, GateStarted
<1> HIDE DEF s
<1>4. QED
  BY <1>2, <1>3 DEF RunOK, GateDue, InRole, s

LEMMA GateEndedOK ==
  ASSUME NEW r, NEW t, RunOK(r, t), r.pc = "head",
         NEW res \in Seq(GateResult), Len(res) <= Len(Gates)
  PROVE  RunOK(GateEnded(r, res), t) /\ GateEnded(r, res).pc = "gates"
<1> DEFINE s == GateEnded(r, res)
<1>1. r \in RunState
  BY DEF RunOK
<1>2. s \in RunState
  BY <1>1 DEF RunState, GateEnded, Pc, InRole
<1>3. /\ s.pc = "gates" /\ s.now = r.now /\ s.until = r.until /\ s.results = res
  BY <1>1 DEF RunState, GateEnded
<1> HIDE DEF s
<1>4. QED
  BY <1>2, <1>3 DEF RunOK, GateDue, InRole, s
-----------------------------------------------------------------------------
(* What the steps do to run.  The clock stands still in all but Elapse.    *)
LEMMA FailedOK ==
  ASSUME RunOK(run, time), time \in Moment
  PROVE  RunOK(Failed, time) /\ Failed.pc \in {"down", "idle"}
<1>1. run.now \in Moment /\ run.now <= time /\ 0 <= time
  BY ZeroIsAMoment DEF RunOK, RunState, Moment
<1>2. RunOK(At("down", 0, TRUE), time) /\ At("down", 0, TRUE).pc = "down"
  BY <1>1, ZeroIsAMoment, AtOK DEF Pc, Saving, InRole
<1>3. RunOK(At("idle", run.now, FALSE), time) /\ At("idle", run.now, FALSE).pc = "idle"
  BY <1>1, AtOK DEF Pc, Saving, InRole
<1>4. QED
  BY <1>2, <1>3 DEF Failed

LEMMA DownOK ==
  ASSUME time \in Moment
  PROVE  RunOK(At("down", 0, TRUE), time) /\ At("down", 0, TRUE).pc = "down"
<1>1. 0 <= time
  BY ZeroIsAMoment DEF Moment
<1>2. QED
  BY <1>1, ZeroIsAMoment, AtOK DEF Pc, Saving, InRole

LEMMA LeaveOK ==
  ASSUME RunOK(run, time), time \in Moment, Leave
  PROVE  RunOK(run', time) /\ run'.pc = "visit"
<1>1. /\ run.now \in Moment /\ run.now <= time
      /\ run.first \in BOOLEAN /\ run.queue \in SUBSET Item
  BY DEF RunOK, RunState
<1>2. /\ RunOK(At("visit", run.now, run.first), time)
      /\ At("visit", run.now, run.first).pc = "visit"
  BY <1>1, AtOK DEF Pc, Saving, InRole
<1>3. run' = Queued(At("visit", run.now, run.first), run.queue)
  BY DEF Leave, Queued
<1>4. QED
  BY <1>1, <1>2, <1>3, QueuedOK

(* A role starts early enough in its tick for its deadline. *)
LEMMA ExecuteOK ==
  ASSUME RunOK(run, time), time \in Moment,
         NEW i, NEW role \in {"product", "implementer", "reviewer"}, Execute(i, role)
  PROVE  RunOK(run', time)
<1>1. time \in Nat /\ run.now \in Nat /\ time < MaxTime
  BY DEF RunOK, RunState, Moment, Execute
<1>2. CASE Starts(i)
  <2>1. run' = Started(run, role, time + ThreadTimeout)
    BY <1>2 DEF Execute, Started
  <2>2. time + ThreadTimeout \in Moment /\ time <= time + ThreadTimeout
    BY <1>1, ZeroIsAMoment DEF Moment
  <2>3. time + ThreadTimeout < run.now + 2 * ThreadTimeout
    BY <1>1, <1>2, ZeroIsAMoment DEF Starts
  <2>4. QED
    BY <2>1, <2>2, <2>3, StartedOK
<1>3. CASE ~Starts(i)
  BY <1>3, FailedOK DEF Execute
<1>4. QED
  BY <1>2, <1>3

LEMMA SaveOK ==
  ASSUME RunOK(run, time), NEW i, NEW n, NEW then \in Saving \ {"approved"},
         SaveLoop(i, n, then)
  PROVE  RunOK(run', time) /\ run'.pc = "write"
<1>1. run' = ToWrite(run, then)
  BY DEF SaveLoop, Truncate, ToWrite
<1>2. QED
  BY <1>1, ToWriteOK

(* An implementer is approved when none of the gates that ran failed, and  *)
(* all of them ran.                                                        *)
LEMMA RoleEndsOK ==
  ASSUME RunOK(run, time), RoleEnds
  PROVE  RunOK(run', time) /\ run'.pc = "write"
<1> DEFINE then == IF Approved THEN "approved" ELSE "refused"
<1>1. run' = ToWrite(run, then)
  BY DEF RoleEnds, SaveLoop, Truncate, ToWrite
<1>2. then = "approved" /\ run.role = "implementer" => AllPassed(run)
  BY DEF Approved, FailedGates, AllPassed, RoleEnds
<1>3. then \in Saving
  BY DEF Saving
<1> HIDE DEF then
<1>4. QED
  BY <1>1, <1>2, <1>3, ToWriteOK

LEMMA GateStartsOK ==
  ASSUME RunOK(run, time), time \in Moment, GateStarts
  PROVE  RunOK(run', time) /\ run'.pc # "down"
<1>1. /\ run \in RunState /\ run.pc = "gates" /\ Len(run.results) < Len(Gates)
      /\ time \in Nat /\ run.until \in Moment /\ run.until \in Nat
      /\ GateTimeout \in Nat
  BY DEF GateStarts, RunOK, RunState, Moment
<1>2. CASE ~(time < run.until)
  <2>1. run' = NotStarted(run, "expired")
    BY <1>2 DEF GateStarts, NotStarted
  <2>2. QED
    BY <1>1, <2>1, NotStartedOK DEF Exit, GateResult
<1>3. CASE time < run.until
  <2> DEFINE u == Sooner(run.until, time + GateTimeout)
  <2>1. run' = GateStarted(run, u)
    BY <1>3 DEF GateStarts, GateStarted
  <2>2. time <= u /\ u \in Moment
    BY <1>1, <1>3, ZeroIsAMoment DEF Sooner, Moment
  <2> HIDE DEF u
  <2>3. QED
    BY <1>1, <2>1, <2>2, GateStartedOK
<1>4. QED
  BY <1>2, <1>3

LEMMA GateEndsOK ==
  ASSUME RunOK(run, time), time \in Moment, GateEnds
  PROVE  RunOK(run', time)
<1>1. /\ run \in RunState /\ Len(run.results) < Len(Gates)
      /\ run.pc = "head" /\ run.exit \in Exit
  BY DEF RunOK, GateEnds, GateDue
<1>2. CASE run.exit = "killed"
  BY <1>2, FailedOK DEF GateEnds, Fail
<1>3. CASE run.exit # "killed"
  <2>1. run' = GateEnded(run, Append(run.results, run.exit)) /\ run.exit \in GateResult
    BY <1>1, <1>3 DEF GateEnds, GateEnded, Exit
  <2>2. QED
    BY <1>1, <2>1, ResultOK, GateEndedOK
<1>4. QED
  BY <1>2, <1>3

(* The process ends; Run has not returned. *)
LEMMA DrainOK ==
  ASSUME RunOK(run, time), run.pc \in {"thread", "gate"}, NEW exit \in Exit, Drain(exit)
  PROVE  RunOK(run', time) /\ run'.pc = "drain"
<1> DEFINE then == IF run.pc = "thread" THEN "ended" ELSE "head"
<1>1. run' = Draining(run, exit, then)
  BY DEF Drain, Draining
<1>2. \/ run.pc = "thread" /\ then = "ended"
      \/ run.pc = "gate" /\ then = "head"
  OBVIOUS
<1> HIDE DEF then
<1>3. QED
  BY <1>1, <1>2, DrainingOK

(* Time passes a living process by only up to its deadline. *)
LEMMA ElapseOK ==
  ASSUME RunOK(run, time), time \in Moment, Elapse
  PROVE  time' \in Moment /\ run' = run /\ RunOK(run, time')
<1>1. /\ run \in RunState /\ time \in Nat /\ time' = time + 1 /\ run' = run
      /\ run.now \in Nat /\ run.until \in Nat /\ run.gateUntil \in Nat
      /\ run.until \in Moment /\ run.gateUntil \in Moment /\ run.now <= time
  BY DEF RunOK, RunState, Moment, Elapse
<1>2. CASE run.pc \in Waiting /\ time < MaxTime
  <2>1. run.pc \notin {"thread", "gate"}
    BY <1>2 DEF Waiting
  <2>2. time + 1 \in Moment /\ run.now <= time + 1
    BY <1>1, <1>2, ZeroIsAMoment DEF Moment
  <2>3. QED
    BY <1>1, <2>1, <2>2 DEF RunOK
<1>3. CASE run.pc = "thread" /\ time < Limit
  <2>1. time + 1 <= run.until /\ run.now <= time + 1
    BY <1>1, <1>3 DEF Limit
  <2>2. time + 1 \in Moment
    BY <1>1, <2>1, ZeroIsAMoment DEF Moment
  <2>3. QED
    BY <1>1, <1>3, <2>1, <2>2 DEF RunOK
<1>4. CASE run.pc = "gate" /\ time < Limit
  <2>1. time + 1 <= run.gateUntil /\ run.now <= time + 1
    BY <1>1, <1>4 DEF Limit
  <2>2. time + 1 \in Moment
    BY <1>1, <2>1, ZeroIsAMoment DEF Moment
  <2>3. QED
    BY <1>1, <1>4, <2>1, <2>2 DEF RunOK
<1>5. QED
  BY <1>2, <1>3, <1>4 DEF Elapse
-----------------------------------------------------------------------------
(* What the steps do to the files.  Only Written changes what is saved, and *)
(* only Open what is known without a file.                                 *)
LEMMA Assembled ==
  ASSUME ExecInv,
         time' \in Moment, faults' \in 0 .. MaxFaults, RunOK(run', time'),
         run.pc = "down" => run'.pc = "down",
         known' \subseteq Item, torn' \subseteq Kept,
         loops' \in [Item -> 0 .. 3], \A i \in Item : loops[i] <= loops'[i],
         file' = file, saved' = saved
  PROVE  ExecInv'
<1>1. StoreOK'
  BY DEF ExecInv, StoreOK
<1>2. ASSUME run'.pc # "down", NEW i \in Item PROVE saved'[i] <= loops'[i]
  <2>1. saved[i] <= loops[i] /\ loops[i] <= loops'[i]
    BY <1>2 DEF ExecInv, Remembered
  <2>2. saved[i] \in Nat /\ loops[i] \in Nat /\ loops'[i] \in Nat
    BY DEF ExecInv, StoreOK
  <2>3. QED
    BY <2>1, <2>2
<1>3. QED
  BY <1>1, <1>2 DEF ExecInv, Remembered

LEMMA MemoryStays ==
  ASSUME ExecInv, loops' = loops
  PROVE  loops' \in [Item -> 0 .. 3] /\ \A i \in Item : loops[i] <= loops'[i]
<1>1. \A i \in Item : loops[i] \in Nat
  BY DEF ExecInv, StoreOK
<1>2. QED
  BY <1>1 DEF ExecInv, StoreOK

(* The steps that touch neither memory nor disk. *)
LEMMA NothingStored ==
  ASSUME ExecInv, UNCHANGED <<memory, disk>>, time' = time, faults' \in 0 .. MaxFaults,
         RunOK(run', time), run.pc # "down"
  PROVE  ExecInv'
<1>1. known' = known /\ loops' = loops /\ file' = file /\ torn' = torn /\ saved' = saved
  BY DEF memory, disk
<1>2. QED
  BY <1>1, Assembled, MemoryStays DEF ExecInv, StoreOK

(* A record that is saved never falls behind what it was. *)
LEMMA LoopsGrow ==
  ASSUME ExecInv, NEW c, NEW n \in 0 .. 3, c \in Item => loops[c] <= n,
         loops' = [loops EXCEPT ![c] = n]
  PROVE  loops' \in [Item -> 0 .. 3] /\ \A i \in Item : loops[i] <= loops'[i]
<1>1. loops \in [Item -> 0 .. 3]
  BY DEF ExecInv, StoreOK
<1>2. loops' \in [Item -> 0 .. 3]
  BY <1>1
<1>3. ASSUME NEW i \in Item PROVE loops[i] <= loops'[i]
  <2>1. loops[i] \in Nat
    BY <1>1
  <2>2. CASE i = c
    BY <2>2, <1>1
  <2>3. CASE i # c
    BY <2>1, <2>3, <1>1
  <2>4. QED
    BY <2>2, <2>3
<1>4. QED
  BY <1>2, <1>3

LEMMA SavingKeeps ==
  ASSUME ExecInv, NEW c, NEW n \in 0 .. 3, c \in Item => loops[c] <= n,
         NEW pc, SaveLoop(c, n, pc), RunOK(run', time), run.pc # "down",
         UNCHANGED <<time, known, faults>>
  PROVE  ExecInv'
<1>1. /\ loops' = [loops EXCEPT ![c] = n] /\ torn' = torn \cup {"loops"}
      /\ file' = file /\ saved' = saved
  BY DEF SaveLoop, Truncate
<1>2. loops' \in [Item -> 0 .. 3] /\ \A i \in Item : loops[i] <= loops'[i]
  BY <1>1, LoopsGrow
<1>3. torn' \subseteq Kept
  BY <1>1 DEF ExecInv, StoreOK, Kept
<1>4. QED
  BY <1>1, <1>2, <1>3, Assembled DEF ExecInv, StoreOK

(* The same with the record of the item as it is. *)
LEMMA SavingAgainKeeps ==
  ASSUME ExecInv, NEW c, NEW pc, SaveLoop(c, loops[c], pc), RunOK(run', time),
         run.pc # "down", UNCHANGED <<time, known, faults>>
  PROVE  ExecInv'
<1>1. loops' = loops
  BY DEF SaveLoop, ExecInv, StoreOK
<1>2. torn' \subseteq Kept /\ file' = file /\ saved' = saved
  BY DEF SaveLoop, Truncate, ExecInv, StoreOK, Kept
<1>3. QED
  BY <1>1, <1>2, MemoryStays, Assembled DEF ExecInv, StoreOK
-----------------------------------------------------------------------------
LEMMA ExecInvInit == Init => ExecInv
<1>1. SUFFICES ASSUME Init PROVE ExecInv
  OBVIOUS
<1>2. /\ time = 0 /\ known = {} /\ torn = {} /\ faults = 0
      /\ loops = [i \in Item |-> 0] /\ file = [known |-> {}, loops |-> loops]
      /\ saved = loops /\ run = At("down", 0, TRUE)
  BY <1>1 DEF Init
<1>3. RunOK(run, time) /\ run.pc = "down" /\ time \in Moment
  BY <1>2, ZeroIsAMoment, DownOK
<1>4. StoreOK
  BY <1>2 DEF StoreOK
<1>5. faults \in 0 .. MaxFaults
  BY <1>2
<1>6. QED
  BY <1>3, <1>4, <1>5 DEF ExecInv, Remembered

(* Open takes both files for what they are, or does not start. *)
LEMMA OpenKeeps ==
  ASSUME ExecInv, Open
  PROVE  ExecInv'
<1>1. time' = time /\ faults' = faults /\ file' = file /\ torn' = torn /\ saved' = saved
  BY DEF Open, disk
<1>2. CASE Readable
  <2>1. known' = file.known /\ loops' = file.loops /\ run' = At("idle", time, TRUE)
    BY <1>2 DEF Open, Readable
  <2>2. StoreOK'
    BY <1>1, <2>1 DEF ExecInv, StoreOK
  <2>3. RunOK(run', time')
    <3>1. time <= time
      BY DEF ExecInv, Moment
    <3>2. QED
      BY <1>1, <2>1, <3>1, AtOK DEF ExecInv, Pc, Saving, InRole
  <2>4. saved' = loops' /\ \A i \in Item : loops'[i] \in Nat
    BY <1>1, <2>1 DEF ExecInv, StoreOK
  <2>5. \A i \in Item : saved'[i] <= loops'[i]
    BY <2>4
  <2>6. QED
    BY <1>1, <2>2, <2>3, <2>5 DEF ExecInv, Remembered
<1>3. CASE ~Readable
  <2>1. known' = known /\ loops' = loops /\ run' = run
    BY <1>3 DEF Open, memory
  <2>2. QED
    BY <1>1, <2>1, MemoryStays, Assembled DEF ExecInv, StoreOK
<1>4. QED
  BY <1>2, <1>3

(* What is saved is what is in memory. *)
LEMMA WrittenKeeps ==
  ASSUME ExecInv, Written
  PROVE  ExecInv'
<1>1. time' = time /\ faults' = faults /\ known' = known /\ loops' = loops
      /\ run.pc = "write" /\ run' = Returned(run)
  BY DEF Written, memory, Returned
<1>2. RunOK(run', time')
  BY <1>1, FromWriteOK DEF ExecInv
<1>3. CASE run.then = "visit"
  <2>1. file' = [file EXCEPT !.known = known] /\ torn' = torn \ {"known"} /\ saved' = saved
    BY <1>3 DEF Written
  <2>2. file'.loops = file.loops
        /\ file' \in [known : SUBSET Item, loops : [Item -> 0 .. 3]]
    BY <2>1 DEF ExecInv, StoreOK
  <2>3. StoreOK'
    BY <1>1, <2>1, <2>2 DEF ExecInv, StoreOK
  <2>4. Remembered'
    BY <1>1, <2>1 DEF ExecInv, Remembered
  <2>5. QED
    BY <1>1, <1>2, <2>3, <2>4 DEF ExecInv
<1>4. CASE run.then # "visit"
  <2>1. file' = [file EXCEPT !.loops = loops] /\ torn' = torn \ {"loops"} /\ saved' = loops
    BY <1>4 DEF Written
  <2>2. file'.loops = loops
        /\ file' \in [known : SUBSET Item, loops : [Item -> 0 .. 3]]
    BY <2>1 DEF ExecInv, StoreOK
  <2>3. StoreOK'
    BY <1>1, <2>1, <2>2 DEF ExecInv, StoreOK
  <2>4. \A i \in Item : loops[i] \in Nat
    BY DEF ExecInv, StoreOK
  <2>5. Remembered'
    BY <1>1, <2>1, <2>4 DEF Remembered
  <2>6. QED
    BY <1>1, <1>2, <2>3, <2>5 DEF ExecInv
<1>5. QED
  BY <1>3, <1>4

LEMMA FaultCounts == ExecInv /\ Fault => faults' \in 0 .. MaxFaults
BY DEF ExecInv, Fault

(* The steps of a tick before it comes to an item. *)
LEMMA TickKeeps ==
  ASSUME ExecInv, BeginTick \/ PersistKnown \/ EndTick \/ \E i \in Item : Intake(i)
  PROVE  ExecInv'
<1>1. /\ RunOK(run, time) /\ time \in Moment /\ faults \in 0 .. MaxFaults
      /\ known \subseteq Item /\ torn \subseteq Kept
  BY DEF ExecInv, StoreOK
<1>2. /\ run.now \in Moment /\ run.now \in Nat /\ run.now <= time /\ time \in Nat
      /\ run.queue \in SUBSET Item /\ run.first \in BOOLEAN
  BY <1>1 DEF RunOK, RunState, Moment
<1>3. CASE BeginTick
  <2>1. PICK now \in run.now .. time, polled \in SUBSET (Item \ known) :
          run' = [At("intake", now, run.first) EXCEPT !.queue = polled]
    BY <1>3 DEF BeginTick
  <2>2. now \in Moment /\ now <= time /\ polled \in SUBSET Item
    BY <1>1, <1>2 DEF Moment
  <2>3. RunOK(At("intake", now, run.first), time)
    BY <1>1, <1>2, <2>2, AtOK DEF Pc, Saving, InRole
  <2>4. run' = Queued(At("intake", now, run.first), polled)
    BY <2>1 DEF Queued
  <2>5. RunOK(run', time)
    BY <2>2, <2>3, <2>4, QueuedOK
  <2>6. QED
    BY <1>1, <1>3, <2>5, NothingStored DEF BeginTick
<1>4. CASE PersistKnown
  <2>1. /\ run' = ToWriteLeaving(run, "visit", known) /\ torn' = torn \cup {"known"}
        /\ run.pc = "intake"
        /\ UNCHANGED <<time, memory, file, saved, faults>>
    BY <1>4 DEF PersistKnown, ToWriteLeaving
  <2>2. RunOK(run', time)
    BY <1>1, <2>1, ToWriteLeavingOK DEF Saving
  <2>3. known' = known /\ loops' = loops /\ torn' \subseteq Kept
    BY <1>1, <2>1 DEF memory, Kept
  <2>4. QED
    BY <1>1, <2>1, <2>2, <2>3, MemoryStays, Assembled
<1>5. CASE EndTick
  <2>1. RunOK(At("idle", run.now, FALSE), time)
    BY <1>1, <1>2, AtOK DEF Pc, Saving, InRole
  <2>2. QED
    BY <1>1, <1>5, <2>1, NothingStored DEF EndTick
<1>6. ASSUME NEW i \in Item, Intake(i) PROVE ExecInv'
  <2>1. /\ run.pc = "intake" /\ known' = known \cup {i} /\ known' \subseteq Item
        /\ time' = time /\ faults' = faults /\ file' = file /\ saved' = saved
    BY <1>1, <1>6 DEF Intake
  <2>2. CASE /\ loops[i] = 0
             /\ loops' = [loops EXCEPT ![i] = 1] /\ torn' = torn \cup {"loops"}
             /\ run' = ToWriteLeaving(run, "intake", run.queue \ {i})
    <3>1. /\ loops' = [loops EXCEPT ![i] = 1] /\ torn' = torn \cup {"loops"}
          /\ run' = ToWriteLeaving(run, "intake", run.queue \ {i})
      BY <2>2
    <3>2. RunOK(run', time)
      BY <1>1, <1>2, <3>1, ToWriteLeavingOK DEF Saving
    <3>3. loops' \in [Item -> 0 .. 3] /\ \A j \in Item : loops[j] <= loops'[j]
      <4>1. 1 \in 0 .. 3 /\ loops[i] <= 1
        BY <2>2
      <4>2. QED
        BY <3>1, <4>1, LoopsGrow
    <3>4. torn' \subseteq Kept
      BY <1>1, <3>1 DEF Kept
    <3>5. QED
      BY <1>1, <2>1, <3>2, <3>3, <3>4, Assembled
  <2>3. CASE run' = Queued(run, run.queue \ {i}) /\ UNCHANGED <<loops, torn>>
    <3>1. RunOK(run', time)
      BY <1>1, <1>2, <2>3, QueuedOK
    <3>2. QED
      BY <1>1, <2>1, <2>3, <3>1, MemoryStays, Assembled
  <2>4. QED
    BY <1>6, <2>2, <2>3 DEF Intake, ToWriteLeaving, Queued
<1>7. QED
  BY <1>3, <1>4, <1>5, <1>6

LEMMA VisitKeeps ==
  ASSUME ExecInv, Visit
  PROVE  ExecInv'
<1>1. /\ RunOK(run, time) /\ time \in Moment /\ faults \in 0 .. MaxFaults
      /\ known \subseteq Item /\ torn \subseteq Kept
      /\ run.queue \in SUBSET Item
  BY DEF ExecInv, StoreOK, RunOK, RunState
<1>2. /\ run.pc = "visit" /\ known' = known /\ time' = time /\ faults' = faults
      /\ file' = file /\ saved' = saved
  BY DEF Visit
<1>3. PICK i \in run.queue :
        \/ run' = Queued(run, run.queue \ {i}) /\ UNCHANGED <<loops, torn>>
        \/ /\ loops[i] < 2 /\ loops' = [loops EXCEPT ![i] = 2]
           /\ torn' = torn \cup {"loops"}
           /\ run' = Entered(run, i, "write", "leg", run.queue \ {i})
        \/ /\ run' = Entered(run, i, "leg", "none", run.queue \ {i})
           /\ UNCHANGED <<loops, torn>>
  BY DEF Visit, Into, Queued, Entered
<1>4. i \in Item /\ run.queue \ {i} \in SUBSET Item
  BY <1>1
<1>5. RunOK(run', time)
  <2>1. RunOK(Queued(run, run.queue \ {i}), time)
    BY <1>1, <1>4, QueuedOK
  <2>2. RunOK(Entered(run, i, "write", "leg", run.queue \ {i}), time)
    BY <1>1, <1>4, EnteredOK
  <2>3. RunOK(Entered(run, i, "leg", "none", run.queue \ {i}), time)
    BY <1>1, <1>4, EnteredOK
  <2>4. QED
    BY <1>3, <2>1, <2>2, <2>3
<1>6. CASE UNCHANGED <<loops, torn>>
  BY <1>1, <1>2, <1>5, <1>6, MemoryStays, Assembled
<1>7. CASE loops[i] < 2 /\ loops' = [loops EXCEPT ![i] = 2] /\ torn' = torn \cup {"loops"}
  <2>1. loops' \in [Item -> 0 .. 3] /\ \A j \in Item : loops[j] <= loops'[j]
    <3>1. loops \in [Item -> 0 .. 3]
      BY DEF ExecInv, StoreOK
    <3>2. 2 \in 0 .. 3 /\ loops[i] <= 2
      BY <3>1, <1>4, <1>7
    <3>3. QED
      BY <3>2, <1>7, LoopsGrow
  <2>2. torn' \subseteq Kept
    BY <1>1, <1>7 DEF Kept
  <2>3. QED
    BY <1>1, <1>2, <1>5, <2>1, <2>2, Assembled
<1>8. QED
  BY <1>3, <1>6, <1>7

(* The steps of a role in which nothing is stored. *)
RoleStep ==
  \/ Leg \/ GoOn \/ AfterFeed \/ GateStarts \/ GateMissing \/ GateEnds
  \/ TimesOut \/ Drained \/ ThreadFails \/ ProductCompletes
  \/ \E exit \in {"zero", "nonzero", "killed"} : Exits(exit)
  \/ \E st \in {"completed", "other"} : ThreadEnds(st)

LEMMA RoleStepOK ==
  ASSUME ExecInv, RoleStep
  PROVE  /\ UNCHANGED <<memory, disk>> /\ time' = time /\ faults' = faults
         /\ run.pc \notin {"down", "write", "completed"}
         /\ RunOK(run', time)
<1>1. RunOK(run, time) /\ time \in Moment
  BY DEF ExecInv
<1>2. CASE Leg
  BY <1>1, <1>2, ExecuteOK, LeaveOK DEF Leg
<1>3. CASE GoOn
  BY <1>1, <1>3, ExecuteOK, LeaveOK DEF GoOn
<1>4. CASE AfterFeed
  BY <1>1, <1>4, LeaveOK DEF AfterFeed
<1>5. CASE GateStarts
  BY <1>1, <1>5, GateStartsOK DEF GateStarts
<1>6. CASE GateMissing
  <2>1. run' = NotStarted(run, "missing") /\ run.pc = "gates" /\ Len(run.results) < Len(Gates)
    BY <1>6 DEF GateMissing, NotStarted
  <2>2. RunOK(run', time)
    BY <1>1, <2>1, NotStartedOK DEF Exit, GateResult
  <2>3. QED
    BY <1>6, <2>2 DEF GateMissing
<1>7. CASE GateEnds
  BY <1>1, <1>7, GateEndsOK DEF GateEnds
<1>8. CASE TimesOut
  BY <1>1, <1>8, DrainOK DEF TimesOut, Exit
<1>9. CASE Drained
  <2>1. run' = Returned(run) /\ run.pc = "drain"
    BY <1>9 DEF Drained, Returned
  <2>2. RunOK(run', time)
    BY <1>1, <2>1, FromDrainOK
  <2>3. QED
    BY <1>9, <2>2 DEF Drained
<1>10. CASE ThreadFails
  BY <1>1, <1>10, FailedOK DEF ThreadFails, Fail
<1>11. CASE ProductCompletes
  <2>1. run' = Completed(run) /\ run.pc = "ended"
    BY <1>11 DEF ProductCompletes, Completed
  <2>2. RunOK(run', time)
    BY <1>1, <2>1, CompletedOK
  <2>3. QED
    BY <1>11, <2>2 DEF ProductCompletes
<1>12. ASSUME NEW exit \in {"zero", "nonzero", "killed"}, Exits(exit)
       PROVE  /\ UNCHANGED <<memory, disk>> /\ time' = time /\ faults' = faults
              /\ run.pc \notin {"down", "write", "completed"}
              /\ RunOK(run', time)
  <2>1. exit \in Exit
    BY <1>12 DEF Exit, GateResult
  <2>2. QED
    BY <1>1, <1>12, <2>1, DrainOK DEF Exits
<1>13. ASSUME NEW st \in {"completed", "other"}, ThreadEnds(st)
       PROVE  /\ UNCHANGED <<memory, disk>> /\ time' = time /\ faults' = faults
              /\ run.pc \notin {"down", "write", "completed"}
              /\ RunOK(run', time)
  <2>1. run' = ThreadEnded(run, st) /\ run.pc = "ended"
    BY <1>13 DEF ThreadEnds, ThreadEnded
  <2>2. RunOK(run', time)
    BY <1>1, <2>1, ThreadEndedOK
  <2>3. QED
    BY <1>13, <2>2 DEF ThreadEnds
<1>14. QED
  BY <1>2, <1>3, <1>4, <1>5, <1>6, <1>7, <1>8, <1>9, <1>10, <1>11, <1>12, <1>13
     DEF RoleStep

LEMMA RoleKeeps == ExecInv /\ RoleStep => ExecInv'
<1>1. SUFFICES ASSUME ExecInv, RoleStep PROVE ExecInv'
  OBVIOUS
<1>2. faults \in 0 .. MaxFaults
  BY <1>1 DEF ExecInv
<1>3. QED
  BY <1>1, <1>2, RoleStepOK, NothingStored

LEMMA FaultKeeps ==
  ASSUME ExecInv, WriteFails \/ Crash
  PROVE  ExecInv'
<1>1. RunOK(run, time) /\ time \in Moment
  BY DEF ExecInv
<1>2. UNCHANGED <<memory, disk>> /\ time' = time /\ Fault /\ run.pc # "down"
  BY DEF WriteFails, Crash
<1>3. RunOK(run', time)
  <2>1. CASE WriteFails
    BY <1>1, <2>1, FailedOK DEF WriteFails, Fail
  <2>2. CASE Crash
    BY <1>1, <2>2, DownOK DEF Crash
  <2>3. QED
    BY <2>1, <2>2
<1>4. QED
  BY <1>1, <1>2, <1>3, FaultCounts, NothingStored

(* The steps that save the record of an item. *)
LEMMA SaveKeeps ==
  ASSUME ExecInv, ProductEnds \/ FeedSpecReady \/ RoleEnds
  PROVE  ExecInv'
<1>1. RunOK(run, time)
  BY DEF ExecInv
<1>2. CASE ProductEnds
  <2>1. /\ SaveLoop(run.cur, 3, "feed") /\ run.pc = "completed"
        /\ UNCHANGED <<time, known, faults>>
    BY <1>2 DEF ProductEnds
  <2>2. \A c \in Item : loops[c] <= 3
    <3>1. loops \in [Item -> 0 .. 3]
      BY DEF ExecInv, StoreOK
    <3>2. QED
      BY <3>1
  <2>3. 3 \in 0 .. 3
    OBVIOUS
  <2>4. RunOK(run', time)
    BY <1>1, <2>1, SaveOK DEF Saving
  <2>5. QED
    BY <2>1, <2>2, <2>3, <2>4, SavingKeeps
<1>3. CASE FeedSpecReady
  <2>1. /\ SaveLoop(run.cur, loops[run.cur], "next") /\ run.pc = "feed"
        /\ UNCHANGED <<time, known, faults>>
    BY <1>3 DEF FeedSpecReady
  <2>2. RunOK(run', time)
    BY <1>1, <2>1, SaveOK DEF Saving
  <2>3. QED
    BY <2>1, <2>2, SavingAgainKeeps
<1>4. CASE RoleEnds
  <2>1. RunOK(run', time) /\ run.pc = "gates" /\ UNCHANGED <<time, known, faults>>
    BY <1>1, <1>4, RoleEndsOK DEF RoleEnds
  <2>2. QED
    BY <1>4, <2>1, SavingAgainKeeps DEF RoleEnds
<1>5. QED
  BY <1>2, <1>3, <1>4

LEMMA ElapseKeeps ==
  ASSUME ExecInv, Elapse
  PROVE  ExecInv'
<1>1. time' \in Moment /\ run' = run /\ RunOK(run', time')
  BY ElapseOK DEF ExecInv
<1>2. /\ known' = known /\ loops' = loops /\ file' = file /\ torn' = torn
      /\ saved' = saved /\ faults' = faults
  BY DEF Elapse, memory, disk
<1>3. QED
  BY <1>1, <1>2, MemoryStays, Assembled DEF ExecInv, StoreOK

LEMMA ExecInvNext == ExecInv /\ [Next]_vars => ExecInv'
<1>1. SUFFICES ASSUME ExecInv, [Next]_vars PROVE ExecInv'
  OBVIOUS
<1>2. CASE UNCHANGED vars
  BY <1>1, <1>2 DEF vars, ExecInv, StoreOK, Remembered
<1>3. CASE Open \/ Written
  BY <1>1, <1>3, OpenKeeps, WrittenKeeps
<1>4. CASE BeginTick \/ PersistKnown \/ EndTick \/ \E i \in Item : Intake(i)
  BY <1>1, <1>4, TickKeeps
<1>5. CASE Visit
  BY <1>1, <1>5, VisitKeeps
<1>6. CASE RoleStep
  BY <1>1, <1>6, RoleKeeps
<1>7. CASE WriteFails \/ Crash
  BY <1>1, <1>7, FaultKeeps
<1>8. CASE ProductEnds \/ FeedSpecReady \/ RoleEnds
  BY <1>1, <1>8, SaveKeeps
<1>9. CASE Elapse
  BY <1>1, <1>9, ElapseKeeps
<1>10. QED
  BY <1>1, <1>2, <1>3, <1>4, <1>5, <1>6, <1>7, <1>8, <1>9 DEF Next, Proceed, RoleStep
-----------------------------------------------------------------------------
(* The clock, the gates and the files keep to the invariant, from which the *)
(* theorems about the execution of roles follow.                           *)
THEOREM ExecutionSound == Spec => []ExecInv
<1>1. QED
  BY ExecInvInit, ExecInvNext, PTL DEF Spec

(* Every reachable state is well typed, and no gate of an adapter is run   *)
(* twice by one ExecuteRole.                                               *)
THEOREM ExecutionTypeCorrect == Spec => []TypeOK
<1>1. ExecInv => TypeOK
  BY DEF ExecInv, StoreOK, RunOK, TypeOK
<1>2. QED
  BY <1>1, ExecutionSound, PTL

(* A daemon that Open let start knows every record saveLoop reported as    *)
(* saved, wherever in a write it was killed before.                        *)
THEOREM RecordsRemembered == Spec => []NothingForgotten
<1>1. ExecInv => NothingForgotten
  BY DEF ExecInv, Remembered, NothingForgotten
<1>2. QED
  BY <1>1, ExecutionSound, PTL

(* A process runs after a step as before it, or it was started in time. *)
LEMMA StartInTime ==
  ASSUME ExecInv, [Next]_vars, run'.pc \in {"thread", "gate"}, run'.pc # run.pc
  PROVE  time < run.now + 2 * ThreadTimeout
<1>1. /\ time \in Nat /\ run.now \in Nat /\ run.until \in Nat
      /\ RunOK(run, time) /\ run \in RunState /\ ThreadTimeout \in Nat
  BY ZeroIsAMoment DEF ExecInv, RunOK, RunState, Moment
<1>2. ASSUME NEW role, Execute(run.cur, role) PROVE time < run.now + 2 * ThreadTimeout
  <2>1. Failed.pc \in {"down", "idle"}
    BY DEF Failed, At
  <2>2. Starts(run.cur)
    BY <1>2, <2>1 DEF Execute
  <2>3. QED
    BY <1>1, <2>2 DEF Starts
<1>3. CASE GateStarts
  <2>1. run.until < run.now + 2 * ThreadTimeout
    BY <1>1, <1>3 DEF GateStarts, RunOK, InRole
  <2>2. CASE time < run.until
    BY <1>1, <2>1, <2>2
  <2>3. CASE ~(time < run.until)
    BY <1>1, <1>3, <2>3 DEF GateStarts, RunState
  <2>4. QED
    BY <2>2, <2>3
<1>4. ~Leave /\ ~Fail
  BY DEF Leave, Fail, Failed, At
<1>5. CASE Leg \/ GoOn
  BY <1>2, <1>4, <1>5 DEF Leg, GoOn
<1>6. CASE Written
  <2>1. run.pc = "write" /\ run.then \in Saving /\ run' = Returned(run)
    BY <1>1, <1>6 DEF Written, RunOK, Returned
  <2>2. run'.pc = run.then
    BY <1>1, <2>1 DEF Returned, RunState
  <2>3. QED
    BY <2>1, <2>2 DEF Saving
<1>7. CASE Drained
  <2>1. run.pc = "drain" /\ run' = Returned(run)
    BY <1>7 DEF Drained, Returned
  <2>2. run'.pc \in {"ended", "head"}
    BY <1>1, <2>1, FromDrainOK
  <2>3. QED
    BY <2>2
<1>8. CASE Open \/ BeginTick \/ EndTick \/ Crash
  <2>1. CASE Open \/ EndTick \/ Crash
    BY <2>1 DEF Open, EndTick, Crash, At
  <2>2. CASE BeginTick
    <3>1. PICK now \in run.now .. time, polled \in SUBSET (Item \ known) :
            run' = [At("intake", now, run.first) EXCEPT !.queue = polled]
      BY <2>2 DEF BeginTick
    <3>2. run'.pc = "intake"
      BY <3>1 DEF At
    <3>3. QED
      BY <3>2
  <2>3. QED
    BY <1>8, <2>1, <2>2
<1>9. CASE PersistKnown \/ Visit \/ \E i \in Item : Intake(i)
  <2>1. CASE PersistKnown
    BY <1>1, <2>1 DEF PersistKnown, RunState
  <2>2. CASE \E i \in Item : Intake(i)
    BY <1>1, <2>2 DEF Intake, RunState
  <2>3. CASE Visit
    <3>1. PICK i \in run.queue :
            \/ run' = [run EXCEPT !.queue = run.queue \ {i}]
            \/ Into(i, "write", "leg")
            \/ Into(i, "leg", "none")
      BY <2>3 DEF Visit
    <3>2. QED
      BY <1>1, <2>3, <3>1 DEF Visit, Into, RunState
  <2>4. QED
    BY <1>9, <2>1, <2>2, <2>3
<1>10. CASE ProductEnds \/ FeedSpecReady \/ RoleEnds
  BY <1>1, <1>10 DEF ProductEnds, FeedSpecReady, RoleEnds, SaveLoop, Truncate, RunState
<1>11. CASE AfterFeed \/ ThreadFails \/ WriteFails
  BY <1>4, <1>11 DEF AfterFeed, ThreadFails, WriteFails
<1>12. CASE GateMissing \/ GateEnds \/ ProductCompletes
            \/ \E st \in {"completed", "other"} : ThreadEnds(st)
  BY <1>1, <1>4, <1>12 DEF GateMissing, GateEnds, ProductCompletes, ThreadEnds, RunState
<1>13. CASE TimesOut \/ \E exit \in {"zero", "nonzero", "killed"} : Exits(exit)
  BY <1>1, <1>13 DEF TimesOut, Exits, Drain, RunState
<1>14. CASE UNCHANGED vars \/ Elapse
  BY <1>14 DEF vars, Elapse
<1>15. QED
  BY <1>3, <1>5, <1>6, <1>7, <1>8, <1>9, <1>10, <1>11, <1>12, <1>13, <1>14
     DEF Next, Proceed

(* However long Run waits for what a process of a role has left behind, no *)
(* process of a role is started two thread timeouts after its tick began,  *)
(* for any timeouts and any number of gates.                               *)
THEOREM RolesStartInTime == Spec => StartsInTime
<1>1. ExecInv /\ [Next]_vars
        => [run'.pc \in {"thread", "gate"} /\ run'.pc # run.pc
              => time < run.now + 2 * ThreadTimeout]_vars
  BY StartInTime
<1>2. QED
  BY <1>1, ExecutionSound, PTL DEF Spec, StartsInTime

(* An implementer passes only if every gate of its adapter ran and passed. *)
THEOREM PassesAreEarned == Spec => []PassIsEarned
<1>1. ExecInv => PassIsEarned
  BY DEF ExecInv, RunOK, AllPassed, PassIsEarned
<1>2. QED
  BY <1>1, ExecutionSound, PTL
-----------------------------------------------------------------------------
(***************************************************************************)
(* What a product thread costs.  The record ProductDone of an item whose   *)
(* thread was paid for is in memory while the daemon runs and in the file  *)
(* while it does not, or a fault has been spent on the difference: as long *)
(* as no write has failed, memory and file differ only while they are      *)
(* written, and a first tick does not survive a write that fails.          *)
(***************************************************************************)
(* The loops file is behind memory, for it is being written. *)
Dirty(r) == r.pc = "write" /\ r.then # "visit"

(* A product thread runs for an item without ProductDone. *)
InThread(r) == r.pc \in {"thread", "ended"} \/ (r.pc = "drain" /\ r.then = "ended")

Unpaid(r, l) ==
  InThread(r) /\ r.role = "product" /\ r.cur \in Item => l[r.cur] = 2

(* It has completed, and nothing of that is recorded yet. *)
Owed(r, i) == r.pc = "completed" /\ r.cur = i

PaidOK ==
  /\ paid \in [Item -> Nat]
  /\ \A i \in Item : paid[i] <= faults + 1
  /\ \A i \in Item :
       /\ (IF run.pc = "down" THEN file.loops[i] ELSE loops[i]) # 3
       /\ ~Owed(run, i)
       => paid[i] <= faults
  /\ run.first /\ run.pc # "down" /\ ~Dirty(run) => file.loops = loops
  /\ Unpaid(run, loops)

(* The steps of a running daemon that no thread is paid in. *)
LEMMA RunsOn ==
  ASSUME ExecInv, PaidOK, paid' = paid, file' = file,
         faults' = faults \/ faults' = faults + 1,
         run.pc \notin {"down", "completed"}, run'.pc # "down",
         \A i \in Item : loops[i] = 3 => loops'[i] = 3,
         run'.first /\ ~Dirty(run') => run.first /\ ~Dirty(run) /\ loops' = loops,
         Unpaid(run', loops')
  PROVE  PaidOK'
<1>1. faults \in Nat /\ paid \in [Item -> Nat]
  BY DEF ExecInv, PaidOK
<1>2. ASSUME NEW i \in Item
      PROVE  paid'[i] <= faults' + 1 /\ (loops'[i] # 3 => paid'[i] <= faults')
  <2>1. paid[i] \in Nat /\ paid[i] <= faults + 1 /\ (loops[i] # 3 => paid[i] <= faults)
    BY <1>1 DEF PaidOK, Owed
  <2>2. QED
    BY <1>1, <2>1
<1>3. run'.first /\ ~Dirty(run') => file'.loops = loops'
  BY DEF PaidOK
<1>4. QED
  BY <1>1, <1>2, <1>3 DEF PaidOK, Unpaid, InThread, Dirty

(* The daemon stops: what it has not written yet counts as a fault. *)
LEMMA GoesDown ==
  ASSUME ExecInv, PaidOK, paid' = paid, file' = file, loops' = loops,
         run.pc # "down", run'.pc = "down",
         \/ faults' = faults + 1
         \/ faults' = faults /\ run.first /\ ~Dirty(run) /\ run.pc # "completed"
  PROVE  PaidOK'
<1>1. faults \in Nat /\ paid \in [Item -> Nat]
  BY DEF ExecInv, PaidOK
<1>2. ASSUME NEW i \in Item
      PROVE  paid'[i] <= faults' + 1 /\ (file'.loops[i] # 3 => paid'[i] <= faults')
  <2>1. paid[i] \in Nat /\ paid[i] <= faults + 1
    BY <1>1 DEF PaidOK
  <2>2. CASE faults' = faults + 1
    BY <1>1, <2>1, <2>2
  <2>3. CASE faults' = faults /\ run.first /\ ~Dirty(run) /\ run.pc # "completed"
    <3>1. file.loops = loops
      BY <2>3 DEF PaidOK
    <3>2. loops[i] # 3 => paid[i] <= faults
      BY <2>3 DEF PaidOK, Owed
    <3>3. QED
      BY <1>1, <2>1, <2>3, <3>1, <3>2
  <2>4. QED
    BY <2>2, <2>3
<1>3. QED
  BY <1>1, <1>2 DEF PaidOK, Unpaid, InThread, Dirty

(* A tick that fails ends the process or only the tick. *)
LEMMA FailurePays ==
  ASSUME ExecInv, PaidOK, paid' = paid, file' = file, loops' = loops,
         run.pc \notin {"down", "completed"}, run' = Failed,
         faults' = faults + 1 \/ (faults' = faults /\ ~Dirty(run))
  PROVE  PaidOK'
<1>1. run.first \in BOOLEAN
  BY DEF ExecInv, RunOK, RunState
<1>2. CASE run.first
  <2>1. run'.pc = "down"
    BY <1>2 DEF Failed, At
  <2>2. QED
    BY <1>2, <2>1, GoesDown
<1>3. CASE ~run.first
  <2>1. run'.pc = "idle" /\ run'.first = FALSE
    BY <1>3 DEF Failed, At
  <2>2. Unpaid(run', loops')
    BY <2>1 DEF Unpaid, InThread
  <2>3. QED
    BY <2>1, <2>2, RunsOn
<1>4. QED
  BY <1>2, <1>3

LEMMA LeavePays ==
  ASSUME ExecInv, PaidOK, paid' = paid, file' = file, loops' = loops,
         faults' = faults, run.pc \notin {"down", "write", "completed"}, Leave
  PROVE  PaidOK'
<1>1. run'.pc = "visit" /\ run'.first = run.first
  BY DEF Leave, At
<1>2. Unpaid(run', loops') /\ ~Dirty(run)
  BY <1>1 DEF Unpaid, InThread, Dirty
<1>3. QED
  BY <1>1, <1>2, RunsOn

LEMMA ExecutePays ==
  ASSUME ExecInv, PaidOK, paid' = paid, file' = file, loops' = loops,
         faults' = faults, run.pc \notin {"down", "write", "completed"},
         NEW role, role = "product" => loops[run.cur] = 2, Execute(run.cur, role)
  PROVE  PaidOK'
<1>1. ~Dirty(run) /\ run \in RunState
  BY DEF Dirty, ExecInv, RunOK
<1>2. CASE Starts(run.cur)
  <2>1. /\ run'.pc = "thread" /\ run'.role = role /\ run'.cur = run.cur
        /\ run'.first = run.first
    BY <1>1, <1>2 DEF Execute, RunState
  <2>2. Unpaid(run', loops')
    BY <2>1 DEF Unpaid, InThread
  <2>3. QED
    BY <1>1, <2>1, <2>2, RunsOn
<1>3. CASE ~Starts(run.cur)
  BY <1>1, <1>3, FailurePays DEF Execute
<1>4. QED
  BY <1>2, <1>3
-----------------------------------------------------------------------------
LEMMA PaidInit == Init => PaidOK
<1>1. SUFFICES ASSUME Init PROVE PaidOK
  OBVIOUS
<1>2. /\ faults = 0 /\ paid = [i \in Item |-> 0] /\ run.pc = "down"
  BY <1>1 DEF Init, At
<1>3. QED
  BY <1>2 DEF PaidOK, Unpaid, InThread, Owed

LEMMA OpenPays ==
  ASSUME ExecInv, PaidOK, Open
  PROVE  PaidOK'
<1>1. paid' = paid /\ faults' = faults /\ file' = file /\ run.pc = "down"
  BY DEF Open, disk
<1>2. CASE Readable
  <2>1. loops' = file.loops /\ run' = At("idle", time, TRUE)
    BY <1>2 DEF Open, Readable
  <2>2. run'.pc = "idle"
    BY <2>1 DEF At
  <2>3. QED
    BY <1>1, <2>1, <2>2 DEF PaidOK, Unpaid, InThread, Owed
<1>3. CASE ~Readable
  <2>1. loops' = loops /\ run' = run
    BY <1>3 DEF Open, memory
  <2>2. QED
    BY <1>1, <2>1 DEF PaidOK
<1>4. QED
  BY <1>2, <1>3

(* After the write of the loops file it is what memory is. *)
LEMMA WrittenPays ==
  ASSUME ExecInv, PaidOK, Written
  PROVE  PaidOK'
<1>1. /\ paid' = paid /\ faults' = faults /\ loops' = loops
      /\ run.pc = "write" /\ run' = Returned(run)
  BY DEF Written, memory, Returned
<1>2. run \in RunState /\ run.then \in Saving
  BY <1>1 DEF ExecInv, RunOK, RunState
<1>3. run'.pc = run.then /\ run'.first = run.first
  BY <1>1, <1>2 DEF Returned, RunState
<1>4. run'.pc \notin InRole \cup {"down", "write", "completed"}
  BY <1>2, <1>3 DEF Saving, InRole
<1>5. CASE run.then = "visit"
  <2>1. file' = [file EXCEPT !.known = known]
    BY <1>5 DEF Written
  <2>2. file'.loops = file.loops
    BY <2>1 DEF ExecInv, StoreOK
  <2>3. ~Dirty(run)
    BY <1>5 DEF Dirty
  <2>4. QED
    BY <1>1, <1>3, <1>4, <2>2, <2>3 DEF PaidOK, Unpaid, InThread, Owed, InRole
<1>6. CASE run.then # "visit"
  <2>1. file' = [file EXCEPT !.loops = loops]
    BY <1>6 DEF Written
  <2>2. file'.loops = loops
    BY <2>1 DEF ExecInv, StoreOK
  <2>3. QED
    BY <1>1, <1>4, <2>2 DEF PaidOK, Unpaid, InThread, Owed, InRole
<1>7. QED
  BY <1>5, <1>6

LEMMA TickPays ==
  ASSUME ExecInv, PaidOK, BeginTick \/ PersistKnown \/ EndTick
  PROVE  PaidOK'
<1>1. /\ paid' = paid /\ faults' = faults /\ file' = file /\ loops' = loops
      /\ run.pc \in {"idle", "intake", "visit"} /\ run \in RunState
  BY DEF BeginTick, PersistKnown, EndTick, memory, disk, ExecInv, RunOK
<1>2. ~Dirty(run)
  BY <1>1 DEF Dirty
<1>3. run'.pc \notin {"down"} \cup InRole /\ (run'.first => run.first)
  <2>1. CASE BeginTick
    <3>1. PICK now \in run.now .. time, polled \in SUBSET (Item \ known) :
            run' = [At("intake", now, run.first) EXCEPT !.queue = polled]
      BY <2>1 DEF BeginTick
    <3>2. run'.pc = "intake" /\ run'.first = run.first
      BY <3>1 DEF At
    <3>3. QED
      BY <3>2 DEF InRole
  <2>2. CASE PersistKnown
    BY <1>1, <2>2 DEF PersistKnown, RunState, InRole
  <2>3. CASE EndTick
    BY <2>3 DEF EndTick, At, InRole
  <2>4. QED
    BY <2>1, <2>2, <2>3
<1>4. Unpaid(run', loops')
  BY <1>3 DEF Unpaid, InThread, InRole
<1>5. QED
  BY <1>1, <1>2, <1>3, <1>4, RunsOn

LEMMA IntakePays ==
  ASSUME ExecInv, PaidOK, NEW i \in Item, Intake(i)
  PROVE  PaidOK'
<1>1. /\ paid' = paid /\ faults' = faults /\ file' = file /\ run.pc = "intake"
      /\ run \in RunState /\ loops \in [Item -> 0 .. 3]
  BY DEF Intake, ExecInv, RunOK, StoreOK
<1>2. ~Dirty(run)
  BY <1>1 DEF Dirty
<1>3. CASE /\ loops[i] = 0 /\ loops' = [loops EXCEPT ![i] = 1]
           /\ run' = ToWriteLeaving(run, "intake", run.queue \ {i})
  <2>1. run'.pc = "write" /\ run'.then = "intake"
    BY <1>1, <1>3 DEF ToWriteLeaving, RunState
  <2>2. \A j \in Item : loops[j] = 3 => loops'[j] = 3
    BY <1>1, <1>3
  <2>3. Unpaid(run', loops') /\ Dirty(run')
    BY <2>1 DEF Unpaid, InThread, Dirty
  <2>4. QED
    BY <1>1, <2>1, <2>2, <2>3, RunsOn
<1>4. CASE loops' = loops /\ run' = Queued(run, run.queue \ {i})
  <2>1. run'.pc = "intake" /\ run'.first = run.first
    BY <1>1, <1>4 DEF Queued, RunState
  <2>2. Unpaid(run', loops')
    BY <2>1 DEF Unpaid, InThread
  <2>3. QED
    BY <1>1, <1>2, <1>4, <2>1, <2>2, RunsOn
<1>5. QED
  BY <1>3, <1>4 DEF Intake, ToWriteLeaving, Queued

LEMMA VisitPays ==
  ASSUME ExecInv, PaidOK, Visit
  PROVE  PaidOK'
<1>1. /\ paid' = paid /\ faults' = faults /\ file' = file /\ run.pc = "visit"
      /\ run \in RunState /\ loops \in [Item -> 0 .. 3]
  BY DEF Visit, ExecInv, RunOK, StoreOK
<1>2. ~Dirty(run)
  BY <1>1 DEF Dirty
<1>3. PICK i \in run.queue :
        \/ run' = Queued(run, run.queue \ {i}) /\ UNCHANGED <<loops, torn>>
        \/ /\ loops[i] < 2 /\ loops' = [loops EXCEPT ![i] = 2]
           /\ run' = Entered(run, i, "write", "leg", run.queue \ {i})
        \/ /\ run' = Entered(run, i, "leg", "none", run.queue \ {i})
           /\ UNCHANGED <<loops, torn>>
  BY DEF Visit, Into, Queued, Entered
<1>4. i \in Item
  BY <1>1 DEF RunState
<1>5. CASE /\ loops[i] < 2 /\ loops' = [loops EXCEPT ![i] = 2]
           /\ run' = Entered(run, i, "write", "leg", run.queue \ {i})
  <2>1. run'.pc = "write" /\ run'.then = "leg"
    BY <1>1, <1>5 DEF Entered, RunState
  <2>2. \A j \in Item : loops[j] = 3 => loops'[j] = 3
    BY <1>1, <1>4, <1>5
  <2>3. Unpaid(run', loops') /\ Dirty(run')
    BY <2>1 DEF Unpaid, InThread, Dirty
  <2>4. QED
    BY <1>1, <2>1, <2>2, <2>3, RunsOn
<1>6. CASE /\ \/ run' = Queued(run, run.queue \ {i})
              \/ run' = Entered(run, i, "leg", "none", run.queue \ {i})
           /\ loops' = loops
  <2>1. run'.pc \in {"visit", "leg"} /\ run'.first = run.first
    BY <1>1, <1>6 DEF Queued, Entered, RunState
  <2>2. Unpaid(run', loops')
    BY <2>1 DEF Unpaid, InThread
  <2>3. QED
    BY <1>1, <1>2, <1>6, <2>1, <2>2, RunsOn
<1>7. QED
  BY <1>3, <1>5, <1>6

(* A thread that ends owes what it owed; a gate owes nothing. *)
LEMMA DrainPays ==
  ASSUME ExecInv, PaidOK, run.pc \in {"thread", "gate"}, NEW exit, Drain(exit),
         loops' = loops
  PROVE  Unpaid(run', loops') /\ run'.pc = "drain" /\ run'.first = run.first
<1>1. run \in RunState
  BY DEF ExecInv, RunOK
<1>2. /\ run'.pc = "drain" /\ run'.first = run.first /\ run'.role = run.role
      /\ run'.cur = run.cur
      /\ run'.then = IF run.pc = "thread" THEN "ended" ELSE "head"
  BY <1>1 DEF Drain, RunState
<1>3. QED
  BY <1>2 DEF PaidOK, Unpaid, InThread

LEMMA RolePays ==
  ASSUME ExecInv, PaidOK, RoleStep, ~ProductCompletes
  PROVE  PaidOK'
<1>1. /\ UNCHANGED <<memory, disk>> /\ faults' = faults
      /\ run.pc \notin {"down", "write", "completed"}
  BY RoleStepOK
<1>2. paid' = paid
  BY DEF RoleStep, Leg, GoOn, AfterFeed, GateStarts, GateMissing, GateEnds, TimesOut,
         Drained, ThreadFails, Exits, ThreadEnds
<1>3. /\ loops' = loops /\ file' = file /\ run \in RunState /\ RunOK(run, time)
      /\ ~Dirty(run)
  BY <1>1 DEF memory, disk, ExecInv, RunOK, Dirty
<1>4. ASSUME Unpaid(run', loops'), run'.pc # "down", run'.first = run.first
      PROVE  PaidOK'
  BY <1>1, <1>2, <1>3, <1>4, RunsOn
<1>5. CASE Leg
  <2>1. CASE loops[run.cur] = 2 /\ Execute(run.cur, "product")
    BY <1>1, <1>2, <1>3, <2>1, ExecutePays
  <2>2. ASSUME NEW role \in {"implementer", "reviewer"}, Execute(run.cur, role)
        PROVE PaidOK'
    BY <1>1, <1>2, <1>3, <2>2, ExecutePays
  <2>3. CASE Leave
    BY <1>1, <1>2, <1>3, <2>3, LeavePays
  <2>4. QED
    BY <1>5, <2>1, <2>2, <2>3 DEF Leg
<1>6. CASE GoOn
  <2>1. CASE Execute(run.cur, "implementer")
    BY <1>1, <1>2, <1>3, <2>1, ExecutePays
  <2>2. CASE Leave
    BY <1>1, <1>2, <1>3, <2>2, LeavePays
  <2>3. QED
    BY <1>6, <2>1, <2>2 DEF GoOn
<1>7. CASE AfterFeed
  BY <1>1, <1>2, <1>3, <1>7, LeavePays DEF AfterFeed
<1>8. CASE ThreadFails \/ (GateEnds /\ run.exit = "killed")
  <2>1. run' = Failed
    BY <1>8 DEF ThreadFails, GateEnds, Fail
  <2>2. QED
    BY <1>1, <1>2, <1>3, <2>1, FailurePays
<1>9. CASE TimesOut \/ \E exit \in {"zero", "nonzero", "killed"} : Exits(exit)
  <2>1. PICK exit : Drain(exit) /\ run.pc \in {"thread", "gate"}
    BY <1>9 DEF TimesOut, Exits
  <2>2. QED
    BY <1>3, <1>4, <2>1, DrainPays
<1>10. CASE Drained
  <2>1. run.pc = "drain" /\ run' = Returned(run)
    BY <1>10 DEF Drained, Returned
  <2>2. /\ run'.pc = run.then /\ run.then \in {"ended", "head"} /\ run'.first = run.first
        /\ run'.role = run.role /\ run'.cur = run.cur
    BY <1>3, <2>1 DEF Returned, RunOK, RunState
  <2>3. Unpaid(run', loops')
    BY <1>3, <2>1, <2>2 DEF PaidOK, Unpaid, InThread
  <2>4. QED
    BY <1>4, <2>2, <2>3
<1>11. CASE \/ GateStarts \/ GateMissing \/ (GateEnds /\ run.exit # "killed")
            \/ \E st \in {"completed", "other"} : ThreadEnds(st)
  <2>1. run'.pc \in {"gates", "gate", "head"} /\ run'.first = run.first
    <3>1. CASE GateStarts
      BY <1>3, <3>1 DEF GateStarts, RunState
    <3>2. CASE GateMissing
      BY <1>3, <3>2 DEF GateMissing, RunState
    <3>3. CASE GateEnds /\ run.exit # "killed"
      BY <1>3, <3>3 DEF GateEnds, RunState
    <3>4. CASE \E st \in {"completed", "other"} : ThreadEnds(st)
      BY <1>3, <3>4 DEF ThreadEnds, RunState
    <3>5. QED
      BY <1>11, <3>1, <3>2, <3>3, <3>4
  <2>2. Unpaid(run', loops')
    BY <2>1 DEF Unpaid, InThread
  <2>3. QED
    BY <1>4, <2>1, <2>2
<1>12. QED
  BY <1>5, <1>6, <1>7, <1>8, <1>9, <1>10, <1>11 DEF RoleStep

LEMMA FaultPays ==
  ASSUME ExecInv, PaidOK, WriteFails \/ Crash
  PROVE  PaidOK'
<1>1. UNCHANGED <<memory, disk>> /\ paid' = paid /\ faults' = faults + 1 /\ run.pc # "down"
  BY DEF WriteFails, Crash, Fault
<1>2. loops' = loops /\ file' = file
  BY <1>1 DEF memory, disk
<1>3. CASE WriteFails
  <2>1. run.pc = "write" /\ run' = Failed
    BY <1>3 DEF WriteFails, Fail
  <2>2. QED
    BY <1>1, <1>2, <2>1, FailurePays
<1>4. CASE Crash
  <2>1. run'.pc = "down"
    BY <1>4 DEF Crash, At
  <2>2. QED
    BY <1>1, <1>2, <2>1, GoesDown
<1>5. QED
  BY <1>3, <1>4

LEMMA CountOneMore ==
  ASSUME NEW count \in [Item -> Nat], NEW i
  PROVE  [count EXCEPT ![i] = @ + 1] \in [Item -> Nat]
<1>1. \A j \in Item : count[j] \in Nat /\ count[j] + 1 \in Nat
  OBVIOUS
<1>2. [count EXCEPT ![i] = @ + 1]
        = [j \in Item |-> IF j = i THEN count[j] + 1 ELSE count[j]]
  OBVIOUS
<1>3. [j \in Item |-> IF j = i THEN count[j] + 1 ELSE count[j]] \in [Item -> Nat]
  BY <1>1
<1>4. QED
  BY <1>2, <1>3

(* The one step that pays: the item had no ProductDone.                    *)
LEMMA ProductCompletesPays ==
  ASSUME ExecInv, PaidOK, ProductCompletes
  PROVE  PaidOK'
<1> DEFINE c == run.cur
<1>1. /\ paid' = [paid EXCEPT ![c] = @ + 1] /\ UNCHANGED <<memory, disk>>
      /\ faults' = faults /\ run.pc = "ended" /\ run.role = "product"
      /\ run' = Completed(run)
  BY DEF ProductCompletes, Completed
<1>2. /\ faults \in Nat /\ paid \in [Item -> Nat] /\ loops' = loops /\ file' = file
      /\ run \in RunState
  BY <1>1 DEF ExecInv, PaidOK, RunOK, memory, disk
<1>3. /\ run'.pc = "completed" /\ run'.cur = c /\ run'.first = run.first
      /\ run'.role = run.role
  BY <1>1, <1>2 DEF Completed, RunState
<1>4. paid' \in [Item -> Nat]
  BY <1>1, <1>2, CountOneMore
<1>5. ASSUME NEW i \in Item
      PROVE  paid'[i] <= faults' + 1 /\ (loops'[i] # 3 /\ i # c => paid'[i] <= faults')
  <2>1. paid[i] \in Nat /\ paid[i] <= faults + 1 /\ (loops[i] # 3 => paid[i] <= faults)
    BY <1>1, <1>2 DEF PaidOK, Owed
  <2>2. CASE i = c
    <3>1. loops[i] = 2
      BY <1>1, <2>2 DEF PaidOK, Unpaid, InThread
    <3>2. paid'[i] = paid[i] + 1
      BY <1>1, <1>2, <2>2
    <3>3. QED
      BY <1>1, <1>2, <2>1, <2>2, <3>1, <3>2
  <2>3. CASE i # c
    <3>1. paid'[i] = paid[i]
      BY <1>1, <1>2, <2>3
    <3>2. QED
      BY <1>1, <1>2, <2>1, <3>1
  <2>4. QED
    BY <2>2, <2>3
<1>6. /\ run'.first /\ ~Dirty(run') => file'.loops = loops'
      /\ Unpaid(run', loops')
  <2>1. ~Dirty(run) /\ run.pc # "down"
    BY <1>1 DEF Dirty
  <2>2. run.first => file.loops = loops
    BY <2>1 DEF PaidOK
  <2>3. Unpaid(run', loops')
    BY <1>3 DEF Unpaid, InThread
  <2>4. QED
    BY <1>2, <1>3, <2>2, <2>3
<1> HIDE DEF c
<1>7. QED
  BY <1>3, <1>4, <1>5, <1>6 DEF PaidOK, Owed

(* What is owed is recorded. *)
LEMMA ProductEndsPays ==
  ASSUME ExecInv, PaidOK, ProductEnds
  PROVE  PaidOK'
<1> DEFINE c == run.cur
<1>1. /\ paid' = paid /\ loops' = [loops EXCEPT ![c] = 3]
      /\ file' = file /\ faults' = faults /\ run.pc = "completed"
      /\ run' = ToWrite(run, "feed")
  BY DEF ProductEnds, SaveLoop, Truncate, ToWrite
<1>2. /\ faults \in Nat /\ paid \in [Item -> Nat] /\ loops \in [Item -> 0 .. 3]
      /\ run \in RunState
  BY DEF ExecInv, PaidOK, StoreOK, RunOK
<1>3. run'.pc = "write" /\ run'.then = "feed"
  BY <1>1, <1>2 DEF ToWrite, RunState
<1>4. ASSUME NEW i \in Item, loops'[i] # 3 PROVE paid'[i] <= faults'
  <2>1. i # c /\ loops[i] # 3
    BY <1>1, <1>2, <1>4
  <2>2. QED
    BY <1>1, <2>1 DEF PaidOK, Owed
<1>5. QED
  BY <1>1, <1>2, <1>3, <1>4 DEF PaidOK, Unpaid, InThread, Owed, Dirty

LEMMA SavePays ==
  ASSUME ExecInv, PaidOK, FeedSpecReady \/ RoleEnds
  PROVE  PaidOK'
<1>1. PICK then \in {"next", "approved", "refused"} :
        /\ SaveLoop(run.cur, loops[run.cur], then)
        /\ paid' = paid /\ faults' = faults /\ run.pc \in {"feed", "gates"}
  BY DEF FeedSpecReady, RoleEnds
<1>2. run \in RunState /\ loops \in [Item -> 0 .. 3]
  BY DEF ExecInv, RunOK, StoreOK
<1>3. /\ loops' = loops /\ file' = file
      /\ run'.pc = "write" /\ run'.then # "visit"
  BY <1>1, <1>2 DEF SaveLoop, Truncate, RunState
<1>4. Unpaid(run', loops') /\ Dirty(run')
  BY <1>3 DEF Unpaid, InThread, Dirty
<1>5. QED
  BY <1>1, <1>3, <1>4, RunsOn

LEMMA PaidNext == ExecInv /\ PaidOK /\ [Next]_vars => PaidOK'
<1>1. SUFFICES ASSUME ExecInv, PaidOK, [Next]_vars PROVE PaidOK'
  OBVIOUS
<1>2. CASE UNCHANGED vars \/ Elapse
  <2>1. /\ paid' = paid /\ faults' = faults /\ file' = file
        /\ loops' = loops /\ run' = run
    BY <1>2 DEF vars, Elapse, memory, disk
  <2>2. QED
    BY <1>1, <2>1 DEF PaidOK
<1>3. CASE Open \/ Written
  BY <1>1, <1>3, OpenPays, WrittenPays
<1>4. CASE BeginTick \/ PersistKnown \/ EndTick
  BY <1>1, <1>4, TickPays
<1>5. CASE Visit \/ \E i \in Item : Intake(i)
  BY <1>1, <1>5, VisitPays, IntakePays
<1>6. CASE RoleStep
  BY <1>1, <1>6, RolePays, ProductCompletesPays
<1>7. CASE WriteFails \/ Crash
  BY <1>1, <1>7, FaultPays
<1>8. CASE ProductEnds
  BY <1>1, <1>8, ProductEndsPays
<1>9. CASE FeedSpecReady \/ RoleEnds
  BY <1>1, <1>9, SavePays
<1>10. QED
  BY <1>1, <1>2, <1>3, <1>4, <1>5, <1>6, <1>7, <1>8, <1>9 DEF Next, Proceed, RoleStep

(* A product thread that completed is not paid for again, but for one fault *)
(* each: a write that failed, or a daemon that died before the record was  *)
(* in its file.                                                            *)
THEOREM ProductsPaidOnce == Spec => []ProductPaidOnce
<1>1. ExecInv /\ PaidOK => ProductPaidOnce
  <2>1. SUFFICES ASSUME ExecInv, PaidOK, NEW i \in Item PROVE paid[i] <= 1 + faults
    BY DEF ProductPaidOnce
  <2>2. faults \in Nat
    BY <2>1 DEF ExecInv
  <2>3. paid[i] \in Nat /\ paid[i] <= faults + 1
    BY <2>1 DEF PaidOK
  <2>4. QED
    BY <2>2, <2>3
<1>2. Spec => []PaidOK
  BY PaidInit, PaidNext, ExecutionSound, PTL DEF Spec
<1>3. QED
  BY <1>1, <1>2, ExecutionSound, PTL
=============================================================================
