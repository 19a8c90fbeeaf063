--------------------------- MODULE RoleLoopProofs ---------------------------
(***************************************************************************)
(* That the properties of RoleLoop hold for all signatures, costs, budgets *)
(* and durations.  The inductive invariant adds to them what RecordFailure *)
(* relies on: a working loop's last signature is that of its last failure, *)
(* its streak is at most one, and it carries no block reason.              *)
(***************************************************************************)
EXTENDS RoleLoop, TLAPS

Remembers ==
  /\ loop.streak <= 1
  /\ loop.reason = "none"
  /\ failures = <<>> => loop.last = NoSignature
  /\ failures # <<>> => loop.last = failures[Len(failures)] /\ loop.streak = 1

Fresh == loop.fixes = 0 /\ builds = 0 /\ failures = <<>> /\ evidence = "none"

IInv ==
  /\ TypeOK
  /\ WithinBudget
  /\ FixesAccounted
  /\ NoFailureTwiceRunning
  /\ DoneIsEarned
  /\ loop.stage = "specifying" => Fresh /\ Remembers
  /\ Working => Remembers
  /\ loop.stage = "reviewing" => evidence = "passed" /\ "reviewer" \in loop.roles

(* What comes of an event, by cases: the loop is blocked without taking it *)
(* in, or it takes the cost and reacts.                                    *)
LEMMA AdvanceCases ==
  ASSUME NEW e \in Events, NEW cost \in Costs, loop \in LoopState,
         NEW result \in Advance(loop, e, cost)
  PROVE  /\ loop.stage \notin Over
         /\ \/ \E r \in {"budget_breach", "deadline_exceeded"} :
                 result.after = [loop EXCEPT !.stage = "blocked", !.reason = r]
            \/ /\ loop.spent + cost <= loop.budget
               /\ result \in React([loop EXCEPT !.spent = @ + cost], e)
<1>1. loop.spent \in Nat /\ loop.budget \in Nat /\ cost \in Nat
  BY CostsAssumption, BudgetsAssumption DEF LoopState
<1>2. CASE loop.spent + cost > loop.budget
  BY <1>2 DEF Advance, Block
<1>3. CASE loop.spent + cost <= loop.budget /\ loop.left = 0
  BY <1>1, <1>3 DEF Advance, Block
<1>4. CASE loop.spent + cost <= loop.budget /\ loop.left # 0
  <2>1. ~(loop.spent + cost > loop.budget)
    BY <1>1, <1>4
  <2>2. loop.stage \notin Over /\ result \in React([loop EXCEPT !.spent = @ + cost], e)
    BY <1>4, <2>1, Zenon DEF Advance
  <2> QED BY <1>4, <2>2
<1> QED BY <1>1, <1>2, <1>3, <1>4

LEMMA InitIInv == Init => IInv
<1> SUFFICES ASSUME Init PROVE IInv
  OBVIOUS
<1>1. PICK roles \in (SUBSET Role) \ {{}}, budget \in Budgets :
        loop = Begin(roles, budget, Duration)
  BY DEF Init
<1>2. loop \in LoopState
  BY <1>1, DurationAssumption
     DEF LoopState, Begin, Stage, Role, MaxFixes, AnySignature
<1>3. loop.stage = "specifying" /\ loop.fixes = 0 /\ loop.streak = 0
      /\ loop.last = NoSignature /\ loop.spent = 0 /\ loop.reason = "none"
  BY <1>1 DEF Begin
<1>4. builds = 0 /\ failures = <<>> /\ evidence = "none" /\ Len(failures) = 0
  BY DEF Init
<1>5. loop.budget \in Nat
  BY <1>2, BudgetsAssumption DEF LoopState
<1>6. TypeOK
  BY <1>2, <1>4 DEF TypeOK, MaxFixes
<1> QED BY <1>3, <1>4, <1>5, <1>6 DEF IInv, WithinBudget, FixesAccounted,
           NoFailureTwiceRunning, DoneIsEarned, Fresh, Remembers, Working, MaxFixes

(* A result of the helpers, read off their definitions. *)
LEMMA ToResult ==
  ASSUME NEW s, NEW stage, NEW role, NEW result \in To(s, stage, role)
  PROVE  result.after = [s EXCEPT !.stage = stage]
BY DEF To

LEMMA BlockResult ==
  ASSUME NEW s, NEW reason, NEW result \in Block(s, reason)
  PROVE  result.after = [s EXCEPT !.stage = "blocked", !.reason = reason]
BY DEF Block

LEMMA CompleteResult ==
  ASSUME NEW s, NEW role, NEW stage, NEW result \in Complete(s, role, stage)
  PROVE  \/ /\ result.after = [s EXCEPT !.stage = "done"]
            /\ NextPipelineRole(s.roles, role) = NoRole
         \/ /\ result.after = [s EXCEPT !.stage = stage]
            /\ NextPipelineRole(s.roles, role) # NoRole
BY ToResult DEF Complete

LEMMA Fields ==
  ASSUME NEW s \in LoopState
  PROVE  /\ s.stage \in Stage /\ s.fixes \in 0 .. 3 /\ s.streak \in 0 .. 2
         /\ s.last \in AnySignature /\ s.spent \in Nat /\ s.budget \in Nat
BY BudgetsAssumption DEF LoopState, MaxFixes

(* What a failure sig makes of a working loop s. *)
FailureOutcome(s, sig, t) ==
  /\ t \in LoopState
  /\ t.spent = s.spent /\ t.budget = s.budget
  /\ t.reason \notin {"budget_breach", "deadline_exceeded"}
  /\ \/ t.stage = "blocked"
     \/ /\ t.stage = "implementing"
        /\ s.fixes < 3 /\ t.fixes = s.fixes + 1
        /\ t.last = sig /\ t.streak = 1
        /\ t.reason = "none"
        /\ sig = NoSignature \/ sig # s.last \/ s.streak = 0

LEMMA RecordFailureResult ==
  ASSUME NEW s \in LoopState, NEW sig \in AnySignature, s.streak <= 1,
         s.reason = "none",
         NEW result \in RecordFailure(s, sig)
  PROVE  FailureOutcome(s, sig, result.after)
<1>0. /\ s.fixes \in 0 .. 3 /\ s.streak \in 0 .. 2 /\ s.last \in AnySignature
      /\ s.streak \in {0, 1} /\ MaxFixes = 3
  BY DEF LoopState, MaxFixes
<1>1. CASE s.fixes >= MaxFixes
  <2>1. result \in Block(s, "fix_budget_exhausted")
    BY <1>1 DEF RecordFailure
  <2>2. result.after = [s EXCEPT !.stage = "blocked", !.reason = "fix_budget_exhausted"]
    BY <2>1, BlockResult
  <2> QED BY <2>2 DEF LoopState, Stage, BlockReason, FailureOutcome
<1>2. CASE s.fixes < MaxFixes
  <2> DEFINE repeats == sig # NoSignature /\ sig = s.last
             u == [s EXCEPT !.fixes = @ + 1,
                            !.streak = IF sig # NoSignature /\ sig = s.last
                                       THEN @ + 1 ELSE 1,
                            !.last = sig]
  <2>1. ~(s.fixes >= MaxFixes)
    BY <1>0, <1>2
  <2>2. result \in IF u.streak >= 2 THEN Block(u, "repeated_failure")
                   ELSE To(u, "implementing", "implementer")
    BY <2>1, Zenon DEF RecordFailure
  <2>3. PICK t : t = u /\ result \in IF t.streak >= 2 THEN Block(t, "repeated_failure")
                                     ELSE To(t, "implementing", "implementer")
    BY <2>2
  <2>4. t.streak = IF repeats THEN s.streak + 1 ELSE 1
    BY <2>3 DEF LoopState
  <2>5. t.streak \in {1, 2}
    BY <1>0, <2>4
  <2>6. /\ t.fixes = s.fixes + 1 /\ t.last = sig /\ t.spent = s.spent
        /\ t.budget = s.budget /\ t.reason = "none"
    BY <2>3 DEF LoopState
  <2>7. t \in LoopState
    <3>1. s.fixes + 1 \in 0 .. MaxFixes /\ t.streak \in 0 .. 2
      BY <1>0, <1>2, <2>5
    <3>2. t = [s EXCEPT !.fixes = s.fixes + 1, !.streak = t.streak, !.last = sig]
      BY <2>3, <2>4
    <3>3. PICK f \in 0 .. MaxFixes, k \in 0 .. 2 :
            t = [s EXCEPT !.fixes = f, !.streak = k, !.last = sig]
      BY <3>1, <3>2
    <3> QED BY <3>3 DEF LoopState
  <2> HIDE DEF u
  <2>8. CASE t.streak = 2
    <3>1. result \in Block(t, "repeated_failure")
      BY <2>3, <2>8
    <3>2. result.after = [t EXCEPT !.stage = "blocked", !.reason = "repeated_failure"]
      BY <3>1, BlockResult
    <3> QED BY <2>6, <2>7, <3>2 DEF LoopState, Stage, BlockReason, FailureOutcome
  <2>9. CASE t.streak = 1
    <3>1. result \in To(t, "implementing", "implementer")
      BY <2>3, <2>9
    <3>2. result.after = [t EXCEPT !.stage = "implementing"]
      BY <3>1, ToResult
    <3>3. sig = NoSignature \/ sig # s.last \/ s.streak = 0
      BY <1>0, <2>4, <2>9
    <3> QED BY <1>0, <1>2, <2>6, <2>7, <2>9, <3>2, <3>3 DEF LoopState, Stage, FailureOutcome
  <2> QED BY <2>5, <2>8, <2>9
<1>3. s.fixes >= MaxFixes \/ s.fixes < MaxFixes
  BY <1>0
<1> QED BY <1>1, <1>2, <1>3, Zenon

(* The two ways a loop takes a failure in. *)
LEMMA FailureStep ==
  ASSUME IInv, NEW e \in Events, NEW cost \in Costs, Failed(e), Working,
         loop.spent + cost <= loop.budget,
         NEW s, s = [loop EXCEPT !.spent = @ + cost],
         NEW result \in RecordFailure(s, e.signature),
         loop' = result.after,
         builds' = IF result.after.stage = "implementing" /\ builds < MaxFixes + 2
                   THEN builds + 1 ELSE builds,
         failures' = Append(failures, e.signature),
         evidence' = "none"
  PROVE  IInv'
<1> DEFINE sig == e.signature
<1>0. /\ loop \in LoopState /\ builds \in Nat /\ failures \in Seq(AnySignature)
      /\ cost \in Nat /\ loop.spent \in Nat /\ loop.fixes \in 0 .. 3
      /\ loop.streak <= 1 /\ loop.streak \in Nat
      /\ builds = loop.fixes + 1 /\ Len(failures) = loop.fixes
      /\ loop.budget \in Nat
  BY CostsAssumption, BudgetsAssumption
     DEF IInv, TypeOK, LoopState, MaxFixes, FixesAccounted, Remembers, Working
<1>1. sig \in AnySignature
  BY DEF Events, SpecReady, GatesPassed, GatesFailed, Reviewed, AnySignature,
         Failed
<1>2. /\ s \in LoopState
      /\ s.spent <= s.budget
      /\ s.fixes = loop.fixes /\ s.last = loop.last /\ s.streak = loop.streak
      /\ s.stage = loop.stage /\ s.roles = loop.roles /\ s.reason = loop.reason
  <2>1. s = [loop EXCEPT !.spent = loop.spent + cost]
    OBVIOUS
  <2>2. loop.spent + cost \in Nat
    BY <1>0
  <2>3. s \in LoopState /\ s.spent = loop.spent + cost /\ s.budget = loop.budget
    BY <1>0, <2>1, <2>2 DEF LoopState
  <2>4. /\ s.fixes = loop.fixes /\ s.last = loop.last /\ s.streak = loop.streak
        /\ s.stage = loop.stage /\ s.roles = loop.roles /\ s.reason = loop.reason
    BY <1>0, <2>1 DEF LoopState
  <2> QED BY <2>3, <2>4
<1>3. /\ failures' \in Seq(AnySignature)
      /\ Len(failures') = Len(failures) + 1
      /\ failures'[Len(failures')] = sig
      /\ failures' # <<>>
      /\ \A k \in 1 .. Len(failures) : failures'[k] = failures[k]
  BY <1>0, <1>1
<1>4. /\ result.after \in LoopState
      /\ result.after.spent <= result.after.budget
      /\ \/ result.after.stage = "blocked"
         \/ /\ result.after.stage = "implementing"
            /\ loop.fixes < MaxFixes /\ result.after.fixes = loop.fixes + 1
            /\ result.after.last = sig /\ result.after.streak = 1
            /\ result.after.reason = loop.reason
            /\ sig = NoSignature \/ sig # loop.last \/ loop.streak = 0
  <2>1. s.streak <= 1 /\ s.reason = "none"
    BY <1>0, <1>2 DEF IInv, Remembers, Working
  <2>2. PICK g \in AnySignature : g = sig /\ result \in RecordFailure(s, g)
    BY <1>1
  <2>3. FailureOutcome(s, g, result.after)
    <3>1. s \in LoopState
      BY <1>2
    <3> QED BY <2>1, <2>2, <3>1, RecordFailureResult
  <2> HIDE DEF sig
  <2> QED BY <1>2, <2>1, <2>2, <2>3 DEF MaxFixes, FailureOutcome
<1>5. CASE result.after.stage = "blocked"
  <2>1. builds' = builds /\ loop'.stage = "blocked"
    BY <1>5
  <2> QED BY <1>0, <1>3, <1>4, <2>1 DEF IInv, TypeOK, WithinBudget, FixesAccounted,
             NoFailureTwiceRunning, DoneIsEarned, Working, MaxFixes
<1>6. CASE result.after.stage = "implementing"
  <2>1. /\ loop' \in LoopState /\ loop'.stage = "implementing"
        /\ loop'.spent <= loop'.budget /\ loop'.fixes = loop.fixes + 1
        /\ loop.fixes < 3
        /\ loop'.streak = 1 /\ loop'.last = sig /\ loop'.reason = loop.reason
        /\ sig = NoSignature \/ sig # loop.last \/ loop.streak = 0
    BY <1>4, <1>6 DEF MaxFixes
  <2>2. builds' = builds + 1
    BY <1>0, <1>6, <2>1 DEF MaxFixes
  <2>3. NoFailureTwiceRunning'
    <3> SUFFICES ASSUME NEW k \in 1 .. Len(failures') - 1,
                        failures'[k] = failures'[k + 1]
                 PROVE  failures'[k] = NoSignature
      BY DEF NoFailureTwiceRunning
    <3>0. Len(failures) \in Nat /\ Len(failures') = Len(failures) + 1
      BY <1>0, <1>3
    <3>1. CASE k < Len(failures)
      <4>0. k \in Nat /\ 1 <= k
        BY <3>0
      <4>1. k \in 1 .. Len(failures) - 1 /\ k + 1 \in 1 .. Len(failures)
        BY <3>0, <3>1, <4>0
      <4>2. failures[k] = failures[k + 1]
        BY <1>3, <4>1, <1>0
      <4> QED BY <1>3, <4>1, <4>2, <1>0 DEF IInv, NoFailureTwiceRunning
    <3>2. CASE k = Len(failures)
      <4>1. failures # <<>> /\ failures'[k] = failures[Len(failures)]
            /\ failures'[k + 1] = sig
        BY <1>0, <1>3, <3>2
      <4>2. loop.last = failures[Len(failures)] /\ loop.streak = 1
        BY <4>1 DEF IInv, Remembers
      <4>3. sig = NoSignature \/ sig # loop.last
        BY <2>1, <4>2
      <4> HIDE DEF sig
      <4> QED BY <4>1, <4>2, <4>3
    <3>3. k < Len(failures) \/ k = Len(failures)
      BY <3>0
    <3> QED BY <3>1, <3>2, <3>3
  <2>4. loop.reason = "none"
    BY DEF IInv, Remembers
  <2> HIDE DEF sig
  <2>5. TypeOK' /\ WithinBudget' /\ DoneIsEarned'
    <3>1. builds' \in 0 .. 4
      BY <1>0, <2>1, <2>2
    <3>2. TypeOK'
      BY <1>3, <2>1, <3>1 DEF TypeOK, MaxFixes
    <3>3. WithinBudget' /\ DoneIsEarned'
      BY <2>1 DEF WithinBudget, DoneIsEarned
    <3> QED BY <3>2, <3>3
  <2>6. FixesAccounted' /\ Remembers'
    <3>1. /\ builds' = loop'.fixes + 1 /\ Len(failures') = loop'.fixes
          /\ builds' <= 4 /\ Len(failures') <= 4
      BY <1>0, <1>3, <2>1, <2>2
    <3>2. FixesAccounted'
      BY <3>1 DEF FixesAccounted, MaxFixes
    <3>3. Remembers'
      BY <1>3, <2>1, <2>4 DEF Remembers
    <3> QED BY <3>2, <3>3
  <2> QED BY <2>1, <2>3, <2>5, <2>6 DEF IInv, Working
<1> QED BY <1>4, <1>5, <1>6

LEMMA FeedIInv ==
  ASSUME IInv, NEW e \in Events, NEW cost \in Costs, Feed(e, cost)
  PROVE  IInv'
<1>5. PICK s : s = [loop EXCEPT !.spent = @ + cost]
  OBVIOUS
<1>0. /\ loop \in LoopState /\ builds \in 0 .. 4 /\ failures \in Seq(AnySignature)
      /\ cost \in Nat /\ loop.spent \in Nat /\ loop.budget \in Nat
      /\ loop.fixes \in 0 .. 3 /\ Len(failures) \in Nat
  <2>1. loop \in LoopState /\ builds \in 0 .. 4 /\ failures \in Seq(AnySignature)
    BY DEF IInv, TypeOK, MaxFixes
  <2> QED BY <2>1, Fields, CostsAssumption
<1>1. PICK result \in Advance(loop, e, cost) :
        LET taken == result.after.reason \notin {"budget_breach", "deadline_exceeded"}
        IN  /\ loop' = result.after
            /\ builds' = IF result.after.stage = "implementing" /\ builds < MaxFixes + 2
                         THEN builds + 1 ELSE builds
            /\ failures' = IF taken /\ Failed(e) THEN Append(failures, e.signature)
                           ELSE failures
            /\ evidence' = IF ~taken THEN evidence
                           ELSE IF Failed(e) THEN "none"
                           ELSE IF e.kind = "gates_passed" THEN "passed"
                           ELSE IF e.verdict = "approve" THEN "approved"
                           ELSE evidence
  BY DEF Feed
<1>7. TypeOK /\ FixesAccounted /\ NoFailureTwiceRunning
  BY DEF IInv
<1>6. e.signature \in AnySignature
  BY DEF Events, SpecReady, GatesPassed, GatesFailed, Reviewed, AnySignature
<1>2. loop.stage \in {"specifying", "implementing", "reviewing"}
  BY <1>0, AdvanceCases DEF LoopState, Stage, Over
<1>3. CASE \E r \in {"budget_breach", "deadline_exceeded"} :
             result.after = [loop EXCEPT !.stage = "blocked", !.reason = r]
  <2>1. PICK r \in {"budget_breach", "deadline_exceeded"} :
          loop' = [loop EXCEPT !.stage = "blocked", !.reason = r]
    BY <1>1, <1>3
  <2>2. /\ loop' \in LoopState /\ loop'.stage = "blocked" /\ loop'.reason = r
        /\ loop'.spent = loop.spent /\ loop'.budget = loop.budget
    BY <1>0, <2>1 DEF LoopState, Stage, BlockReason
  <2>3. UNCHANGED <<builds, failures, evidence>>
    BY <1>1, <2>2
  <2> QED BY <2>2, <2>3 DEF IInv, TypeOK, WithinBudget, FixesAccounted,
             NoFailureTwiceRunning, DoneIsEarned, Working
<1>4. CASE loop.spent + cost <= loop.budget /\ result \in React(s, e)
  <2>1. /\ s \in LoopState /\ s.spent <= s.budget /\ s.stage = loop.stage
        /\ s.fixes = loop.fixes /\ s.last = loop.last /\ s.streak = loop.streak
        /\ s.roles = loop.roles /\ s.reason = "none" /\ s.budget = loop.budget
    <3>1. loop.reason = "none"
      BY <1>2 DEF IInv, Remembers, Working
    <3>2. loop.spent + cost \in Nat /\ loop.spent + cost <= loop.budget
      BY <1>0, <1>4
    <3>3. s = [loop EXCEPT !.spent = loop.spent + cost]
      BY <1>5
    <3>4. s \in LoopState /\ s.spent = loop.spent + cost
      BY <1>0, <3>2, <3>3 DEF LoopState
    <3>5. /\ s.stage = loop.stage /\ s.fixes = loop.fixes /\ s.last = loop.last
          /\ s.streak = loop.streak /\ s.roles = loop.roles
          /\ s.reason = loop.reason /\ s.budget = loop.budget
      BY <1>0, <3>3 DEF LoopState
    <3> QED BY <3>1, <3>2, <3>4, <3>5
  <2>7. loop.stage # "specifying" => s.streak <= 1
    BY <1>2, <2>1 DEF IInv, Remembers, Working
  <2>2. CASE loop.stage = "specifying"
    <3>1. e.kind = "spec_ready" /\ result \in Complete(s, NoRole, "implementing")
      BY <1>4, <2>1, <2>2 DEF React
    <3>2. e = SpecReady
      BY <3>1 DEF Events, SpecReady, GatesPassed, GatesFailed, Reviewed
    <3>3. \/ loop' = [s EXCEPT !.stage = "implementing"]
          \/ /\ loop' = [s EXCEPT !.stage = "done"]
             /\ "implementer" \notin s.roles /\ "reviewer" \notin s.roles
      BY <1>1, <3>1, CompleteResult DEF NextPipelineRole, NoRole
    <3>4. /\ loop' \in LoopState /\ loop'.spent <= loop'.budget /\ loop'.reason = "none"
          /\ loop'.fixes = loop.fixes /\ loop'.last = loop.last
          /\ loop'.streak = loop.streak /\ loop'.roles = loop.roles
          /\ loop'.stage \in {"implementing", "done"}
      BY <2>1, <3>3 DEF LoopState, Stage
    <3>5. failures' = failures /\ evidence' = evidence
          /\ builds' = IF loop'.stage = "implementing" THEN 1 ELSE 0
      BY <1>0, <1>1, <2>2, <3>2, <3>4
         DEF SpecReady, Failed, IInv, Fresh, MaxFixes
    <3>6. loop.fixes = 0 /\ failures = <<>> /\ Len(failures) = 0 /\ evidence = "none"
          /\ Remembers
      BY <2>2 DEF IInv, Fresh
    <3>7. loop'.stage = "done" => "implementer" \notin loop'.roles /\ "reviewer" \notin loop'.roles
      BY <2>1, <3>3, <3>4 DEF LoopState
    <3>8. TypeOK'
      BY <3>4, <3>5, <3>6 DEF TypeOK, MaxFixes
    <3>9. Remembers'
      BY <3>4, <3>5, <3>6 DEF Remembers
    <3>10. DoneIsEarned'
      BY <3>7, <3>4 DEF DoneIsEarned
    <3> QED BY <3>4, <3>5, <3>6, <3>8, <3>9, <3>10 DEF IInv, WithinBudget,
               FixesAccounted, NoFailureTwiceRunning, Working, MaxFixes
  <2>3. CASE loop.stage = "implementing" /\ e.kind = "gates_failed"
    <3>1. result \in RecordFailure(s, e.signature) /\ Failed(e)
      BY <1>4, <2>1, <2>3 DEF React, Failed
    <3>2. result.after.reason \notin {"budget_breach", "deadline_exceeded"}
      <4>1. FailureOutcome(s, e.signature, result.after)
        <5>1. s \in LoopState /\ s.streak <= 1 /\ s.reason = "none"
          BY <2>1, <2>7, <2>3
        <5>2. PICK g \in AnySignature : g = e.signature
          BY <1>6
        <5>3. result \in RecordFailure(s, g)
          BY <3>1, <5>2
        <5>4. FailureOutcome(s, g, result.after)
          BY <5>1, <5>3, RecordFailureResult
        <5> QED BY <5>2, <5>4
      <4> QED BY <4>1 DEF FailureOutcome
    <3> QED BY <1>1, <1>4, <1>5, <2>3, <3>1, <3>2, FailureStep DEF Working
  <2>4. CASE loop.stage = "implementing" /\ e.kind # "gates_failed"
    <3>1. e.kind = "gates_passed" /\ result \in Complete(s, "implementer", "reviewing")
      BY <1>4, <2>1, <2>4 DEF React
    <3>2. e = GatesPassed
      BY <3>1 DEF Events, SpecReady, GatesPassed, GatesFailed, Reviewed
    <3>3. \/ loop' = [s EXCEPT !.stage = "reviewing"] /\ "reviewer" \in s.roles
          \/ loop' = [s EXCEPT !.stage = "done"] /\ "reviewer" \notin s.roles
      BY <1>1, <3>1, CompleteResult DEF NextPipelineRole, NoRole
    <3>4. /\ loop' \in LoopState /\ loop'.spent <= loop'.budget /\ loop'.reason = "none"
          /\ loop'.fixes = loop.fixes /\ loop'.last = loop.last
          /\ loop'.streak = loop.streak /\ loop'.roles = loop.roles
          /\ loop'.stage \in {"reviewing", "done"}
      BY <2>1, <3>3 DEF LoopState, Stage
    <3>5. failures' = failures /\ evidence' = "passed" /\ builds' = builds
      BY <1>1, <3>2, <3>4 DEF GatesPassed, Failed
    <3>6. Remembers /\ builds = loop.fixes + 1 /\ Len(failures) = loop.fixes
      BY <2>4 DEF IInv, Working, FixesAccounted
    <3>7. loop'.stage = "done" => "reviewer" \notin loop'.roles
      BY <2>1, <3>3, <3>4 DEF LoopState
    <3>8. loop'.stage = "reviewing" => "reviewer" \in loop'.roles
      BY <2>1, <3>3, <3>4 DEF LoopState
    <3>9. TypeOK' /\ Remembers' /\ DoneIsEarned'
      BY <1>0, <3>4, <3>5, <3>6, <3>7 DEF TypeOK, MaxFixes, Remembers, DoneIsEarned
    <3>10. NoFailureTwiceRunning'
      BY <2>4, <3>5 DEF IInv, NoFailureTwiceRunning, Working
    <3> QED BY <1>0, <3>4, <3>5, <3>6, <3>8, <3>9, <3>10 DEF IInv, WithinBudget,
               FixesAccounted, Working, MaxFixes
  <2>5. CASE loop.stage = "reviewing" /\ e.verdict = "changes"
    <3>1. e.kind = "reviewed" /\ result \in RecordFailure(s, e.signature) /\ Failed(e)
      BY <1>4, <2>1, <2>5 DEF React, Review, Failed
    <3>2. result.after.reason \notin {"budget_breach", "deadline_exceeded"}
      <4>1. FailureOutcome(s, e.signature, result.after)
        <5>1. s \in LoopState /\ s.streak <= 1 /\ s.reason = "none"
          BY <2>1, <2>7, <2>5
        <5>2. PICK g \in AnySignature : g = e.signature
          BY <1>6
        <5>3. result \in RecordFailure(s, g)
          BY <3>1, <5>2
        <5>4. FailureOutcome(s, g, result.after)
          BY <5>1, <5>3, RecordFailureResult
        <5> QED BY <5>2, <5>4
      <4> QED BY <4>1 DEF FailureOutcome
    <3> QED BY <1>1, <1>4, <1>5, <2>5, <3>1, <3>2, FailureStep DEF Working
  <2>6. CASE loop.stage = "reviewing" /\ e.verdict # "changes"
    <3>1. e.kind = "reviewed" /\ result \in Review(s, e) /\ ~Failed(e)
      BY <1>4, <2>1, <2>6 DEF React, Failed
    <3>2. \/ loop' = [s EXCEPT !.stage = "done"] /\ e.verdict = "approve"
          \/ loop' = [s EXCEPT !.stage = "blocked", !.reason = "policy_conflict"]
          \/ loop' = [s EXCEPT !.stage = "blocked", !.reason = "scope_expansion"]
      BY <1>1, <2>6, <3>1 DEF Review, To, Block
    <3>3. /\ loop' \in LoopState /\ loop'.spent <= loop'.budget
          /\ loop'.roles = loop.roles /\ loop'.stage \in {"done", "blocked"}
          /\ loop'.reason \notin {"budget_breach", "deadline_exceeded"}
          /\ loop'.stage = "done" => e.verdict = "approve"
      BY <2>1, <3>2 DEF LoopState, Stage, BlockReason
    <3>4. /\ failures' = failures /\ builds' = builds
          /\ evidence' \in {"none", "passed", "approved"}
          /\ loop'.stage = "done" => evidence' = "approved"
      BY <1>1, <3>1, <3>3 DEF IInv, TypeOK
    <3>5. "reviewer" \in loop'.roles
      BY <2>6, <3>3 DEF IInv
    <3>6. FixesAccounted' /\ NoFailureTwiceRunning'
      <4>1. FixesAccounted /\ ~Working' /\ failures' = failures /\ builds' = builds
        BY <1>7, <3>3, <3>4 DEF Working
      <4> QED BY <4>1 DEF FixesAccounted, NoFailureTwiceRunning
    <3>7. TypeOK' /\ WithinBudget' /\ DoneIsEarned'
      <4>1. builds' \in 0 .. MaxFixes + 1 /\ failures' \in Seq(AnySignature)
        BY <1>7, <3>4 DEF TypeOK
      <4>2. TypeOK' /\ WithinBudget'
        BY <3>3, <3>4, <4>1 DEF TypeOK, WithinBudget
      <4>3. DoneIsEarned'
        BY <3>4, <3>5 DEF DoneIsEarned
      <4> QED BY <4>2, <4>3
    <3>8. ~Working' /\ loop'.stage \notin {"specifying", "reviewing"}
      BY <3>3 DEF Working
    <3> QED BY <3>6, <3>7, <3>8 DEF IInv
  <2> QED BY <1>2, <2>2, <2>3, <2>4, <2>5, <2>6
<1> QED BY <1>0, <1>1, <1>3, <1>4, <1>5, AdvanceCases

LEMMA ElapseIInv == IInv /\ Elapse => IInv'
<1> SUFFICES ASSUME IInv, Elapse PROVE IInv'
  OBVIOUS
<1>1. loop \in LoopState /\ loop.left \in 0 .. Duration /\ loop.left > 0
  BY DEF IInv, TypeOK, LoopState, Elapse
<1>2. /\ loop' \in LoopState
      /\ loop'.stage = loop.stage /\ loop'.roles = loop.roles
      /\ loop'.fixes = loop.fixes /\ loop'.last = loop.last
      /\ loop'.streak = loop.streak /\ loop'.spent = loop.spent
      /\ loop'.budget = loop.budget /\ loop'.reason = loop.reason
  BY <1>1, DurationAssumption DEF LoopState, Elapse
<1>3. UNCHANGED <<builds, failures, evidence>>
  BY DEF Elapse
<1> QED BY <1>2, <1>3 DEF IInv, TypeOK, WithinBudget, FixesAccounted,
           NoFailureTwiceRunning, DoneIsEarned, Working, Remembers, Fresh

LEMMA Invariance == Spec => []IInv
<1>1. IInv /\ [Next]_vars => IInv'
  <2> SUFFICES ASSUME IInv, [Next]_vars PROVE IInv'
    OBVIOUS
  <2>1. CASE \E e \in Events, cost \in Costs : Feed(e, cost)
    BY <2>1, FeedIInv
  <2>2. CASE Elapse
    BY <2>2, ElapseIInv
  <2>3. CASE UNCHANGED vars
    BY <2>3 DEF vars, IInv, TypeOK, WithinBudget, FixesAccounted,
       NoFailureTwiceRunning, DoneIsEarned, Working, Remembers, Fresh
  <2> QED BY <2>1, <2>2, <2>3 DEF Next
<1> QED BY <1>1, InitIInv, PTL DEF Spec

(* The loop's state is what the code says it is: fixes never exceed        *)
(* maxFixes, streaks never exceed two, every block has a known reason.     *)
THEOREM LoopTypeCorrect == Spec => []TypeOK
<1>1. IInv => TypeOK
  BY DEF IInv
<1> QED BY <1>1, Invariance, PTL

(* No loop takes in a cost its budget does not cover.                      *)
THEOREM BudgetKept == Spec => []WithinBudget
<1>1. IInv => WithinBudget
  BY DEF IInv
<1> QED BY <1>1, Invariance, PTL

(* The implementer is asked at most MaxFixes + 1 times.                    *)
THEOREM FixesBounded == Spec => []FixesAccounted
<1>1. IInv => FixesAccounted
  BY DEF IInv
<1> QED BY <1>1, Invariance, PTL

(* A loop never works on after the same failure twice running.             *)
THEOREM RepetitionStops == Spec => []NoFailureTwiceRunning
<1>1. IInv => NoFailureTwiceRunning
  BY DEF IInv
<1> QED BY <1>1, Invariance, PTL

(* A loop is done only on the approval or the gates its roles call for.    *)
THEOREM DoneCorrect == Spec => []DoneIsEarned
<1>1. IInv => DoneIsEarned
  BY DEF IInv
<1> QED BY <1>1, Invariance, PTL
=============================================================================
