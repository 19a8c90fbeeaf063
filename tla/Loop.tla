-------------------------------- MODULE Loop --------------------------------
(***************************************************************************)
(* The pure core of internal/loop: the role loop of one Work Item, from    *)
(* the Spec through implementing and reviewing to done or blocked.         *)
(*                                                                         *)
(* A loop is LoopState; its deadline StartedAt + MaxDuration is kept as    *)
(* `left', the time left until then, 0 from the deadline on.  Advance      *)
(* answers the set of what comes of an event: one [after, next], where next *)
(* is Decision.Next, or nothing where the code answers ErrLoop.            *)
(* Decision.Done and Decision.Blocked are the stage of that loop.          *)
(***************************************************************************)
EXTENDS Naturals

MaxFixes == 3

Role == {"product", "implementer", "reviewer"}
NoRole == "none"
NoSignature == "none"

Stage == {"specifying", "implementing", "reviewing", "done", "blocked"}
Over == {"done", "blocked"}

BlockReason == {"budget_breach", "deadline_exceeded", "fix_budget_exhausted",
                "repeated_failure", "policy_conflict", "scope_expansion"}

Verdict == {"none", "approve", "changes", "policy", "scope"}

(* The kinds of event, with what each one carries. *)
SpecReady == [kind |-> "spec_ready", signature |-> NoSignature, verdict |-> "none"]
GatesPassed == [kind |-> "gates_passed", signature |-> NoSignature, verdict |-> "none"]
GatesFailed(sig) == [kind |-> "gates_failed", signature |-> sig, verdict |-> "none"]
Reviewed(verdict, sig) ==
  [kind |-> "reviewed", signature |-> sig, verdict |-> verdict]

Begin(roles, budget, duration) ==
  [stage |-> "specifying", roles |-> roles, fixes |-> 0, last |-> NoSignature,
   streak |-> 0, spent |-> 0, budget |-> budget, left |-> duration,
   reason |-> "none"]

(* Mutant of NextPipelineRole: one role too far.                           *)
NextPipelineRoleSkips(required, after) ==
  IF after = NoRole /\ "implementer" \in required THEN "implementer"
  ELSE IF after = NoRole /\ "reviewer" \in required THEN "reviewer"
  ELSE NoRole

(* The first role of the pipeline, after the given one, that is required.  *)
NextPipelineRole(required, after) ==
  IF after = NoRole /\ "implementer" \in required THEN "implementer"
  ELSE IF after # "reviewer" /\ "reviewer" \in required THEN "reviewer"
  ELSE NoRole

To(s, stage, role) == {[after |-> [s EXCEPT !.stage = stage], next |-> role]}

Block(s, reason) ==
  {[after |-> [s EXCEPT !.stage = "blocked", !.reason = reason],
    next |-> NoRole]}

(* A stage is over: on to the next required role, or done without one.     *)
Complete(s, role, stage) ==
  LET next == NextPipelineRole(s.roles, role)
  IN  IF next = NoRole THEN To(s, "done", NoRole) ELSE To(s, stage, next)

(* Mutant of RecordFailure: the streak goes on over a different failure.   *)
RecordFailureLoose(s, sig) ==
  IF s.fixes >= MaxFixes THEN Block(s, "fix_budget_exhausted")
  ELSE To([s EXCEPT !.fixes = @ + 1, !.last = sig], "implementing", "implementer")

(* Mutant of RecordFailure: a repeated failure costs no fix.               *)
RecordFailureFree(s, sig) ==
  IF s.fixes >= MaxFixes THEN Block(s, "fix_budget_exhausted")
  ELSE IF sig = s.last THEN To(s, "implementing", "implementer")
  ELSE To([s EXCEPT !.fixes = @ + 1, !.last = sig], "implementing", "implementer")

(* Mutant of RecordFailure: one fix more than there are.                   *)
RecordFailureOffByOne(s, sig) ==
  IF s.fixes > MaxFixes THEN Block(s, "fix_budget_exhausted")
  ELSE To([s EXCEPT !.fixes = @ + 1, !.last = sig], "implementing", "implementer")

RecordFailure(s, sig) ==
  LET same == sig # NoSignature /\ sig = s.last
      t == [s EXCEPT !.fixes = @ + 1,
                     !.streak = IF same THEN @ + 1 ELSE 1,
                     !.last = sig]
  IN  IF s.fixes >= MaxFixes THEN Block(s, "fix_budget_exhausted")
      ELSE IF t.streak >= 2 THEN Block(t, "repeated_failure")
      ELSE To(t, "implementing", "implementer")

(* Mutant of Review: out of scope goes back to the implementer, unpaid.    *)
ReviewBounces(s, e) ==
  CASE e.verdict = "approve" -> To(s, "done", NoRole)
    [] e.verdict = "changes" -> RecordFailure(s, e.signature)
    [] e.verdict = "policy"  -> Block(s, "policy_conflict")
    [] e.verdict = "scope"   -> To(s, "implementing", "implementer")
    [] OTHER -> {}

Review(s, e) ==
  CASE e.verdict = "approve" -> To(s, "done", NoRole)
    [] e.verdict = "changes" -> RecordFailure(s, e.signature)
    [] e.verdict = "policy"  -> Block(s, "policy_conflict")
    [] e.verdict = "scope"   -> Block(s, "scope_expansion")
    [] OTHER -> {}

(* What each stage accepts; every other event is an error.                 *)
React(s, e) ==
  CASE s.stage = "specifying" /\ e.kind = "spec_ready" ->
         Complete(s, NoRole, "implementing")
    [] s.stage = "implementing" /\ e.kind = "gates_passed" ->
         Complete(s, "implementer", "reviewing")
    [] s.stage = "implementing" /\ e.kind = "gates_failed" ->
         RecordFailure(s, e.signature)
    [] s.stage = "reviewing" /\ e.kind = "reviewed" -> Review(s, e)
    [] OTHER -> {}

(* Mutant of Advance: the budget is compared before this event's cost.     *)
AdvanceLateBudget(s, e, cost) ==
  IF s.stage \in Over THEN {}
  ELSE IF s.spent > s.budget THEN Block(s, "budget_breach")
  ELSE IF s.left = 0 THEN Block(s, "deadline_exceeded")
  ELSE React([s EXCEPT !.spent = @ + cost], e)

(* Mutant of Advance: the deadline is not looked at.                       *)
AdvanceTimeless(s, e, cost) ==
  IF s.stage \in Over THEN {}
  ELSE IF s.spent + cost > s.budget THEN Block(s, "budget_breach")
  ELSE React([s EXCEPT !.spent = @ + cost], e)

Advance(s, e, cost) ==
  IF s.stage \in Over THEN {}
  ELSE IF s.spent + cost > s.budget THEN Block(s, "budget_breach")
  ELSE IF s.left = 0 THEN Block(s, "deadline_exceeded")
  ELSE React([s EXCEPT !.spent = @ + cost], e)
=============================================================================
