------------------------------ MODULE RoleLoop ------------------------------
(***************************************************************************)
(* One role loop with whoever feeds it: any event may arrive in any stage, *)
(* at any cost, early or past the deadline.  The loop of internal/loop is  *)
(* a value its caller keeps (daemon-loops.json), so a restart changes      *)
(* nothing here.  What Advance refuses leaves the caller's copy alone.     *)
(***************************************************************************)
EXTENDS Loop, Sequences

CONSTANTS Signatures,   \* failure signatures, NoSignature excluded
          Costs,        \* what an event may cost
          Budgets,      \* the budgets a loop may be given
          Duration      \* MaxDuration, in units of Elapse

ASSUME SignaturesAssumption == NoSignature \notin Signatures
ASSUME CostsAssumption == Costs \subseteq Nat
ASSUME BudgetsAssumption == Budgets \subseteq Nat \ {0}
ASSUME DurationAssumption == Duration \in Nat \ {0}

VARIABLES loop,       \* the LoopState
          builds,     \* history: how often the loop went to implementing
                        \* (counted up to MaxFixes + 2, one too many)
          failures,   \* history: the signatures of the failures it took in
          evidence    \* history: the best news since the last failure

vars == <<loop, builds, failures, evidence>>

AnySignature == Signatures \cup {NoSignature}

LoopState ==
  [stage : Stage, roles : SUBSET Role, fixes : 0 .. MaxFixes,
   last : AnySignature, streak : 0 .. 2, spent : Nat, budget : Budgets,
   left : 0 .. Duration, reason : BlockReason \cup {"none"}]

LoopEvent == [kind : {"spec_ready", "gates_passed", "gates_failed", "reviewed"},
              signature : AnySignature, verdict : Verdict]

Init ==
  /\ \E roles \in (SUBSET Role) \ {{}}, budget \in Budgets :
       loop = Begin(roles, budget, Duration)
  /\ builds = 0
  /\ failures = <<>>
  /\ evidence = "none"

Failed(e) ==
  \/ e.kind = "gates_failed"
  \/ e.kind = "reviewed" /\ e.verdict = "changes"

(* The events the callers of Advance can build. *)
Events ==
  {SpecReady, GatesPassed}
  \cup {GatesFailed(sig) : sig \in AnySignature}
  \cup {Reviewed(v, sig) : v \in Verdict, sig \in AnySignature}

(* Advance, and what history keeps of it.  An event that breaches the      *)
(* budget or the deadline is not taken in.                                 *)
Feed(e, cost) ==
  \E result \in Advance(loop, e, cost) :
    LET taken == result.after.reason \notin {"budget_breach", "deadline_exceeded"}
    IN  /\ loop' = result.after
        /\ builds' = IF result.after.stage = "implementing" /\ builds < MaxFixes + 2
                     THEN builds + 1 ELSE builds
        /\ failures' = IF taken /\ Failed(e) THEN Append(failures, e.signature)
                       ELSE failures
        /\ evidence' = IF ~taken THEN evidence
                       ELSE IF Failed(e) THEN "none"
                       ELSE IF e.kind = "gates_passed" THEN "passed"
                       ELSE IF e.verdict = "approve" THEN "approved"
                       ELSE evidence

(* Time passes between two events. *)
Elapse ==
  /\ loop.left > 0
  /\ loop' = [loop EXCEPT !.left = @ - 1]
  /\ UNCHANGED <<builds, failures, evidence>>

Next == (\E e \in Events, cost \in Costs : Feed(e, cost)) \/ Elapse

(* The caller runs the role the stage asks for and feeds what came of it.  *)
Spec == /\ Init /\ [][Next]_vars
        /\ WF_vars(\E e \in Events, cost \in Costs : Feed(e, cost))
-----------------------------------------------------------------------------
TypeOK ==
  /\ loop \in LoopState
  /\ builds \in 0 .. MaxFixes + 1
  /\ failures \in Seq(AnySignature)
  /\ evidence \in {"none", "passed", "approved"}

Working == loop.stage \in {"implementing", "reviewing"}

(* The loop never takes in a cost that its budget does not cover.          *)
WithinBudget == loop.spent <= loop.budget

(* Every failure is paid for with a fix, and every return to the           *)
(* implementer with a failure: at most MaxFixes + 1 builds, however the    *)
(* failures of gates and of reviews alternate (maxFixes, recordFailure).   *)
FixesAccounted ==
  /\ Working => builds = loop.fixes + 1 /\ Len(failures) = loop.fixes
  /\ builds <= MaxFixes + 1
  /\ Len(failures) <= MaxFixes + 1

(* A loop that works on never met the same failure twice running, whether  *)
(* from the gates or from a review ("two repetitions of the same failure", *)
(* docs/workflow.md); failures that carry no signature are not compared.   *)
NoFailureTwiceRunning ==
  Working =>
    \A k \in 1 .. Len(failures) - 1 :
      failures[k] = failures[k + 1] => failures[k] = NoSignature

(* Done is earned: by an approval, after the last failure, if a reviewer   *)
(* is required, by passing gates if only an implementer is.                *)
DoneIsEarned ==
  loop.stage = "done" =>
    /\ "reviewer" \in loop.roles => evidence = "approved"
    /\ loop.roles \cap {"implementer", "reviewer"} = {"implementer"}
         => evidence = "passed"

(* A loop that is fed ends, done or blocked, whatever it is fed.           *)
Settles == <>(loop.stage \in Over)
=============================================================================
