----------------------------- MODULE Gatekeeper -----------------------------
(***************************************************************************)
(* internal/gatekeeper: who may issue which command, in which state, under *)
(* which quality profile.  A context is                                    *)
(*   [actor, profile, minimum, production, sensitive, owns]                *)
(* where sensitive stands for any of DestructiveMigration,                 *)
(* SecretOrPermissionChange, PolicyChange, HarnessSelfChange, BypassGate.  *)
(***************************************************************************)
EXTENDS Workflow

ActorKind == {"operator", "contributor", "automation"}

Rank == [prototype |-> 1, standard |-> 2, critical |-> 3]
Profile == DOMAIN Rank

Context == [actor : ActorKind, profile : Profile, minimum : Profile,
            production : BOOLEAN, sensitive : BOOLEAN, owns : BOOLEAN]

(* The contexts internal/daemon passes: applyWorkflow and Tick act as      *)
(* automation, ApplyOperatorCommand as the operator.                       *)
DaemonContext(actor) ==
  [actor |-> actor, profile |-> "standard", minimum |-> "prototype",
   production |-> FALSE, sensitive |-> FALSE, owns |-> FALSE]

(* allowedInState asks Allowed about an item of which only the state is set. *)
AllowedInState(state, type) == 
  type \in Allowed([EmptyItem EXCEPT !.state = state])

RequiresOperatorGate(ctx, type) ==
  \/ ctx.sensitive
  \/ type = "approve_pr" /\ ctx.profile # "prototype"
  \/ /\ type = "begin_deploy"
     /\ \/ ctx.profile = "critical"
        \/ ctx.profile = "standard" /\ ctx.production

ContributorAllowed(ctx, state, type) ==
  \/ type = "submit_work" /\ state = NoState
  \/ type \in {"accept_feature", "request_changes"} /\ state = "client_qa"
  \/ type = "cancel" /\ state = "inbox" /\ ctx.owns

(* Mutant of AutomationAllowed: authorize_work is forgotten.               *)
AutomationAuthorizes(type) ==
  type \notin {"approve_spec", "approve_pr", "accept_feature"}

AutomationAllowed(type) ==
  type \notin {"authorize_work", "approve_spec", "approve_pr", "accept_feature"}

(* Decide: the code of the decision; only "allowed" lets the command pass. *)
Decide(ctx, state, type) ==
  IF ~AllowedInState(state, type) THEN "state_denied"
  ELSE IF Rank[ctx.profile] < Rank[ctx.minimum] THEN "profile_denied"
  ELSE IF ctx.actor = "operator" THEN "allowed"
  ELSE IF ctx.actor = "contributor" /\ ~ContributorAllowed(ctx, state, type)
    THEN "actor_denied"
  ELSE IF RequiresOperatorGate(ctx, type) THEN "human_gate_required"
  ELSE IF ctx.actor = "automation" /\ ~AutomationAllowed(type)
    THEN "actor_denied"
  ELSE "allowed"

Permits(ctx, state, type) == Decide(ctx, state, type) = "allowed"
=============================================================================
