---------------------------- MODULE MCLibraries -----------------------------
(***************************************************************************)
(* The packages no code of the daemon drives yet, each with callers of its *)
(* own.  They share no state, so a behaviour is one of theirs: part says   *)
(* which, and the others rest.                                             *)
(***************************************************************************)
EXTENDS Lease, RemoteCalls, Rollout, Intake, Knowledge, TLC

CONSTANTS a, b, none

VARIABLE part

Part == {"lease", "calls", "rollout", "intake", "knowledge"}

vars == <<part, leaseVars, callVars, rolloutVars, intakeVars, knowledgeVars>>

MCBoard == {"ready", "implementing", "reviewing", "client_qa",
            "changes_requested", "blocked", "done"}

Init ==
  /\ part \in Part
  /\ LeaseInit /\ (part # "lease" => ahead = [h \in Holder |-> 0])
  /\ CallsInit /\ RolloutInit /\ IntakeInit /\ KnowledgeInit

LeaseMoves ==
  /\ part = "lease" /\ LeaseNext
  /\ UNCHANGED <<part, callVars, rolloutVars, intakeVars, knowledgeVars>>

CallsMove ==
  /\ part = "calls" /\ CallsNext
  /\ UNCHANGED <<part, leaseVars, rolloutVars, intakeVars, knowledgeVars>>

RolloutMoves ==
  /\ part = "rollout" /\ RolloutNext
  /\ UNCHANGED <<part, leaseVars, callVars, intakeVars, knowledgeVars>>

IntakeMoves ==
  /\ part = "intake" /\ IntakeNext
  /\ UNCHANGED <<part, leaseVars, callVars, rolloutVars, knowledgeVars>>

KnowledgeMoves ==
  /\ part = "knowledge" /\ KnowledgeNext
  /\ UNCHANGED <<part, leaseVars, callVars, rolloutVars, intakeVars>>

Next == LeaseMoves \/ CallsMove \/ RolloutMoves \/ IntakeMoves \/ KnowledgeMoves

Spec == Init /\ [][Next]_vars

(* Every variable has its type, whichever part moves. *)
LibTypeOK ==
  LeaseTypeOK /\ CallsTypeOK /\ RolloutTypeOK /\ IntakeTypeOK /\ KnowledgeTypeOK
=============================================================================
