------------------------------- MODULE Intake -------------------------------
(***************************************************************************)
(* internal/github: Reconcile compares a Work Item with its issue and its  *)
(* status in the project board, and answers the command that brings the    *)
(* item there.  A caller reads all three, and applies the command to the   *)
(* journal later, perhaps more than once; operators move the item          *)
(* meanwhile, and the board.                                               *)
(*                                                                         *)
(* The ID of the command names the step, not the time it is taken: the     *)
(* journal answers a step taken before from its record (module Journal),   *)
(* and the item stays where it is.  Callers and boards are external.       *)
(***************************************************************************)
EXTENDS Workflow, FiniteSets

CONSTANTS Board,        \* the statuses the board is set to
          MaxHistory    \* bound: events of the item

ASSUME IntakeAssumption == Board \subseteq State /\ MaxHistory \in Nat

VARIABLES item,      \* the Work Item as the journal has it
          issue,     \* its issue: "open" or "closed"
          status,    \* its status in the project board
          proposed,  \* the command Reconcile answered, not applied yet
          used       \* the steps whose command ID the journal has recorded

intakeVars == <<item, issue, status, proposed, used>>

NoCommand == [type |-> "none", from |-> NoState, to |-> NoState, expected |-> 0]

IntakeInit ==
  /\ item = EmptyItem
  /\ issue = "open"
  /\ status = NoState
  /\ proposed = NoCommand
  /\ used = {}

Blockable == {"inbox", "triage", "ready", "specifying", "implementing",
              "reviewing", "ready_to_deploy", "client_qa", "rolling_out"}

Cancellable == {"inbox", "ready", "specifying", "implementing", "reviewing",
                "changes_requested", "ready_to_deploy", "failed"}

Steps ==
  { <<"inbox", "begin_triage", "triage">>,
    <<"triage", "authorize_work", "ready">>,
    <<"triage", "reject_work", "cancelled">>,
    <<"ready", "begin_spec", "specifying">>,
    <<"ready", "begin_implementation", "implementing">>,
    <<"specifying", "approve_spec", "ready">>,
    <<"implementing", "submit_review", "reviewing">>,
    <<"reviewing", "request_changes", "changes_requested">>,
    <<"reviewing", "approve_pr", "ready_to_deploy">>,
    <<"changes_requested", "begin_implementation", "implementing">>,
    <<"ready_to_deploy", "begin_deploy", "deploying">>,
    <<"deploying", "mark_deployment_healthy", "client_qa">>,
    <<"deploying", "fail_deployment", "failed">>,
    <<"client_qa", "accept_feature", "rolling_out">>,
    <<"client_qa", "request_changes", "changes_requested">>,
    <<"rolling_out", "complete_rollout", "done">>,
    <<"failed", "retry_deployment", "ready_to_deploy">> }

(* Mutant of StepCommand: work that waits for changes can be blocked too.   *)
StepCommandBlocksAll ==
  Steps \cup {<<s, "block", "blocked">> : s \in Blockable \cup {"changes_requested"}}
        \cup {<<s, "cancel", "cancelled">> : s \in Cancellable}

(* stepCommand: <<from, command, to>>, a table of its own beside that of   *)
(* the workflow.                                                           *)
StepCommand ==
  Steps \cup {<<s, "block", "blocked">> : s \in Blockable}
        \cup {<<s, "cancel", "cancelled">> : s \in Cancellable}

(* Reconcile, for the item and the board as they are: a set of at most one *)
(* command.  Closed issues, items at rest and steps the table lacks get    *)
(* none (an intent or an error, which change nothing).                     *)
Reconcile ==
  IF issue = "closed" THEN {}
  ELSE IF item = EmptyItem
    THEN {[type |-> "submit_work", from |-> NoState, to |-> "inbox",
           expected |-> 0]}
  ELSE IF item.state \in Terminal \cup {"blocked", status} THEN {}
  ELSE {[type |-> t[2], from |-> t[1], to |-> t[3], expected |-> item.version] :
          t \in {u \in StepCommand : u[1] = item.state /\ u[3] = status}}

(* intakeCommandID, without the issue number. *)
StepId(c) == <<c.from, c.to>>

(* The command as the workflow takes it; the reason is the issue's title,  *)
(* never blank, or says what step it is.                                   *)
AsCommand(c, actor) ==
  [id |-> StepId(c), actor |-> actor, type |-> c.type,
   expected |-> c.expected, reason |-> TRUE]
-----------------------------------------------------------------------------
ReadBoth ==
  /\ \E c \in Reconcile : proposed' = c
  /\ UNCHANGED <<item, issue, status, used>>

(* Store.Apply of the proposed command, recorded or refused: the caller    *)
(* may keep it, not having heard the answer, or drop it.                   *)
ApplyProposed ==
  /\ proposed # NoCommand
  /\ LET events == IF StepId(proposed) \in used THEN {}
                   ELSE Handle(item, AsCommand(proposed, "automation"))
     IN  /\ events # {} => item.version < MaxHistory
         /\ item' = IF events = {} THEN item
                    ELSE CHOOSE i \in {Replay(item, e) : e \in events} : TRUE
         /\ used' = IF events = {} THEN used ELSE used \cup {StepId(proposed)}
  /\ proposed' \in {proposed, NoCommand}
  /\ UNCHANGED <<issue, status>>

OperatorMoves(type) ==
  /\ item.version < MaxHistory
  /\ \E e \in Handle(item, [id |-> <<>>, actor |-> "operator", type |-> type,
                            expected |-> item.version, reason |-> TRUE]) :
       item' = Replay(item, e)
  /\ UNCHANGED <<issue, status, proposed, used>>

BoardMoves(to) ==
  /\ to # status
  /\ status' = to
  /\ UNCHANGED <<item, issue, proposed, used>>

IssueMoves ==
  /\ issue' = IF issue = "open" THEN "closed" ELSE "open"
  /\ UNCHANGED <<item, status, proposed, used>>

IntakeNext ==
  \/ ReadBoth \/ ApplyProposed
  \/ \E type \in CommandType : OperatorMoves(type)
  \/ \E to \in Board : BoardMoves(to)
  \/ IssueMoves

IntakeSpec == IntakeInit /\ [][IntakeNext]_intakeVars
-----------------------------------------------------------------------------
IntakeTypeOK ==
  /\ item \in [state : State \cup {NoState}, resume : State \cup {NoState},
               version : 0 .. MaxHistory]
  /\ issue \in {"open", "closed"}
  /\ status \in Board \cup {NoState}
  /\ proposed \in [type : CommandType \cup {"none"}, from : State \cup {NoState},
                   to : State \cup {NoState}, expected : Nat]

(* Unless the item has moved since it was read, the workflow accepts what  *)
(* Reconcile proposed, and it leads where the board says; if the item has  *)
(* moved, it is refused.                                                   *)
IntakeFits ==
  proposed # NoCommand =>
    {e.to : e \in Handle(item, AsCommand(proposed, "automation"))}
      = IF item.version = proposed.expected THEN {proposed.to} ELSE {}
=============================================================================
