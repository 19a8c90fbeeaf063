------------------------------ MODULE Workflow ------------------------------
(***************************************************************************)
(* The pure core of internal/workflow: the states a Work Item can be in,   *)
(* the commands that move it, Handle (one command against one Work Item)   *)
(* and Fold (a Work Item rebuilt from its events).                         *)
(*                                                                         *)
(* A Work Item is [state, resume, version]; its ID is the key it is looked *)
(* up by.  A command is [id, item, expected, actor, type, reason], where   *)
(* reason only says whether the reason is non-blank.  A Go error is the    *)
(* empty set of events.                                                    *)
(***************************************************************************)
EXTENDS Naturals, Sequences

NoState == "none"    \* the zero value of workflow.State

State == {"inbox", "triage", "ready", "specifying", "implementing",
          "reviewing", "changes_requested", "ready_to_deploy", "deploying",
          "client_qa", "rolling_out", "done", "blocked", "failed",
          "cancelled"}

Terminal == {"done", "cancelled"}

(***************************************************************************)
(* The transitions table: <<from, command, to>>.  submit_work and          *)
(* resolve_block are not in it; Handle treats them apart.                  *)
(***************************************************************************)
Transitions ==
  { <<"inbox", "begin_triage", "triage">>,
    <<"inbox", "block", "blocked">>,
    <<"inbox", "cancel", "cancelled">>,
    <<"triage", "authorize_work", "ready">>,
    <<"triage", "reject_work", "cancelled">>,
    <<"triage", "block", "blocked">>,
    <<"ready", "begin_spec", "specifying">>,
    <<"ready", "begin_implementation", "implementing">>,
    <<"ready", "block", "blocked">>,
    <<"ready", "cancel", "cancelled">>,
    <<"specifying", "approve_spec", "ready">>,
    <<"specifying", "block", "blocked">>,
    <<"specifying", "cancel", "cancelled">>,
    <<"implementing", "submit_review", "reviewing">>,
    <<"implementing", "block", "blocked">>,
    <<"implementing", "cancel", "cancelled">>,
    <<"reviewing", "request_changes", "changes_requested">>,
    <<"reviewing", "approve_pr", "ready_to_deploy">>,
    <<"reviewing", "block", "blocked">>,
    <<"reviewing", "cancel", "cancelled">>,
    <<"changes_requested", "begin_implementation", "implementing">>,
    <<"changes_requested", "cancel", "cancelled">>,
    <<"ready_to_deploy", "begin_deploy", "deploying">>,
    <<"ready_to_deploy", "block", "blocked">>,
    <<"ready_to_deploy", "cancel", "cancelled">>,
    <<"deploying", "mark_deployment_healthy", "client_qa">>,
    <<"deploying", "fail_deployment", "failed">>,
    <<"client_qa", "accept_feature", "rolling_out">>,
    <<"client_qa", "request_changes", "changes_requested">>,
    <<"client_qa", "block", "blocked">>,
    <<"rolling_out", "complete_rollout", "done">>,
    <<"rolling_out", "block", "blocked">>,
    <<"failed", "retry_deployment", "ready_to_deploy">>,
    <<"failed", "cancel", "cancelled">> }

CommandType == {"submit_work", "resolve_block"} \cup {t[2] : t \in Transitions}

WorkItem == [state : State \cup {NoState}, resume : State \cup {NoState},
             version : Nat]

EmptyItem == [state |-> NoState, resume |-> NoState, version |-> 0]

RequiresReason(type) ==
  type \in {"block", "cancel", "reject_work", "fail_deployment"}

(* Allowed: the command types an item offers in its current state. *)
Allowed(item) ==
  IF item = EmptyItem THEN {"submit_work"}
  ELSE IF item.state = "blocked" THEN {"resolve_block"}
  ELSE {t[2] : t \in {u \in Transitions : u[1] = item.state}}

(* Mutant of Targets: unblocking always restarts from "ready".             *)
TargetsForgetOrigin(item, type) ==
  {to \in State :
     \/ type = "submit_work" /\ item = EmptyItem /\ to = "inbox"
     \/ <<item.state, type, to>> \in Transitions
     \/ type = "resolve_block" /\ item.state = "blocked" /\ to = "ready"}

(***************************************************************************)
(* Where a command of a given type takes an item: a set of at most one     *)
(* state, empty when Handle answers ErrTransitionNotAllowed or             *)
(* ErrTerminalState.                                                       *)
(***************************************************************************)
Targets(item, type) ==
  {to \in State :
     \/ /\ type = "submit_work"
        /\ item = EmptyItem
        /\ to = "inbox"
     \/ /\ item.state \notin Terminal
        /\ <<item.state, type, to>> \in Transitions
     \/ /\ type = "resolve_block"
        /\ item.state = "blocked"
        /\ to = item.resume
        /\ to # "blocked"}

(***************************************************************************)
(* validateCommand: the aggregate exists unless the command submits it,    *)
(* the version it expects is the item's, and the commands that need a      *)
(* reason have one.                                                        *)
(***************************************************************************)
Validated(item, c) ==
  /\ c.type # "submit_work" => item # EmptyItem
  /\ c.expected = item.version
  /\ RequiresReason(c.type) => c.reason

(* Mutant of Handle: the event of resolve_block is built before its target  *)
(* is looked up.                                                           *)
HandleForgetsTarget(item, c) ==
  IF ~Validated(item, c) THEN {}
  ELSE {[kind    |-> IF c.type = "submit_work" THEN "work_submitted"
                                               ELSE "state_changed",
         version |-> item.version + 1,
         command |-> c.id,
         actor   |-> c.actor,
         from    |-> item.state,
         to      |-> IF c.type = "resolve_block" THEN NoState ELSE to] :
           to \in Targets(item, c.type)}

(* Handle: the events of a command, none when it is refused. *)
Handle(item, c) ==
  IF ~Validated(item, c) THEN {}
  ELSE {[kind    |-> IF c.type = "submit_work" THEN "work_submitted"
                                               ELSE "state_changed",
         version |-> item.version + 1,
         command |-> c.id,
         actor   |-> c.actor,
         from    |-> item.state,
         to      |-> to] : to \in Targets(item, c.type)}

(***************************************************************************)
(* Fold, one event at a time.  Replay answers Corrupt where Fold returns   *)
(* an error (version gap, unknown type, transition mismatch).              *)
(***************************************************************************)
Corrupt == [state |-> "corrupt", resume |-> NoState, version |-> 0]

(* Mutant of Replay: leaving "blocked" does not clear what it resumes.     *)
ReplayKeepsResume(item, e) ==
  LET accepts ==
        /\ item # Corrupt
        /\ e.version = item.version + 1
        /\ item.state = "blocked" /\ e.to # "blocked" => e.to = item.resume
  IN  IF ~accepts THEN Corrupt
      ELSE [state   |-> e.to,
            resume  |-> IF e.to = "blocked" THEN item.state ELSE item.resume,
            version |-> e.version]

Replay(item, e) ==
  LET first   == item = EmptyItem
      enters  == item.state # "blocked" /\ e.to = "blocked"
      leaves  == item.state = "blocked" /\ e.to # "blocked"
      accepts ==
        /\ item # Corrupt
        /\ e.version = item.version + 1
        /\ first  => e.kind = "work_submitted" /\ e.to = "inbox"
        /\ ~first => /\ e.kind = "state_changed"
                     /\ e.from = item.state
                     /\ e.to \in State
                     /\ leaves => e.to = item.resume
  IN  IF ~accepts THEN Corrupt
      ELSE [state   |-> e.to,
            resume  |-> IF enters THEN item.state
                        ELSE IF leaves THEN NoState ELSE item.resume,
            version |-> e.version]

Fold(events) ==
  LET after[n \in 0..Len(events)] ==
        IF n = 0 THEN EmptyItem ELSE Replay(after[n - 1], events[n])
  IN  after[Len(events)]

(***************************************************************************)
(* What Fold comes to on a history it accepts: the last event says it all, *)
(* because an item enters "blocked" only from the state it will resume.    *)
(* FoldAgrees (module Journal) checks this against Fold.                   *)
(***************************************************************************)
Projection(events) ==
  IF events = <<>> THEN EmptyItem
  ELSE LET last == events[Len(events)]
       IN  [state   |-> last.to,
            resume  |-> IF last.to = "blocked" THEN last.from ELSE NoState,
            version |-> last.version]
=============================================================================
