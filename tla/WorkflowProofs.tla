--------------------------- MODULE WorkflowProofs ---------------------------
(***************************************************************************)
(* Facts about Handle and Replay for any Work Item and any command, which  *)
(* the proofs about the clients of the workflow share.                     *)
(***************************************************************************)
EXTENDS Workflow, TLAPS

(* The transitions table: no row leads on from rest or from "blocked", and *)
(* none is for the two commands that Handle treats apart.                  *)
LEMMA TableRows ==
  \A t \in Transitions :
    /\ t = <<t[1], t[2], t[3]>>
    /\ t[1] \in State \ (Terminal \cup {"blocked"})
    /\ t[2] \in CommandType \ {"submit_work", "resolve_block"}
    /\ t[3] \in State
<1>1. \A t \in Transitions :
        /\ t = <<t[1], t[2], t[3]>>
        /\ t[1] \in State \ (Terminal \cup {"blocked"})
        /\ t[3] \in State
  BY DEF Transitions, State, Terminal
<1>2. \A t \in Transitions : t[2] \notin {"submit_work", "resolve_block"}
  BY DEF Transitions
<1>3. \A t \in Transitions : t[2] \in CommandType
  BY DEF CommandType
<1>4. QED
  BY <1>1, <1>2, <1>3

(* A command leads from one state to one state. *)
LEMMA TableIsAFunction ==
  \A t, u \in Transitions : t[1] = u[1] /\ t[2] = u[2] => t[3] = u[3]
BY DEF Transitions

(* An event of Handle is one the item's version and state call for. *)
LEMMA HandleSound ==
  ASSUME NEW it \in WorkItem, NEW c, NEW e \in Handle(it, c)
  PROVE  /\ Validated(it, c)
         /\ e.version = it.version + 1
         /\ e.from = it.state
         /\ e.to \in Targets(it, c.type) /\ e.to \in State
         /\ e.kind = IF c.type = "submit_work" THEN "work_submitted"
                                               ELSE "state_changed"
<1>1. Validated(it, c)
  BY DEF Handle
<1>2. PICK to \in Targets(it, c.type) :
        e = [kind    |-> IF c.type = "submit_work" THEN "work_submitted"
                                                   ELSE "state_changed",
             version |-> it.version + 1,
             command |-> c.id,
             actor   |-> c.actor,
             from    |-> it.state,
             to      |-> to]
  BY <1>1 DEF Handle
<1>3. to \in State
  BY DEF Targets
<1>4. QED
  BY <1>1, <1>2, <1>3

(* Replaying what Handle answered never fails: the item is one version on, *)
(* in the state the event leads to.                                        *)
LEMMA ReplayHandled ==
  ASSUME NEW it \in WorkItem, NEW c, NEW e \in Handle(it, c)
  PROVE  /\ Replay(it, e) \in WorkItem
         /\ Replay(it, e).version = it.version + 1
         /\ Replay(it, e).state = e.to
         /\ e.to \in State
<1>1. /\ e.version = it.version + 1
      /\ e.from = it.state
      /\ e.to \in Targets(it, c.type) /\ e.to \in State
      /\ e.kind = IF c.type = "submit_work" THEN "work_submitted"
                                            ELSE "state_changed"
      /\ c.type # "submit_work" => it # EmptyItem
  BY HandleSound DEF Validated
<1>2. it # Corrupt
  BY DEF WorkItem, Corrupt, State, NoState
<1>3. c.type = "submit_work" => it = EmptyItem /\ e.to = "inbox"
  BY <1>1, TableRows DEF Targets
<1>4. it.state = "blocked" => e.to = it.resume
  BY <1>1, <1>3, TableRows DEF Targets, EmptyItem, NoState
<1>5. /\ it = EmptyItem  => e.kind = "work_submitted" /\ e.to = "inbox"
      /\ it # EmptyItem => e.kind = "state_changed"
  BY <1>1, <1>3
<1> DEFINE next == [state   |-> e.to,
                    resume  |-> IF it.state # "blocked" /\ e.to = "blocked"
                                  THEN it.state
                                ELSE IF it.state = "blocked" /\ e.to # "blocked"
                                  THEN NoState ELSE it.resume,
                    version |-> e.version]
<1>6. Replay(it, e) = next
  BY <1>1, <1>2, <1>4, <1>5 DEF Replay
<1>7. it.version \in Nat /\ it.state \in State \cup {NoState}
      /\ it.resume \in State \cup {NoState}
  BY DEF WorkItem
<1>8. next \in WorkItem
  BY <1>1, <1>7 DEF WorkItem
<1>9. QED
  BY <1>1, <1>6, <1>8
=============================================================================
