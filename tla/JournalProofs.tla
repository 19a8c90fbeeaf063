---------------------------- MODULE JournalProofs ----------------------------
(***************************************************************************)
(* What holds of the journal for every set of items, clients, commands and *)
(* every bound.                                                            *)
(***************************************************************************)
EXTENDS Journal, SequenceTheorems, FiniteSetTheorems, WellFoundedInduction,
        TLAPS

-----------------------------------------------------------------------------
(* Facts about the pure operators.                                         *)

(* The item a well-typed history amounts to is a well-typed item. *)
LEMMA ProjectionType ==
  ASSUME NEW events \in Seq(Event)
  PROVE  Projection(events) \in WorkItem
<1>1. CASE events = <<>>
  BY <1>1 DEF Projection, EmptyItem, WorkItem
<1>2. CASE events # <<>>
  <2>1. events[Len(events)] \in Event
    BY <1>2
  <2>2. QED
    BY <1>2, <2>1 DEF Projection, Event, WorkItem
<1>3. QED
  BY <1>1, <1>2

(* Reading back a history just extended gives what its last event says. *)
LEMMA ProjectionAppend ==
  ASSUME NEW events \in Seq(Event), NEW e \in Event
  PROVE  Projection(Append(events, e)) =
           [state   |-> e.to,
            resume  |-> IF e.to = "blocked" THEN e.from ELSE NoState,
            version |-> e.version]
<1>1. Len(Append(events, e)) = Len(events) + 1
  BY AppendProperties
<1>2. Append(events, e)[Len(events) + 1] = e
  BY AppendProperties
<1>3. Append(events, e) # <<>>
  BY AppendProperties
<1>4. QED
  BY <1>1, <1>2, <1>3 DEF Projection

(* The event Handle returns: well typed, one version on, from the item's    *)
(* state to one the command may take it to.                                *)
LEMMA HandleEvent ==
  ASSUME NEW item \in WorkItem, NEW c \in Request, NEW e \in Handle(item, c)
  PROVE  /\ e \in Event
         /\ e.version = item.version + 1
         /\ e.command = c.id
         /\ e.actor = c.actor
         /\ e.from = item.state
         /\ e.to \in Targets(item, c.type)
         /\ e.kind = IF c.type = "submit_work" THEN "work_submitted"
                                              ELSE "state_changed"
         /\ Validated(item, c)
<1>1. Validated(item, c)
  BY DEF Handle
<1>2. PICK to \in Targets(item, c.type) :
        e = [kind    |-> IF c.type = "submit_work" THEN "work_submitted"
                                                  ELSE "state_changed",
             version |-> item.version + 1,
             command |-> c.id,
             actor   |-> c.actor,
             from    |-> item.state,
             to      |-> to]
  BY <1>1 DEF Handle
<1>3. to \in State
  BY DEF Targets
<1>4. QED
  BY <1>1, <1>2, <1>3 DEF Event, Request, WorkItem

-----------------------------------------------------------------------------
(* Type correctness.                                                       *)

LEMMA IssueType ==
  ASSUME TypeOK, NEW i \in Item, NEW ctx \in Clients, NEW type \in Menu,
         NEW reason \in BOOLEAN, NEW expected \in 0 .. MaxVersion[i],
         Issue(i, ctx, type, reason, expected)
  PROVE  TypeOK'
<1> DEFINE id == CHOOSE u \in CommandId : u \in UnusedIds
           r  == [id |-> id, item |-> i, expected |-> expected,
                  actor |-> ctx.actor, type |-> type, reason |-> reason,
                  seen |-> Load(i).state]
<1>1. id \in CommandId
  BY DEF Issue, UnusedIds
<1>2. Load(i).state \in State \cup {NoState}
  BY ProjectionType DEF TypeOK, Load, WorkItem
<1>3. ctx.actor \in ActorKind /\ type \in CommandType /\ expected \in Nat
  BY ClientsAssumption, MenuAssumption, BoundsAssumption DEF Context
<1>4. r \in Request
  BY <1>1, <1>2, <1>3 DEF Request
<1>5. pending' = pending \cup {r}
  BY DEF Issue
<1>6. NoAnswer \in Answer
  BY DEF NoAnswer, Reply, Answer
<1>7. answer' \in [CommandId -> Answer]
  BY <1>1, <1>6 DEF Issue, TypeOK
<1>8. QED
  BY <1>4, <1>5, <1>7 DEF Issue, TypeOK

LEMMA ReplyType ==
  /\ \A e \in Event : Reply("committed", <<e>>) \in Answer
  /\ Reply("conflict", <<>>) \in Answer
  /\ Reply("refused", <<>>) \in Answer
  /\ NoAnswer \in Answer
BY DEF Reply, Answer, NoAnswer

LEMMA CommitEvent ==
  ASSUME TypeOK, NEW r \in pending, Commit(r)
  PROVE  \E e \in Handle(Load(r.item), r) :
           /\ e \in Event
           /\ log' = [log EXCEPT ![r.item] = Append(@, e)]
           /\ answer' = [answer EXCEPT ![r.id] = Reply("committed", <<e>>)]
<1>1. r \in Request /\ r.item \in Item
  BY DEF TypeOK, Request
<1>2. Load(r.item) \in WorkItem
  BY <1>1, ProjectionType DEF TypeOK, Load
<1>3. QED
  BY <1>1, <1>2, HandleEvent DEF Commit

LEMMA NextType == TypeOK /\ [Next]_vars => TypeOK'
<1> SUFFICES ASSUME TypeOK, [Next]_vars PROVE TypeOK'
  OBVIOUS
<1>1. ASSUME NEW i \in Item, NEW ctx \in Clients, NEW type \in Menu,
             NEW reason \in BOOLEAN, NEW expected \in 0 .. MaxVersion[i],
             Issue(i, ctx, type, reason, expected)
      PROVE  TypeOK'
  BY <1>1, IssueType
<1>2. ASSUME NEW r \in pending, Duplicate(r)
      PROVE  TypeOK'
  <2>1. PICK i \in Item : \E k \in DOMAIN log[i] :
          answer' = [answer EXCEPT ![r.id] = Reply("committed", <<log[i][k]>>)]
    BY <1>2 DEF Duplicate
  <2>2. PICK k \in DOMAIN log[i] :
          answer' = [answer EXCEPT ![r.id] = Reply("committed", <<log[i][k]>>)]
    BY <2>1
  <2>3. log[i][k] \in Event
    BY DEF TypeOK
  <2>4. QED
    BY <1>2, <2>2, <2>3, ReplyType DEF Duplicate, TypeOK
<1>3. ASSUME NEW r \in pending, Conflict(r)
      PROVE  TypeOK'
  BY <1>3, ReplyType DEF Conflict, TypeOK
<1>4. ASSUME NEW r \in pending, Refuse(r)
      PROVE  TypeOK'
  BY <1>4, ReplyType DEF Refuse, TypeOK
<1>5. ASSUME NEW r \in pending, Commit(r)
      PROVE  TypeOK'
  <2>1. PICK e \in Handle(Load(r.item), r) :
          /\ e \in Event
          /\ log' = [log EXCEPT ![r.item] = Append(@, e)]
          /\ answer' = [answer EXCEPT ![r.id] = Reply("committed", <<e>>)]
    BY <1>5, CommitEvent
  <2>2. r \in Request
    BY DEF TypeOK
  <2>3. log' \in [Item -> Seq(Event)]
    BY <2>1, <2>2 DEF TypeOK, Request
  <2>4. answer' \in [CommandId -> Answer]
    BY <2>1, ReplyType DEF TypeOK
  <2>5. QED
    BY <1>5, <2>2, <2>3, <2>4 DEF Commit, TypeOK, Request
<1>6. ASSUME NEW r \in pending, Settle(r)
      PROVE  TypeOK'
  BY <1>6, ReplyType DEF Settle, TypeOK
<1>7. CASE UNCHANGED vars
  BY <1>7 DEF vars, TypeOK
<1>8. QED
  BY <1>1, <1>2, <1>3, <1>4, <1>5, <1>6, <1>7 DEF Next, Apply

(* Every row, call and answer has its type in every reachable state. *)
THEOREM TypeCorrect == Spec => []TypeOK
<1>1. Init => TypeOK
  BY DEF Init, TypeOK, NoAnswer, Reply, Answer
<1>2. QED
  BY <1>1, NextType, PTL DEF Spec
-----------------------------------------------------------------------------
(* The chain of events.                                                    *)

(* submit_work acts on an item without a history only, and is all that     *)
(* does.                                                                   *)
LEMMA SubmitTargets ==
  ASSUME NEW item \in WorkItem, NEW type \in CommandType,
         NEW to \in Targets(item, type)
  PROVE  /\ type = "submit_work" => item = EmptyItem
         /\ item = EmptyItem => type = "submit_work" /\ to = "inbox"
BY DEF Targets, Transitions, EmptyItem, NoState

(* In a chain the loaded version is the number of rows. *)
LEMMA LoadVersion ==
  ASSUME TypeOK, ChainOK, NEW i \in Item
  PROVE  /\ Load(i) \in WorkItem
         /\ Load(i).version = Len(log[i])
         /\ log[i] = <<>> <=> Load(i) = EmptyItem
<1>1. log[i] \in Seq(Event)
  BY DEF TypeOK
<1>2. CASE log[i] = <<>>
  BY <1>1, <1>2, ProjectionType DEF Load, Projection, EmptyItem
<1>3. CASE log[i] # <<>>
  <2>1. Len(log[i]) \in DOMAIN log[i] /\ Len(log[i]) > 0
    BY <1>1, <1>3
  <2>2. log[i][Len(log[i])].version = Len(log[i])
    BY <2>1 DEF ChainOK, Linked
  <2>3. Load(i).version = Len(log[i])
    BY <1>3, <2>2 DEF Load, Projection
  <2>4. Load(i) # EmptyItem
    BY <2>1, <2>3 DEF EmptyItem
  <2>5. QED
    BY <1>1, <1>3, <2>3, <2>4, ProjectionType DEF Load
<1>4. QED
  BY <1>2, <1>3

LEMMA CommitChain ==
  ASSUME TypeOK, ChainOK, NEW r \in pending, Commit(r)
  PROVE  ChainOK'
<1> DEFINE i == r.item
           item == Load(i)
<1>1. PICK e \in Handle(item, r) :
        e \in Event /\ log' = [log EXCEPT ![i] = Append(@, e)]
  BY CommitEvent
<1>2. r \in Request /\ i \in Item /\ r.type \in CommandType
  BY DEF TypeOK, Request
<1>3. /\ item \in WorkItem
      /\ item.version = Len(log[i])
      /\ log[i] = <<>> <=> item = EmptyItem
  BY <1>2, LoadVersion
<1>4. /\ e.version = Len(log[i]) + 1
      /\ e.from = item.state
      /\ e.to \in Targets(item, r.type)
      /\ e.kind = IF r.type = "submit_work" THEN "work_submitted"
                                            ELSE "state_changed"
  BY <1>1, <1>2, <1>3, HandleEvent
<1>5. log[i] \in Seq(Event) /\ log'[i] = Append(log[i], e)
  BY <1>1, <1>2 DEF TypeOK
<1>6. /\ \A k \in 1 .. Len(log[i]) : log'[i][k] = log[i][k]
      /\ log'[i][Len(log[i]) + 1] = e
      /\ DOMAIN log'[i] = 1 .. Len(log[i]) + 1
      /\ Len(log[i]) \in Nat
  BY <1>5
<1>7. Linked(log'[i], Len(log[i]) + 1)
  <2>1. CASE log[i] = <<>>
    <3>1. Len(log[i]) = 0 /\ item = EmptyItem
      BY <1>3, <2>1
    <3>2. r.type = "submit_work" /\ e.to = "inbox"
      BY <1>2, <1>3, <1>4, <3>1, SubmitTargets
    <3>3. QED
      BY <1>4, <1>6, <3>1, <3>2 DEF Linked, EmptyItem
  <2>2. CASE log[i] # <<>>
    <3> DEFINE last == log[i][Len(log[i])]
    <3>1. Len(log[i]) >= 1
      BY <1>5, <2>2
    <3>2. /\ item.state = last.to
          /\ item.state = "blocked" => item.resume = last.from
      BY <2>2 DEF Load, Projection
    <3>3. r.type # "submit_work"
      BY <1>2, <1>3, <1>4, <2>2, SubmitTargets
    <3>4. e.kind = "state_changed" /\ e.from = last.to
      BY <1>4, <3>2, <3>3
    <3>5. \/ \E t \in Transitions : t[1] = e.from /\ t[3] = e.to
          \/ /\ e.from = "blocked"
             /\ e.to = last.from
             /\ e.to # "blocked"
      <4>1. CASE <<item.state, r.type, e.to>> \in Transitions
        BY <1>4, <4>1
      <4>2. CASE item.state = "blocked" /\ e.to = item.resume /\ e.to # "blocked"
        BY <1>4, <3>2, <4>2
      <4>3. QED
        BY <1>4, <3>3, <4>1, <4>2 DEF Targets
    <3>6. log'[i][(Len(log[i]) + 1) - 1] = last
      BY <1>6, <3>1
    <3>7. QED
      BY <1>4, <1>6, <3>1, <3>4, <3>5, <3>6 DEF Linked
  <2>3. QED
    BY <2>1, <2>2
<1>8. ASSUME NEW k \in 1 .. Len(log[i])
      PROVE  Linked(log'[i], k)
  <2>1. Linked(log[i], k)
    BY <1>2, <1>5, <1>8 DEF ChainOK
  <2>2. log'[i][k] = log[i][k] /\ (k > 1 => log'[i][k - 1] = log[i][k - 1])
    BY <1>6
  <2>3. QED
    BY <2>1, <2>2 DEF Linked
<1>9. \A j \in Item : j # i => log'[j] = log[j]
  BY <1>1, <1>2 DEF TypeOK
<1>10. \A k \in DOMAIN log'[i] : Linked(log'[i], k)
  BY <1>6, <1>7, <1>8
<1>11. QED
  BY <1>9, <1>10 DEF ChainOK

LEMMA NextChain == TypeOK /\ ChainOK /\ [Next]_vars => ChainOK'
<1> SUFFICES ASSUME TypeOK, ChainOK, [Next]_vars PROVE ChainOK'
  OBVIOUS
<1>1. ASSUME NEW r \in pending, Commit(r) PROVE ChainOK'
  BY <1>1, CommitChain
<1>2. ASSUME log' = log PROVE ChainOK'
  BY <1>2 DEF ChainOK
<1>3. QED
  BY <1>1, <1>2
     DEF Next, Apply, Issue, Duplicate, Conflict, Refuse, Settle, vars

(* Every stored history is a chain of legal moves: Fold never rejects one. *)
THEOREM ChainCorrect == Spec => []ChainOK
<1>1. Init => ChainOK
  BY DEF Init, ChainOK
<1>2. QED
  BY <1>1, NextChain, TypeCorrect, PTL DEF Spec

-----------------------------------------------------------------------------
(* At most one effect per command.                                         *)

LEMMA CommitOnce ==
  ASSUME TypeOK, OncePerCommand, ChainOK, NEW r \in pending, Commit(r)
  PROVE  OncePerCommand'
<1> DEFINE i == r.item
           n == Len(log[i]) + 1
<1>1. PICK e \in Handle(Load(i), r) :
        e \in Event /\ log' = [log EXCEPT ![i] = Append(@, e)]
  BY CommitEvent
<1>2. r \in Request /\ i \in Item
  BY DEF TypeOK, Request
<1>3. e.command = r.id
  BY <1>1, <1>2, LoadVersion, HandleEvent
<1>4. log[i] \in Seq(Event) /\ log'[i] = Append(log[i], e)
  BY <1>1, <1>2 DEF TypeOK
<1>5. /\ DOMAIN log'[i] = DOMAIN log[i] \cup {n}
      /\ n \notin DOMAIN log[i]
      /\ log'[i][n] = e
      /\ \A k \in DOMAIN log[i] : log'[i][k] = log[i][k]
  BY <1>4
<1>6. \A j \in Item : j # i => log'[j] = log[j]
  BY <1>1, <1>2 DEF TypeOK
<1>7. commands' = commands \cup {r.id} /\ r.id \notin commands
  BY DEF Commit
<1>8. \A j \in Item : \A k \in DOMAIN log[j] : log[j][k].command \in commands
  BY DEF OncePerCommand
<1>9. \A j \in Item : \A k \in DOMAIN log'[j] :
        \/ j = i /\ k = n /\ log'[j][k].command = r.id
        \/ /\ k \in DOMAIN log[j]
           /\ log'[j][k] = log[j][k]
           /\ log[j][k].command # r.id
  BY <1>3, <1>5, <1>6, <1>7, <1>8
<1>10. ASSUME NEW j1 \in Item, NEW j2 \in Item,
              NEW k1 \in DOMAIN log'[j1], NEW k2 \in DOMAIN log'[j2],
              log'[j1][k1].command = log'[j2][k2].command
       PROVE  j1 = j2 /\ k1 = k2
  BY <1>9, <1>10 DEF OncePerCommand
<1>11. commands' = UNION {{log'[j][k].command : k \in DOMAIN log'[j]} : j \in Item}
  <2>1. ASSUME NEW id \in commands'
        PROVE  \E j \in Item : \E k \in DOMAIN log'[j] : id = log'[j][k].command
    <3>1. CASE id = r.id
      BY <1>2, <1>3, <1>5, <3>1
    <3>2. CASE id \in commands
      <4>1. PICK j \in Item : \E k \in DOMAIN log[j] : id = log[j][k].command
        BY <3>2 DEF OncePerCommand
      <4>2. PICK k \in DOMAIN log[j] : id = log[j][k].command
        BY <4>1
      <4>3. k \in DOMAIN log'[j] /\ log'[j][k] = log[j][k]
        BY <1>5, <1>6
      <4>4. QED
        BY <4>2, <4>3
    <3>3. QED
      BY <1>7, <2>1, <3>1, <3>2
  <2>2. ASSUME NEW j \in Item, NEW k \in DOMAIN log'[j]
        PROVE  log'[j][k].command \in commands'
    BY <1>7, <1>8, <1>9
  <2>3. QED
    BY <2>1, <2>2
<1>12. QED
  BY <1>10, <1>11 DEF OncePerCommand

(* A command takes effect at most once, whatever is raced or retried. *)
THEOREM OnceCorrect == Spec => []OncePerCommand
<1>1. Init => OncePerCommand
  BY DEF Init, OncePerCommand
<1>2. TypeOK /\ ChainOK /\ OncePerCommand /\ [Next]_vars => OncePerCommand'
  <2> SUFFICES ASSUME TypeOK, ChainOK, OncePerCommand, [Next]_vars
               PROVE  OncePerCommand'
    OBVIOUS
  <2>1. ASSUME NEW r \in pending, Commit(r) PROVE OncePerCommand'
    BY <2>1, CommitOnce
  <2>2. ASSUME log' = log, commands' = commands PROVE OncePerCommand'
    BY <2>2 DEF OncePerCommand
  <2>3. QED
    BY <2>1, <2>2
       DEF Next, Apply, Issue, Duplicate, Conflict, Refuse, Settle, vars
<1>3. QED
  BY <1>1, <1>2, TypeCorrect, ChainCorrect, PTL DEF Spec

-----------------------------------------------------------------------------
(* The human gates.                                                        *)

(* No call outstanding carries a gate command in automation's name.  The   *)
(* gatekeeper looked at the command before the call was made, and a call's *)
(* type does not change while it waits.                                    *)
GatesClosed ==
  \A r \in pending : r.actor = "automation" => AutomationAllowed(r.type)

LEMMA IssueGates ==
  ASSUME GatesClosed, NEW i \in Item, NEW ctx \in Clients, NEW type \in Menu,
         NEW reason \in BOOLEAN, NEW expected \in 0 .. MaxVersion[i],
         Issue(i, ctx, type, reason, expected)
  PROVE  GatesClosed'
<1>1. ctx.actor = "automation" => AutomationAllowed(type)
  BY DEF Issue, Permits, Decide
<1>2. QED
  BY <1>1 DEF Issue, GatesClosed

LEMMA NextGates == TypeOK /\ GatesClosed /\ [Next]_vars => GatesClosed'
<1> SUFFICES ASSUME GatesClosed, [Next]_vars PROVE GatesClosed'
  OBVIOUS
<1>1. ASSUME NEW i \in Item, NEW ctx \in Clients, NEW type \in Menu,
             NEW reason \in BOOLEAN, NEW expected \in 0 .. MaxVersion[i],
             Issue(i, ctx, type, reason, expected)
      PROVE  GatesClosed'
  BY <1>1, IssueGates
<1>2. ASSUME pending' \subseteq pending PROVE GatesClosed'
  BY <1>2 DEF GatesClosed
<1>3. QED
  BY <1>1, <1>2
     DEF Next, Apply, Duplicate, Conflict, Refuse, Commit, Settle, vars

(* The table has one way into Building and one into Delivering, each        *)
(* behind a command automation may not issue.                              *)
LEMMA GateTransitions ==
  ASSUME NEW t \in Transitions
  PROVE  /\ t[1] # "blocked"
         /\ t[3] \in Building \cup Delivering /\ t[1] \notin Building \cup Delivering
              => t = <<"triage", "authorize_work", "ready">>
         /\ t[3] \in Delivering /\ t[1] \notin Delivering
              => t = <<"reviewing", "approve_pr", "ready_to_deploy">>
BY DEF Transitions, Building, Delivering

LEMMA CommitGates ==
  ASSUME TypeOK, ChainOK, GatesClosed, HumanGates, NEW r \in pending, Commit(r)
  PROVE  HumanGates'
<1> DEFINE i == r.item
           item == Load(i)
           n == Len(log[i]) + 1
<1>1. PICK e \in Handle(item, r) :
        e \in Event /\ log' = [log EXCEPT ![i] = Append(@, e)]
  BY CommitEvent
<1>2. r \in Request /\ i \in Item /\ r.type \in CommandType
  BY DEF TypeOK, Request
<1>3. /\ item \in WorkItem
      /\ item.state \in State \cup {NoState}
  BY <1>2, LoadVersion DEF WorkItem
<1>4. /\ e.from = item.state
      /\ e.actor = r.actor
      /\ e.to \in Targets(item, r.type)
  BY <1>1, <1>2, <1>3, HandleEvent
<1>5. log[i] \in Seq(Event) /\ log'[i] = Append(log[i], e)
  BY <1>1, <1>2 DEF TypeOK
<1>6. /\ DOMAIN log'[i] = DOMAIN log[i] \cup {n}
      /\ n \in DOMAIN log'[i]
      /\ \A k \in DOMAIN log'[i] : ~(k > n)
      /\ log'[i][n] = e
      /\ \A k \in DOMAIN log[i] : log'[i][k] = log[i][k]
  BY <1>5
<1>7. \A j \in Item : j # i => log'[j] = log[j]
  BY <1>1, <1>2 DEF TypeOK
<1>8. Stands(i)' = IF e.to = "blocked" THEN e.from ELSE e.to
  BY <1>1, <1>5, ProjectionAppend DEF Stands, Load, NoState
<1>9. Authorized(i) => Authorized(i)'
  BY <1>6 DEF Authorized
<1>10. Approved(i) /\ e.to # "implementing" => Approved(i)'
  BY <1>6 DEF Approved
<1>11. /\ Stands(i)' \in Building \cup Delivering => Authorized(i)'
       /\ Stands(i)' \in Delivering => Approved(i)'
  <2>1. CASE Stands(i)' = Stands(i) /\ (Stands(i) \in Delivering => e.to # "implementing")
    BY <1>2, <1>9, <1>10, <2>1 DEF HumanGates
  <2>2. CASE item.state = "blocked" /\ e.to = item.resume /\ e.to # "blocked"
    BY <1>8, <2>1, <2>2 DEF Stands, Delivering
  <2>3. CASE e.to = "inbox"
    BY <1>8, <2>3 DEF Building, Delivering
  <2>4. CASE <<item.state, r.type, e.to>> \in Transitions
    <3> DEFINE t == <<item.state, r.type, e.to>>
    <3>1. t[1] # "blocked" /\ Stands(i) = item.state
      BY <2>4, GateTransitions DEF Stands
    <3>2. CASE e.to = "blocked"
      BY <1>4, <1>8, <2>1, <3>1, <3>2
    <3>3. CASE e.to # "blocked"
      <4>1. Stands(i)' = e.to
        BY <1>8, <3>3
      <4>2. e.to \in Building \cup Delivering => Authorized(i)'
        <5>1. CASE item.state \in Building \cup Delivering
          BY <1>2, <1>9, <3>1, <5>1 DEF HumanGates
        <5>2. CASE item.state \notin Building \cup Delivering /\ e.to \in Building \cup Delivering
          <6>1. t = <<"triage", "authorize_work", "ready">>
            BY <2>4, <5>2, GateTransitions
          <6>2. Human(e) /\ e.from = "triage" /\ e.to = "ready"
            BY <1>4, <6>1 DEF GatesClosed, AutomationAllowed, Human
          <6>3. QED
            BY <1>6, <6>2 DEF Authorized
        <5>3. QED
          BY <5>1, <5>2
      <4>3. e.to \in Delivering => Approved(i)'
        <5>1. CASE item.state \in Delivering
          BY <1>2, <1>10, <3>1, <5>1 DEF HumanGates, Delivering
        <5>2. CASE item.state \notin Delivering /\ e.to \in Delivering
          <6>1. t = <<"reviewing", "approve_pr", "ready_to_deploy">>
            BY <2>4, <5>2, GateTransitions
          <6>2. Human(e) /\ e.from = "reviewing" /\ e.to = "ready_to_deploy"
            BY <1>4, <6>1 DEF GatesClosed, AutomationAllowed, Human
          <6>3. QED
            BY <1>6, <6>2 DEF Approved
        <5>3. QED
          BY <5>1, <5>2
      <4>4. QED
        BY <4>1, <4>2, <4>3
    <3>4. QED
      BY <3>2, <3>3
  <2>5. QED
    BY <1>4, <2>2, <2>3, <2>4 DEF Targets
<1>12. ASSUME NEW j \in Item, j # i
       PROVE  /\ Stands(j)' \in Building \cup Delivering => Authorized(j)'
              /\ Stands(j)' \in Delivering => Approved(j)'
  <2>1. log'[j] = log[j]
    BY <1>7, <1>12
  <2>2. /\ Stands(j)' = Stands(j)
        /\ Authorized(j)' <=> Authorized(j)
        /\ Approved(j)' <=> Approved(j)
    BY <2>1 DEF Stands, Load, Authorized, Approved
  <2>3. QED
    BY <2>2 DEF HumanGates
<1>13. QED
  BY <1>2, <1>11, <1>12 DEF HumanGates

(* No item is built without a human's authorization, none delivered without *)
(* a human's approval of the last implementation.                          *)
THEOREM HumanGatesHold == Spec => []HumanGates
<1>1. Init => HumanGates /\ GatesClosed
  BY DEF Init, HumanGates, GatesClosed, Stands, Load, Projection, EmptyItem,
         NoState, Building, Delivering
<1>2. TypeOK /\ ChainOK /\ GatesClosed /\ HumanGates /\ [Next]_vars => HumanGates'
  <2> SUFFICES ASSUME TypeOK, ChainOK, GatesClosed, HumanGates, [Next]_vars
               PROVE  HumanGates'
    OBVIOUS
  <2>1. ASSUME NEW r \in pending, Commit(r) PROVE HumanGates'
    BY <2>1, CommitGates
  <2>2. ASSUME log' = log PROVE HumanGates'
    BY <2>2 DEF HumanGates, Stands, Load, Authorized, Approved
  <2>3. QED
    BY <2>1, <2>2
       DEF Next, Apply, Issue, Duplicate, Conflict, Refuse, Settle, vars
<1>3. QED
  BY <1>1, <1>2, NextGates, TypeCorrect, ChainCorrect, PTL DEF Spec
-----------------------------------------------------------------------------
(* What a waiting call knows.                                              *)

(* No two calls outstanding have the same command ID: commandID() draws a  *)
(* new one for each.                                                       *)
DistinctCalls == \A r, q \in pending : r.id = q.id => r = q

(* What automation saw is either the item as it still is, or a version the *)
(* item has left behind: versions only grow.                               *)
SeenOrStale ==
  \A r \in pending :
    r.actor = "automation" =>
      /\ r.expected <= Load(r.item).version
      /\ r.expected = Load(r.item).version => r.seen = Load(r.item).state

(* A commit moves its item one version on, and touches no other. *)
LEMMA CommitLoads ==
  ASSUME TypeOK, ChainOK, NEW r \in pending, Commit(r)
  PROVE  \E e \in Handle(Load(r.item), r) :
           /\ e \in Event
           /\ log'[r.item] = Append(log[r.item], e)
           /\ Load(r.item)' =
                [state   |-> e.to,
                 resume  |-> IF e.to = "blocked" THEN e.from ELSE NoState,
                 version |-> Load(r.item).version + 1]
           /\ \A j \in Item : j # r.item => log'[j] = log[j] /\ Load(j)' = Load(j)
<1> DEFINE i == r.item
<1>1. PICK e \in Handle(Load(i), r) :
        e \in Event /\ log' = [log EXCEPT ![i] = Append(@, e)]
  BY CommitEvent
<1>2. r \in Request /\ i \in Item
  BY DEF TypeOK, Request
<1>3. log[i] \in Seq(Event) /\ log'[i] = Append(log[i], e)
  BY <1>1, <1>2 DEF TypeOK
<1>4. \A j \in Item : j # i => log'[j] = log[j]
  BY <1>1, <1>2 DEF TypeOK
<1>5. Load(i) \in WorkItem
  BY <1>2, LoadVersion
<1>6. e.version = Load(i).version + 1
  BY <1>1, <1>2, <1>5, HandleEvent
<1>7. Load(i)' = Projection(log'[i])
  BY DEF Load
<1>8. Projection(log'[i]) =
        [state   |-> e.to,
         resume  |-> IF e.to = "blocked" THEN e.from ELSE NoState,
         version |-> e.version]
  BY <1>1, <1>3, ProjectionAppend
<1>9. \A j \in Item : j # i => Load(j)' = Load(j)
  BY <1>4 DEF Load
<1>10. QED
  BY <1>1, <1>3, <1>4, <1>6, <1>7, <1>8, <1>9

(* What any step may do to the log and the recorded commands: nothing, or  *)
(* commit one call.                                                        *)
LEMMA StepOrCommit ==
  ASSUME [Next]_vars
  PROVE  \/ log' = log /\ commands' = commands
         \/ \E r \in pending : Commit(r)
BY DEF Next, Apply, Issue, Duplicate, Conflict, Refuse, Settle, vars

(* What any step may do to the calls outstanding: none is added, or Issue   *)
(* adds one of which nobody used the ID.                                   *)
LEMMA StepPending ==
  ASSUME [Next]_vars
  PROVE  \/ pending' \subseteq pending
         \/ \E i \in Item, ctx \in Clients, type \in Menu, reason \in BOOLEAN :
              \E expected \in 0 .. MaxVersion[i] :
                Issue(i, ctx, type, reason, expected)
BY DEF Next, Apply, Duplicate, Conflict, Refuse, Commit, Settle, vars

LEMMA IssueCall ==
  ASSUME TypeOK, NEW i \in Item, NEW ctx \in Clients, NEW type \in Menu,
         NEW reason \in BOOLEAN, NEW expected \in 0 .. MaxVersion[i],
         Issue(i, ctx, type, reason, expected)
  PROVE  \E c \in Request :
           /\ pending' = pending \cup {c}
           /\ \A r \in pending : r.id # c.id
           /\ answer' = [answer EXCEPT ![c.id] = NoAnswer]
           /\ c.item = i
           /\ c.actor = "automation" => c.expected = Load(i).version
           /\ c.seen = Load(i).state
           /\ log' = log /\ commands' = commands
<1> DEFINE id == CHOOSE u \in CommandId : u \in UnusedIds
           c  == [id |-> id, item |-> i, expected |-> expected,
                  actor |-> ctx.actor, type |-> type, reason |-> reason,
                  seen |-> Load(i).state]
<1>1. id \in CommandId /\ id \in UnusedIds
  BY DEF Issue, UnusedIds
<1>2. Load(i).state \in State \cup {NoState}
  BY ProjectionType DEF TypeOK, Load, WorkItem
<1>3. ctx.actor \in ActorKind /\ type \in CommandType /\ expected \in Nat
  BY ClientsAssumption, MenuAssumption, BoundsAssumption DEF Context
<1>4. c \in Request
  BY <1>1, <1>2, <1>3 DEF Request
<1>5. \A r \in pending : r.id # id
  BY <1>1 DEF UnusedIds
<1>6. c.id = id /\ c.item = i /\ c.seen = Load(i).state
      /\ c.expected = expected /\ c.actor = ctx.actor
  OBVIOUS
<1>7. /\ pending' = pending \cup {c}
      /\ answer' = [answer EXCEPT ![id] = NoAnswer]
      /\ log' = log /\ commands' = commands
      /\ ctx.actor = "automation" => expected = Load(i).version
  BY DEF Issue
<1> HIDE DEF c, id
<1>8. QED
  BY <1>4, <1>5, <1>6, <1>7

LEMMA NextDistinct == TypeOK /\ DistinctCalls /\ [Next]_vars => DistinctCalls'
<1> SUFFICES ASSUME TypeOK, DistinctCalls, [Next]_vars PROVE DistinctCalls'
  OBVIOUS
<1>1. ASSUME pending' \subseteq pending PROVE DistinctCalls'
  BY <1>1 DEF DistinctCalls
<1>2. ASSUME NEW c, pending' = pending \cup {c}, \A r \in pending : r.id # c.id
      PROVE  DistinctCalls'
  BY <1>2 DEF DistinctCalls
<1>3. QED
  BY <1>1, <1>2, StepPending, IssueCall

LEMMA NextSeen ==
  TypeOK /\ ChainOK /\ SeenOrStale /\ [Next]_vars => SeenOrStale'
<1> SUFFICES ASSUME TypeOK, ChainOK, SeenOrStale, [Next]_vars PROVE SeenOrStale'
  OBVIOUS
<1>1. \A r \in pending : r \in Request /\ r.item \in Item /\ r.expected \in Nat
  BY DEF TypeOK, Request
<1>2. \A i \in Item : Load(i) \in WorkItem /\ Load(i).version \in Nat
  BY LoadVersion DEF WorkItem
<1>3. CASE log' = log /\ pending' \subseteq pending
  <2>1. \A r \in pending : Load(r.item)' = Load(r.item)
    BY <1>3 DEF Load
  <2>2. QED
    BY <1>3, <2>1 DEF SeenOrStale
<1>4. ASSUME NEW i \in Item, NEW ctx \in Clients, NEW type \in Menu,
             NEW reason \in BOOLEAN, NEW expected \in 0 .. MaxVersion[i],
             Issue(i, ctx, type, reason, expected)
      PROVE  SeenOrStale'
  <2>1. PICK c \in Request :
          /\ pending' = pending \cup {c}
          /\ c.item = i
          /\ c.actor = "automation" => c.expected = Load(i).version
          /\ c.seen = Load(i).state
          /\ log' = log
    BY <1>4, IssueCall
  <2>2. \A j : Load(j)' = Load(j)
    BY <2>1 DEF Load
  <2>3. QED
    BY <1>2, <2>1, <2>2 DEF SeenOrStale
<1>5. ASSUME NEW q \in pending, Commit(q) PROVE SeenOrStale'
  <2>1. /\ Load(q.item)'.version = Load(q.item).version + 1
        /\ \A j \in Item : j # q.item => Load(j)' = Load(j)
    <3>1. PICK e \in Handle(Load(q.item), q) :
            /\ Load(q.item)' =
                 [state   |-> e.to,
                  resume  |-> IF e.to = "blocked" THEN e.from ELSE NoState,
                  version |-> Load(q.item).version + 1]
            /\ \A j \in Item : j # q.item => Load(j)' = Load(j)
      BY <1>5, CommitLoads
    <3>2. QED
      BY <3>1
  <2>2. pending' = pending
    BY <1>5 DEF Commit
  <2>3. ASSUME NEW r \in pending, r.actor = "automation"
        PROVE  /\ r.expected <= Load(r.item)'.version
               /\ r.expected = Load(r.item)'.version => r.seen = Load(r.item)'.state
    <3>1. r.expected <= Load(r.item).version
      BY <2>3 DEF SeenOrStale
    <3>2. CASE r.item = q.item
      BY <1>1, <1>2, <2>1, <3>1, <3>2
    <3>3. CASE r.item # q.item
      BY <1>1, <2>1, <2>3, <3>3 DEF SeenOrStale
    <3>4. QED
      BY <3>2, <3>3
  <2>4. QED
    BY <2>2, <2>3 DEF SeenOrStale
<1>6. QED
  BY <1>3, <1>4, <1>5
     DEF Next, Apply, Duplicate, Conflict, Refuse, Settle, vars

(* Automation commits only in the state it judged, whatever happened to the *)
(* item while its call waited.                                             *)
THEOREM CommittedWhereDecidedHolds == Spec => CommittedWhereDecided
<1>1. Init => DistinctCalls /\ SeenOrStale
  BY DEF Init, DistinctCalls, SeenOrStale
<1>2. ASSUME DistinctCalls, SeenOrStale, [Next]_vars,
             NEW r \in pending, r.actor = "automation",
             r.id \in commands' \ commands
      PROVE  r.seen = Load(r.item).state
  <2>1. PICK q \in pending : Commit(q)
    BY <1>2, StepOrCommit
  <2>2. r = q
    BY <1>2, <2>1 DEF Commit, DistinctCalls
  <2>3. r.expected = Load(r.item).version
    BY <2>1, <2>2 DEF Commit
  <2>4. QED
    BY <1>2, <2>3 DEF SeenOrStale
<1>3. DistinctCalls /\ SeenOrStale /\ [Next]_vars =>
        [\A r \in pending :
           /\ r.actor = "automation"
           /\ r.id \in commands' \ commands
           => r.seen = Load(r.item).state]_vars
  BY <1>2
<1>4. QED
  BY <1>1, <1>3, NextDistinct, NextSeen, TypeCorrect, ChainCorrect, PTL
     DEF Spec, CommittedWhereDecided
-----------------------------------------------------------------------------
(* The history of an item.                                                 *)

(* Nothing leads on from a terminal state, nor out of one. *)
LEMMA TargetsLive ==
  ASSUME NEW item \in WorkItem, NEW type \in CommandType,
         NEW to \in Targets(item, type)
  PROVE  item.state \notin Terminal
BY DEF Targets, Terminal, EmptyItem, NoState

(* Stored events are never changed or taken back, they are added one at a  *)
(* time, and a done or cancelled item gets none.                           *)
THEOREM HistoryOnlyGrowsHolds == Spec => HistoryOnlyGrows
<1>1. ASSUME TypeOK, ChainOK, NEW r \in pending, Commit(r)
      PROVE  \E i \in Item :
               /\ \A j \in Item \ {i} : log'[j] = log[j]
               /\ Load(i).state \notin Terminal
               /\ log'[i] # <<>>
               /\ log[i] = SubSeq(log'[i], 1, Len(log'[i]) - 1)
  <2> DEFINE i == r.item
  <2>1. PICK e \in Handle(Load(i), r) :
          /\ e \in Event
          /\ log'[i] = Append(log[i], e)
          /\ \A j \in Item : j # i => log'[j] = log[j]
    BY <1>1, CommitLoads
  <2>2. r \in Request /\ i \in Item /\ r.type \in CommandType
    BY <1>1 DEF TypeOK, Request
  <2>3. Load(i) \in WorkItem
    BY <1>1, <2>2, LoadVersion
  <2>4. e.to \in Targets(Load(i), r.type)
    BY <2>1, <2>2, <2>3, HandleEvent
  <2>5. Load(i).state \notin Terminal
    BY <2>2, <2>3, <2>4, TargetsLive
  <2>6. log[i] \in Seq(Event)
    BY <1>1, <2>2 DEF TypeOK
  <2>7. /\ Len(log'[i]) = Len(log[i]) + 1
        /\ \A k \in 1 .. Len(log[i]) : log'[i][k] = log[i][k]
        /\ log'[i] \in Seq(Event)
        /\ Len(log[i]) \in Nat
    BY <2>1, <2>6, AppendProperties
  <2>8. log'[i] # <<>>
    BY <2>7
  <2>9. log[i] = SubSeq(log'[i], 1, Len(log'[i]) - 1)
    <3> DEFINE s == SubSeq(log'[i], 1, Len(log[i]))
    <3>1. /\ s \in Seq(Event)
          /\ Len(s) = Len(log[i])
          /\ \A k \in 1 .. Len(s) : s[k] = log'[i][k]
      BY <2>7
    <3>2. s = log[i]
      BY <2>6, <2>7, <3>1
    <3>3. Len(log'[i]) - 1 = Len(log[i])
      BY <2>7
    <3>4. QED
      BY <3>2, <3>3
  <2>10. QED
    BY <2>1, <2>2, <2>5, <2>8, <2>9
<1>2. ASSUME TypeOK, ChainOK, [Next]_vars, log' # log
      PROVE  \E i \in Item :
               /\ \A j \in Item \ {i} : log'[j] = log[j]
               /\ \/ log'[i] = log[i]
                  \/ /\ Load(i).state \notin Terminal
                     /\ log'[i] # <<>>
                     /\ log[i] = SubSeq(log'[i], 1, Len(log'[i]) - 1)
  BY <1>1, <1>2, StepOrCommit
<1>3. TypeOK /\ ChainOK /\ [Next]_vars =>
        [\E i \in Item :
           /\ \A j \in Item \ {i} : log'[j] = log[j]
           /\ \/ log'[i] = log[i]
              \/ /\ Load(i).state \notin Terminal
                 /\ log'[i] # <<>>
                 /\ log[i] = SubSeq(log'[i], 1, Len(log'[i]) - 1)]_log
  BY <1>2
<1>4. QED
  BY <1>3, TypeCorrect, ChainCorrect, PTL DEF Spec, HistoryOnlyGrows

-----------------------------------------------------------------------------
(* Answers.                                                                *)

(* A waiting call that was told "committed" was told of an event that is   *)
(* stored under its ID.                                                    *)
AnswersStored ==
  \A r \in pending :
    answer[r.id].outcome = "committed" =>
      \E i \in Item : \E k \in DOMAIN log[i] :
        /\ log[i][k].command = r.id
        /\ answer[r.id] = Reply("committed", <<log[i][k]>>)

(* The invariant of answers. *)
Told == TypeOK /\ ChainOK /\ OncePerCommand /\ DistinctCalls /\ AnswersStored

(* A stored event stays where it is. *)
LEMMA RowsStay ==
  ASSUME TypeOK, ChainOK, [Next]_vars, NEW i \in Item, NEW k \in DOMAIN log[i]
  PROVE  k \in DOMAIN log'[i] /\ log'[i][k] = log[i][k]
<1>1. CASE log' = log
  BY <1>1
<1>2. ASSUME NEW r \in pending, Commit(r)
      PROVE  k \in DOMAIN log'[i] /\ log'[i][k] = log[i][k]
  <2>1. PICK e \in Handle(Load(r.item), r) :
          /\ log'[r.item] = Append(log[r.item], e)
          /\ \A j \in Item : j # r.item => log'[j] = log[j]
    BY <1>2, CommitLoads
  <2>2. log[i] \in Seq(Event)
    BY DEF TypeOK
  <2>3. CASE i = r.item
    <3>1. log'[i] = Append(log[i], e)
      BY <2>1, <2>3
    <3>2. k \in 1 .. Len(log[i]) /\ Len(log[i]) \in Nat
      BY <2>2
    <3>3. QED
      BY <2>2, <3>1, <3>2
  <2>4. CASE i # r.item
    BY <2>1, <2>4
  <2>5. QED
    BY <2>3, <2>4
<1>3. QED
  BY <1>1, <1>2, StepOrCommit

(* The row a recorded command left is its only one, so there is one answer  *)
(* Duplicate can give.                                                     *)
LEMMA DuplicateAnswer ==
  ASSUME Told, NEW q \in pending, NEW r \in pending, Duplicate(q),
         r.id = q.id, answer[r.id].outcome = "committed"
  PROVE  answer'[r.id] = answer[r.id]
<1>1. PICK i \in Item : \E k \in DOMAIN log[i] :
        /\ log[i][k].command = r.id
        /\ answer[r.id] = Reply("committed", <<log[i][k]>>)
  BY DEF Told, AnswersStored
<1>2. PICK k \in DOMAIN log[i] :
        /\ log[i][k].command = r.id
        /\ answer[r.id] = Reply("committed", <<log[i][k]>>)
  BY <1>1
<1>3. PICK j \in Item : \E l \in DOMAIN log[j] :
        /\ log[j][l].command = q.id
        /\ answer' = [answer EXCEPT ![q.id] = Reply("committed", <<log[j][l]>>)]
  BY DEF Duplicate
<1>4. PICK l \in DOMAIN log[j] :
        /\ log[j][l].command = q.id
        /\ answer' = [answer EXCEPT ![q.id] = Reply("committed", <<log[j][l]>>)]
  BY <1>3
<1>5. i = j /\ k = l
  BY <1>2, <1>4 DEF Told, OncePerCommand
<1>6. r.id \in CommandId /\ answer \in [CommandId -> Answer]
  BY DEF Told, TypeOK, Request
<1>7. QED
  BY <1>2, <1>4, <1>5, <1>6

(* Once told "committed" under an ID, the command is recorded: the calls   *)
(* that answer otherwise do not apply any more.                            *)
LEMMA CommittedRecorded ==
  ASSUME Told, NEW r \in pending, answer[r.id].outcome = "committed"
  PROVE  r.id \in commands
<1>1. PICK i \in Item : \E k \in DOMAIN log[i] : log[i][k].command = r.id
  BY DEF Told, AnswersStored
<1>2. commands = UNION {{log[j][k].command : k \in DOMAIN log[j]} : j \in Item}
  BY DEF Told, OncePerCommand
<1>3. QED
  BY <1>1, <1>2

(* A step that leaves a call outstanding leaves its "committed" as it is.  *)
LEMMA SameAnswer ==
  ASSUME Told, [Next]_vars, NEW r \in pending, r \in pending',
         answer[r.id].outcome = "committed"
  PROVE  answer'[r.id] = answer[r.id]
<1>1. r.id \in CommandId /\ answer \in [CommandId -> Answer]
  BY DEF Told, TypeOK, Request
<1>2. ASSUME NEW i \in Item, NEW ctx \in Clients, NEW type \in Menu,
             NEW reason \in BOOLEAN, NEW expected \in 0 .. MaxVersion[i],
             Issue(i, ctx, type, reason, expected)
      PROVE  answer'[r.id] = answer[r.id]
  <2>1. PICK c \in Request :
          r.id # c.id /\ answer' = [answer EXCEPT ![c.id] = NoAnswer]
    BY <1>2, IssueCall DEF Told
  <2>2. QED
    BY <1>1, <2>1
<1>3. ASSUME NEW q \in pending, Apply(q) PROVE answer'[r.id] = answer[r.id]
  <2>1. CASE q.id # r.id
    BY <1>1, <1>3, <2>1 DEF Apply, Duplicate, Conflict, Refuse, Commit
  <2>2. CASE q.id = r.id
    <3>1. q.id \in commands
      BY <2>2, CommittedRecorded
    <3>2. Duplicate(q)
      BY <1>3, <3>1 DEF Apply, Conflict, Refuse, Commit
    <3>3. QED
      BY <2>2, <3>2, DuplicateAnswer
  <2>3. QED
    BY <2>1, <2>2
<1>4. ASSUME NEW q \in pending, Settle(q) PROVE answer'[r.id] = answer[r.id]
  <2>1. q # r
    BY <1>4 DEF Settle
  <2>2. q.id # r.id
    BY <2>1 DEF Told, DistinctCalls
  <2>3. QED
    BY <1>1, <1>4, <2>2 DEF Settle
<1>5. CASE UNCHANGED vars
  BY <1>5 DEF vars
<1>6. QED
  BY <1>2, <1>3, <1>4, <1>5 DEF Next

LEMMA NextAnswers ==
  ASSUME Told, [Next]_vars
  PROVE  AnswersStored'
<1> SUFFICES ASSUME NEW r \in pending', answer'[r.id].outcome = "committed"
             PROVE  \E i \in Item : \E k \in DOMAIN log'[i] :
                      /\ log'[i][k].command = r.id
                      /\ answer'[r.id] = Reply("committed", <<log'[i][k]>>)
  BY DEF AnswersStored
<1>1. answer \in [CommandId -> Answer]
  BY DEF Told, TypeOK
<1>2. CASE r \notin pending
  <2>1. PICK i \in Item, ctx \in Clients, type \in Menu, reason \in BOOLEAN :
          \E expected \in 0 .. MaxVersion[i] :
            Issue(i, ctx, type, reason, expected)
    BY <1>2, StepPending
  <2>2. PICK expected \in 0 .. MaxVersion[i] :
          Issue(i, ctx, type, reason, expected)
    BY <2>1
  <2>3. PICK c \in Request :
          /\ pending' = pending \cup {c}
          /\ answer' = [answer EXCEPT ![c.id] = NoAnswer]
    BY <2>2, IssueCall DEF Told
  <2>4. r = c /\ r.id \in CommandId
    BY <1>2, <2>3 DEF Request
  <2>5. answer'[r.id].outcome = "none"
    BY <1>1, <2>3, <2>4 DEF NoAnswer, Reply
  <2>6. QED
    BY <2>5
<1>3. CASE r \in pending /\ answer[r.id].outcome = "committed"
  <2>1. answer'[r.id] = answer[r.id]
    BY <1>3, SameAnswer
  <2>2. PICK i \in Item : \E k \in DOMAIN log[i] :
          /\ log[i][k].command = r.id
          /\ answer[r.id] = Reply("committed", <<log[i][k]>>)
    BY <1>3 DEF Told, AnswersStored
  <2>3. PICK k \in DOMAIN log[i] :
          /\ log[i][k].command = r.id
          /\ answer[r.id] = Reply("committed", <<log[i][k]>>)
    BY <2>2
  <2>4. k \in DOMAIN log'[i] /\ log'[i][k] = log[i][k]
    BY RowsStay DEF Told
  <2>5. QED
    BY <2>1, <2>3, <2>4
<1>4. CASE r \in pending /\ answer[r.id].outcome # "committed"
  <2>1. r.id \in CommandId
    BY <1>4 DEF Told, TypeOK, Request
  <2>2. answer' # answer
    BY <1>4
  <2>3. ASSUME NEW q \in pending, Duplicate(q)
        PROVE  \E i \in Item : \E k \in DOMAIN log'[i] :
                 /\ log'[i][k].command = r.id
                 /\ answer'[r.id] = Reply("committed", <<log'[i][k]>>)
    <3>1. PICK i \in Item : \E k \in DOMAIN log[i] :
            /\ log[i][k].command = q.id
            /\ answer' = [answer EXCEPT ![q.id] = Reply("committed", <<log[i][k]>>)]
      BY <2>3 DEF Duplicate
    <3>2. PICK k \in DOMAIN log[i] :
            /\ log[i][k].command = q.id
            /\ answer' = [answer EXCEPT ![q.id] = Reply("committed", <<log[i][k]>>)]
      BY <3>1
    <3>3. r.id = q.id
      BY <1>1, <1>4, <2>1, <3>2
    <3>4. log' = log
      BY <2>3 DEF Duplicate
    <3>5. QED
      BY <1>1, <2>1, <3>2, <3>3, <3>4
  <2>4. ASSUME NEW q \in pending, Commit(q)
        PROVE  \E i \in Item : \E k \in DOMAIN log'[i] :
                 /\ log'[i][k].command = r.id
                 /\ answer'[r.id] = Reply("committed", <<log'[i][k]>>)
    <3>1. PICK e \in Handle(Load(q.item), q) :
            /\ e \in Event
            /\ log' = [log EXCEPT ![q.item] = Append(@, e)]
            /\ answer' = [answer EXCEPT ![q.id] = Reply("committed", <<e>>)]
      BY <2>4, CommitEvent DEF Told
    <3>2. r.id = q.id
      BY <1>1, <1>4, <2>1, <3>1
    <3>3. q \in Request /\ q.item \in Item /\ log[q.item] \in Seq(Event)
      BY DEF Told, TypeOK, Request
    <3>4. log'[q.item] = Append(log[q.item], e)
      BY <3>1, <3>3 DEF Told, TypeOK
    <3>5. /\ Len(log[q.item]) + 1 \in DOMAIN log'[q.item]
          /\ log'[q.item][Len(log[q.item]) + 1] = e
      BY <3>3, <3>4
    <3>6. e.command = q.id
      BY <3>1, <3>3, LoadVersion, HandleEvent DEF Told
    <3>7. answer'[r.id] = Reply("committed", <<e>>)
      BY <1>1, <2>1, <3>1, <3>2
    <3>8. QED
      BY <3>2, <3>3, <3>5, <3>6, <3>7
  <2>5. ASSUME NEW q \in pending, Conflict(q) \/ Refuse(q) \/ Settle(q)
        PROVE  FALSE
    <3>1. PICK a \in Answer : a.outcome # "committed"
                              /\ answer' = [answer EXCEPT ![q.id] = a]
      BY <2>5, ReplyType DEF Conflict, Refuse, Settle, Reply, NoAnswer
    <3>2. QED
      BY <1>1, <1>4, <2>1, <3>1
  <2>6. ASSUME NEW i \in Item, NEW ctx \in Clients, NEW type \in Menu,
               NEW reason \in BOOLEAN, NEW expected \in 0 .. MaxVersion[i],
               Issue(i, ctx, type, reason, expected)
        PROVE  FALSE
    <3>1. PICK c \in Request :
            r.id # c.id /\ answer' = [answer EXCEPT ![c.id] = NoAnswer]
      BY <1>4, <2>6, IssueCall DEF Told
    <3>2. QED
      BY <1>1, <1>4, <2>1, <3>1
  <2>7. QED
    BY <2>2, <2>3, <2>4, <2>5, <2>6 DEF Next, Apply, vars
<1>5. QED
  BY <1>2, <1>3, <1>4

(* A call repeated after a lost answer is told what it was told before.    *)
THEOREM RetryGetsSameAnswerHolds == Spec => RetryGetsSameAnswer
<1>1. Init => DistinctCalls /\ AnswersStored
  BY DEF Init, DistinctCalls, AnswersStored
<1>2. Told /\ [Next]_vars => DistinctCalls' /\ AnswersStored'
  BY NextDistinct, NextAnswers DEF Told
<1>3. Told /\ [Next]_vars =>
        [\A r \in pending :
           /\ r \in pending'
           /\ answer[r.id].outcome = "committed"
           => answer'[r.id] = answer[r.id]]_vars
  BY SameAnswer
<1>4. Spec => [](DistinctCalls /\ AnswersStored)
  BY <1>1, <1>2, TypeCorrect, ChainCorrect, OnceCorrect, PTL DEF Spec, Told
<1>5. QED
  BY <1>3, <1>4, TypeCorrect, ChainCorrect, OnceCorrect, PTL
     DEF Spec, Told, RetryGetsSameAnswer
-----------------------------------------------------------------------------
(* The journal implements WorkItems.                                       *)

(* Only block leads into "blocked", and only a submitted item stands in a  *)
(* state of the table.                                                     *)
LEMMA TableFacts ==
  /\ \A t \in Transitions : t[3] = "blocked" => t[2] = "block"
  /\ \A t \in Transitions : t[1] # "blocked" /\ t[1] # NoState
  /\ \A t \in Transitions : t = <<t[1], t[2], t[3]>>
BY DEF Transitions, NoState

(* WorkItems and Journal speak of the same table. *)
LEMMA SameTable == Abstract!Transitions = Transitions /\ Abstract!NoState = NoState
BY DEF Abstract!Transitions, Transitions, Abstract!NoState, NoState

(* Where an item stands decides what it resumes: nothing, unless blocked.  *)
LEMMA LoadResume ==
  ASSUME TypeOK, NEW i \in Item, Load(i).state # "blocked"
  PROVE  Load(i).resume = NoState
BY DEF Load, Projection, EmptyItem

(* Committing a call is one step of the abstract specification: a submit, a *)
(* move along the table, a block or its resolution.                        *)
LEMMA CommitSimulates ==
  ASSUME TypeOK, ChainOK, NEW r \in pending, Commit(r)
  PROVE  Abstract!Next
<1> DEFINE i      == r.item
           item   == Load(i)
           place  == [j \in Item |-> Load(j).state]
           origin == [j \in Item |-> Load(j).resume]
<1>1. r \in Request /\ i \in Item /\ r.id \in CommandId /\ r.type \in CommandType
  BY DEF TypeOK, Request
<1>2. item \in WorkItem
  BY <1>1, LoadVersion
<1>3. PICK e \in Handle(item, r) :
        /\ e \in Event
        /\ Load(i)' = [state   |-> e.to,
                       resume  |-> IF e.to = "blocked" THEN e.from ELSE NoState,
                       version |-> item.version + 1]
        /\ \A j \in Item : j # i => Load(j)' = Load(j)
  BY CommitLoads
<1>4. e.from = item.state /\ e.to \in Targets(item, r.type) /\ e.to \in State
  BY <1>1, <1>2, <1>3, HandleEvent DEF Targets
<1>5. Abstract!Once(r.id)
  BY DEF Commit, Abstract!Once
<1>6. place' = [place EXCEPT ![i] = e.to]
  <2>1. \A j \in Item : Load(j)'.state = IF j = i THEN e.to ELSE Load(j).state
    BY <1>3
  <2>2. place' = [j \in Item |-> Load(j)'.state]
    OBVIOUS
  <2>3. QED
    BY <2>1, <2>2
<1>7. origin' = [origin EXCEPT
                   ![i] = IF e.to = "blocked" THEN item.state ELSE NoState]
  <2>1. \A j \in Item :
          Load(j)'.resume = IF j = i
                              THEN IF e.to = "blocked" THEN item.state ELSE NoState
                              ELSE Load(j).resume
    BY <1>3, <1>4
  <2>2. origin' = [j \in Item |-> Load(j)'.resume]
    OBVIOUS
  <2>3. QED
    BY <2>1, <2>2
<1>8. place[i] = item.state /\ origin[i] = item.resume
  BY <1>1
<1>9. ASSUME item.state # "blocked", e.to # "blocked" PROVE origin' = origin
  <2>1. item.resume = NoState
    BY <1>1, <1>9, LoadResume
  <2>2. QED
    BY <1>7, <1>8, <1>9, <2>1
<1> USE SameTable
<1>10. CASE r.type = "submit_work" /\ item = EmptyItem /\ e.to = "inbox"
  <2>1. item.state = NoState /\ item.state # "blocked" /\ e.to # "blocked"
    BY <1>10 DEF EmptyItem, NoState
  <2>2. Abstract!Submit(i, r.id)
    BY <1>5, <1>6, <1>8, <1>9, <1>10, <2>1 DEF Abstract!Submit
  <2>3. QED
    BY <1>1, <2>2 DEF Abstract!Next
<1>11. CASE <<item.state, r.type, e.to>> \in Transitions /\ e.to # "blocked"
  <2>1. item.state # "blocked"
    BY <1>11, TableFacts
  <2>2. Abstract!Move(i, r.id)
    <3>1. origin' = origin
      BY <1>9, <1>11, <2>1
    <3> DEFINE t == <<item.state, r.type, e.to>>
    <3>2. /\ t \in Transitions
          /\ place[i] = t[1]
          /\ t[3] # "blocked"
          /\ place' = [place EXCEPT ![i] = t[3]]
      BY <1>6, <1>8, <1>11
    <3>3. QED
      BY <1>5, <3>1, <3>2 DEF Abstract!Move
  <2>3. QED
    BY <1>1, <2>2 DEF Abstract!Next
<1>12. CASE <<item.state, r.type, e.to>> \in Transitions /\ e.to = "blocked"
  <2>1. <<item.state, "block", "blocked">> \in Transitions
    BY <1>12, TableFacts
  <2>2. Abstract!Block(i, r.id)
    <3>1. origin' = [origin EXCEPT ![i] = place[i]]
      BY <1>7, <1>8, <1>12
    <3>2. place' = [place EXCEPT ![i] = "blocked"]
      BY <1>6, <1>12
    <3>3. <<place[i], "block", "blocked">> \in Transitions
      BY <1>8, <2>1
    <3>4. QED
      BY <1>5, <3>1, <3>2, <3>3 DEF Abstract!Block
  <2>3. QED
    BY <1>1, <2>2 DEF Abstract!Next
<1>13. CASE item.state = "blocked" /\ e.to = item.resume /\ e.to # "blocked"
  <2>1. Abstract!Resolve(i, r.id)
    BY <1>5, <1>6, <1>7, <1>8, <1>13 DEF Abstract!Resolve
  <2>2. QED
    BY <1>1, <2>1 DEF Abstract!Next
<1>14. QED
  BY <1>4, <1>10, <1>11, <1>12, <1>13 DEF Targets

(* Every behaviour of the journal, seen as the place, the origin and the   *)
(* commands it amounts to, is one of WorkItems: whatever else a step does, *)
(* it moves one item once for one command, or moves nothing.               *)
THEOREM ImplementsWorkItemsHolds == Spec => ImplementsWorkItems
<1>1. Init => Abstract!Init
  BY SameTable DEF Init, Abstract!Init, Load, Projection, EmptyItem
<1>2. TypeOK /\ ChainOK /\ [Next]_vars => [Abstract!Next]_(Abstract!vars)
  <2> SUFFICES ASSUME TypeOK, ChainOK, [Next]_vars
               PROVE  [Abstract!Next]_(Abstract!vars)
    OBVIOUS
  <2>1. ASSUME NEW r \in pending, Commit(r) PROVE Abstract!Next
    BY <2>1, CommitSimulates
  <2>2. CASE log' = log /\ commands' = commands
    <3>1. \A i \in Item : Load(i)' = Load(i)
      BY <2>2 DEF Load
    <3>2. QED
      BY <2>2, <3>1 DEF Abstract!vars
  <2>3. QED
    BY <2>1, <2>2, StepOrCommit
<1>3. QED
  BY <1>1, <1>2, TypeCorrect, ChainCorrect, PTL
     DEF Spec, ImplementsWorkItems, Abstract!Spec
-----------------------------------------------------------------------------
(* Fold.  What a recursive function computes needs induction; here it is   *)
(* the least natural number at which two functions would differ.           *)

(* Every nonempty set of natural numbers has a least one: otherwise its    *)
(* initial intervals would descend for ever.                               *)
LEMMA LeastNatural ==
  ASSUME NEW S \in SUBSET Nat, S # {}
  PROVE  \E x \in S : \A y \in S : x <= y
<1> DEFINE R == StrictSubsetOrdering(Nat)
           I == {0 .. x : x \in S}
<1>1. IsWellFoundedOn(R, FiniteSubsetsOf(Nat))
  BY FS_StrictSubsetOrderingWellFounded
<1>2. I # {} /\ I \subseteq FiniteSubsetsOf(Nat)
  <2>1. ASSUME NEW x \in S PROVE IsFiniteSet(0 .. x) /\ 0 .. x \in SUBSET Nat
    BY FS_Interval
  <2>2. QED
    BY <2>1 DEF FiniteSubsetsOf
<1>3. PICK a \in I : \A b \in I : ~ (<<b, a>> \in R)
  <2> HIDE DEF I, R
  <2> QED
    BY <1>1, <1>2, WFMin
<1>4. PICK x \in S : a = 0 .. x
  OBVIOUS
<1>5. ASSUME NEW y \in S, y < x PROVE FALSE
  <2>1. 0 .. y \in I
    OBVIOUS
  <2>2. 0 .. y \subseteq 0 .. x /\ 0 .. y # 0 .. x
    <3>1. x \in 0 .. x /\ x \notin 0 .. y
      BY <1>5
    <3>2. QED
      BY <1>5, <3>1
  <2>3. 0 .. y \in SUBSET Nat /\ 0 .. x \in SUBSET Nat
    OBVIOUS
  <2>4. <<0 .. y, 0 .. x>> \in R
    BY <2>2, <2>3 DEF StrictSubsetOrdering
  <2>5. QED
    BY <1>3, <1>4, <2>1, <2>4
<1>6. QED
  BY <1>5

(* Fold computes the one function that starts with the empty item and      *)
(* replays an event after the other: whichever function does so agrees     *)
(* with it.                                                                *)
LEMMA FoldUnique ==
  ASSUME NEW events, Len(events) \in Nat, NEW g,
         g = [n \in 0 .. Len(events) |->
                IF n = 0 THEN EmptyItem ELSE Replay(g[n - 1], events[n])]
  PROVE  Fold(events) = g[Len(events)]
<1> DEFINE Replays(f) ==
             f = [n \in 0 .. Len(events) |->
                    IF n = 0 THEN EmptyItem ELSE Replay(f[n - 1], events[n])]
           after == CHOOSE f : Replays(f)
           Differ == {n \in 0 .. Len(events) : after[n] # g[n]}
<1>1. Fold(events) = after[Len(events)]
  BY Zenon DEF Fold
<1>2. Replays(g)
  OBVIOUS
<1>3. Replays(after)
  <2> HIDE DEF Replays
  <2> QED
    BY <1>2
<1>4. \A n \in 0 .. Len(events) :
        /\ after[n] = IF n = 0 THEN EmptyItem ELSE Replay(after[n - 1], events[n])
        /\ g[n] = IF n = 0 THEN EmptyItem ELSE Replay(g[n - 1], events[n])
  <2> HIDE DEF after
  <2> QED
    BY <1>2, <1>3
<1> HIDE DEF Replays, after
<1>5. Differ = {}
  <2> SUFFICES ASSUME Differ # {} PROVE FALSE
    OBVIOUS
  <2>1. Differ \in SUBSET Nat
    OBVIOUS
  <2>2. PICK n \in Differ : \A m \in Differ : n <= m
    <3> HIDE DEF Differ
    <3> QED
      BY <2>1, LeastNatural
  <2>3. n \in 0 .. Len(events) /\ after[n] # g[n]
    OBVIOUS
  <2>4. n # 0
    BY <1>4, <2>3
  <2>5. n - 1 \in 0 .. Len(events) /\ ~ (n <= n - 1)
    BY <2>3, <2>4
  <2>6. after[n - 1] = g[n - 1]
    BY <2>2, <2>5
  <2>7. QED
    BY <1>4, <2>3, <2>4, <2>6
<1>6. Len(events) \in 0 .. Len(events)
  OBVIOUS
<1>7. after[Len(events)] = g[Len(events)]
  BY <1>5, <1>6
<1>8. QED
  BY <1>1, <1>7

(* The item after the first n events of a history, read off the n-th. *)
ItemAfter(events) ==
  [n \in 0 .. Len(events) |->
     IF n = 0 THEN EmptyItem
     ELSE [state   |-> events[n].to,
           resume  |-> IF events[n].to = "blocked" THEN events[n].from
                                                   ELSE NoState,
           version |-> events[n].version]]

(* Replaying the next event of a chain, which Linked accepts, Fold does not *)
(* reject it and arrives where the event says.                             *)
LEMMA ReplayNext ==
  ASSUME NEW events \in Seq(Event), NEW n \in 1 .. Len(events),
         \A k \in 1 .. Len(events) : Linked(events, k)
  PROVE  Replay(ItemAfter(events)[n - 1], events[n]) = ItemAfter(events)[n]
<1> DEFINE e == events[n]
           item == ItemAfter(events)[n - 1]
<1>1. e \in Event /\ Linked(events, n) /\ e.version = n
  BY DEF Linked
<1>2. ItemAfter(events)[n] =
        [state   |-> e.to,
         resume  |-> IF e.to = "blocked" THEN e.from ELSE NoState,
         version |-> e.version]
  BY DEF ItemAfter
<1>3. CASE n = 1
  <2>1. item = EmptyItem
    BY <1>3 DEF ItemAfter
  <2>2. e.kind = "work_submitted" /\ e.to = "inbox" /\ e.from = NoState
    BY <1>1, <1>3 DEF Linked
  <2>3. Replay(EmptyItem, e) = [state |-> e.to, resume |-> NoState, version |-> e.version]
    BY <1>1, <1>3, <2>2 DEF Replay, EmptyItem, Corrupt, NoState
  <2>4. QED
    BY <1>2, <2>1, <2>2, <2>3
<1>4. CASE n > 1
  <2> DEFINE last == events[n - 1]
  <2>1. n - 1 \in 1 .. Len(events) /\ n - 1 # 0 /\ n - 1 \in 0 .. Len(events)
    BY <1>4
  <2>2. last \in Event /\ last.version = n - 1
    BY <2>1 DEF Linked
  <2>3. item = [state   |-> last.to,
                resume  |-> IF last.to = "blocked" THEN last.from ELSE NoState,
                version |-> n - 1]
    BY <2>1, <2>2 DEF ItemAfter
  <2>4. /\ e.kind = "state_changed"
        /\ e.from = last.to
        /\ \/ \E t \in Transitions : t[1] = e.from /\ t[3] = e.to
           \/ /\ e.from = "blocked"
              /\ e.to = last.from
              /\ e.to # "blocked"
    BY <1>1, <1>4 DEF Linked
  <2>5. last.to \in State /\ e.to \in State
    BY <1>1, <2>2 DEF Event
  <2>6. item # EmptyItem /\ item # Corrupt
    BY <2>1, <2>2, <2>3, <2>5 DEF EmptyItem, Corrupt, State
  <2>7. item.state = "blocked" => /\ e.to = last.from
                                  /\ e.to # "blocked"
    BY <2>3, <2>4, TableFacts
  <2>8. /\ item.state = last.to
        /\ item.version = n - 1
        /\ item.resume = IF last.to = "blocked" THEN last.from ELSE NoState
    BY <2>3
  <2>9. Replay(item, e) =
          [state   |-> e.to,
           resume  |-> IF item.state # "blocked" /\ e.to = "blocked" THEN item.state
                       ELSE IF item.state = "blocked" /\ e.to # "blocked"
                              THEN NoState ELSE item.resume,
           version |-> e.version]
    <3> HIDE DEF item, e, last
    <3>1. e.version = item.version + 1
      BY <1>1, <2>8
    <3>2. QED
      BY <2>4, <2>5, <2>6, <2>7, <2>8, <3>1 DEF Replay
  <2>10. (IF item.state # "blocked" /\ e.to = "blocked" THEN item.state
          ELSE IF item.state = "blocked" /\ e.to # "blocked"
                 THEN NoState ELSE item.resume)
         = IF e.to = "blocked" THEN e.from ELSE NoState
    <3> HIDE DEF item, e, last
    <3> QED
      BY <2>4, <2>7, <2>8
  <2>11. Replay(item, e) = ItemAfter(events)[n]
    <3> HIDE DEF item, e, last
    <3> QED
      BY <1>2, <2>9, <2>10
  <2>12. QED
    BY <2>11
<1>5. QED
  BY <1>3, <1>4

(* Fold never rejects a stored history, and rebuilds from it the very item  *)
(* the journal decides on.                                                 *)
THEOREM FoldCorrect == Spec => []FoldAgrees
<1>1. ASSUME TypeOK, ChainOK, NEW i \in Item PROVE Fold(log[i]) = Load(i)
  <2> DEFINE events == log[i]
             g == ItemAfter(events)
  <2>1. events \in Seq(Event) /\ Len(events) \in Nat
    BY <1>1 DEF TypeOK
  <2>2. \A k \in 1 .. Len(events) : Linked(events, k)
    <3>1. DOMAIN events = 1 .. Len(events)
      <4> HIDE DEF events
      <4> QED
        BY <2>1
    <3>2. \A k \in DOMAIN events : Linked(events, k)
      BY <1>1 DEF ChainOK
    <3> HIDE DEF events
    <3>3. QED
      BY <3>1, <3>2
  <2>3. \A n \in 0 .. Len(events) :
          g[n] = IF n = 0 THEN EmptyItem ELSE Replay(g[n - 1], events[n])
    <3>1. g[0] = EmptyItem
      BY <2>1 DEF ItemAfter
    <3>2. \A n \in 1 .. Len(events) : Replay(g[n - 1], events[n]) = g[n]
      <4> HIDE DEF events
      <4> QED
        BY <2>1, <2>2, ReplayNext
    <3> HIDE DEF g, events
    <3>3. QED
      BY <2>1, <3>1, <3>2
  <2>4. g = [n \in 0 .. Len(events) |->
               IF n = 0 THEN EmptyItem ELSE Replay(g[n - 1], events[n])]
    <3>1. g = [n \in 0 .. Len(events) |-> g[n]]
      BY DEF ItemAfter
    <3> HIDE DEF g, events
    <3>2. QED
      BY <2>3, <3>1
  <2>5. Fold(events) = g[Len(events)]
    <3> HIDE DEF g, events
    <3> QED
      BY <2>1, <2>4, FoldUnique
  <2>6. g[Len(events)] = Projection(events)
    BY <2>1 DEF ItemAfter, Projection
  <2>7. QED
    BY <2>5, <2>6 DEF Load
<1>2. TypeOK /\ ChainOK => FoldAgrees
  BY <1>1 DEF FoldAgrees
<1>3. QED
  BY <1>2, TypeCorrect, ChainCorrect, PTL
=============================================================================
