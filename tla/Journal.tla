------------------------------ MODULE Journal -------------------------------
(***************************************************************************)
(* internal/journal with the clients that write to it.                     *)
(*                                                                         *)
(* A client (Tick, applyWorkflow, ApplyOperatorCommand) loads an item,     *)
(* asks the gatekeeper about the state it saw, and only then calls Apply,  *)
(* so the item may move in between; a call whose answer is lost may be     *)
(* repeated.  Store.Apply is one SQLite transaction over one connection:   *)
(* it is one atomic step here.                                             *)
(***************************************************************************)
EXTENDS Gatekeeper, FiniteSets

CONSTANTS Item,        \* Work Item IDs
          CommandId,   \* the command IDs there are
          Clients,     \* the contexts in which commands are issued
          Menu,        \* the command types clients issue
          MaxVersion,  \* bound: events per item
          MaxSkew,     \* bound: how many versions a human's view is off
          MaxPending   \* bound: calls outstanding at once

ASSUME ClientsAssumption == Clients \subseteq Context
ASSUME MenuAssumption == Menu \subseteq CommandType
ASSUME BoundsAssumption == 
  /\ MaxVersion \in [Item -> Nat]
  /\ MaxSkew \in Nat
  /\ MaxPending \in Nat

VARIABLES log,       \* table events: log[i] is item i's rows, by version
          commands,  \* table commands: the IDs recorded
          pending,   \* calls of Apply that may still be made
          answer     \* answer[id]: what Apply last returned for id

vars == <<log, commands, pending, answer>>

Event == [kind : {"work_submitted", "state_changed"}, version : Nat,
          command : CommandId, actor : ActorKind,
          from : State \cup {NoState}, to : State]

(* A command, plus the state in which the gatekeeper allowed it.           *)
Request == [id : CommandId, item : Item, expected : Nat, actor : ActorKind,
            type : CommandType, reason : BOOLEAN, seen : State \cup {NoState}]

Reply(outcome, events) == [outcome |-> outcome, events |-> events]
NoAnswer == Reply("none", <<>>)

Answer == [outcome : {"none", "conflict", "refused", "committed"},
           events : Seq(Event)]

Init ==
  /\ log = [i \in Item |-> <<>>]
  /\ commands = {}
  /\ pending = {}
  /\ answer = [id \in CommandId |-> NoAnswer]

Load(i) == Projection(log[i])

UnusedIds == CommandId \ (commands \cup {r.id : r \in pending})

(***************************************************************************)
(* Load, decide, and build the command.  Automation expects the version it *)
(* loaded; a human sends whatever version the screen or the chat showed.   *)
(* commandID() draws an ID nobody used: which one makes no difference.     *)
(***************************************************************************)
Issue(i, ctx, type, reason, expected) ==
  LET item == Load(i)
      id   == CHOOSE u \in CommandId : u \in UnusedIds
  IN  /\ Cardinality(pending) < MaxPending
      /\ UnusedIds # {}
      /\ Permits(ctx, item.state, type)
      /\ ctx.actor = "automation" => expected = item.version
      /\ expected <= item.version + MaxSkew /\ item.version <= expected + MaxSkew
      /\ reason \/ RequiresReason(type)    \* elsewhere the reason is not read
      /\ pending' = pending \cup
           {[id |-> id, item |-> i, expected |-> expected, actor |-> ctx.actor,
             type |-> type, reason |-> reason, seen |-> item.state]}
      /\ answer' = [answer EXCEPT ![id] = NoAnswer]
      /\ UNCHANGED <<log, commands>>

(***************************************************************************)
(* Store.Apply, by its four outcomes.                                      *)
(***************************************************************************)
(* The ID is recorded: answer with its events, change nothing. *)
Duplicate(r) ==
  /\ r.id \in commands
  /\ \E i \in Item : \E k \in DOMAIN log[i] :
       /\ log[i][k].command = r.id
       /\ answer' = [answer EXCEPT ![r.id] = Reply("committed", <<log[i][k]>>)]
  /\ UNCHANGED <<log, commands, pending>>

(* Mutant of Conflict: the version is compared before the ID is looked up.  *)
ConflictFirst(r) ==
  /\ r.expected # Load(r.item).version
  /\ answer' = [answer EXCEPT ![r.id] = Reply("conflict", <<>>)]
  /\ UNCHANGED <<log, commands, pending>>

Conflict(r) ==
  /\ r.id \notin commands
  /\ r.expected # Load(r.item).version
  /\ answer' = [answer EXCEPT ![r.id] = Reply("conflict", <<>>)]
  /\ UNCHANGED <<log, commands, pending>>

Refuse(r) ==
  /\ r.id \notin commands
  /\ r.expected = Load(r.item).version
  /\ Handle(Load(r.item), r) = {}
  /\ answer' = [answer EXCEPT ![r.id] = Reply("refused", <<>>)]
  /\ UNCHANGED <<log, commands, pending>>

(* What Handle would say if Apply took the loaded version for the expected  *)
(* one (used by the mutants of Commit only).                               *)
HandleRebased(r) ==
  Handle(Load(r.item), [r EXCEPT !.expected = Load(r.item).version])

(* Mutant of Commit: a stale command is rebased instead of refused.        *)
CommitRebased(r) ==
  /\ r.id \notin commands
  /\ Len(log[r.item]) < MaxVersion[r.item]
  /\ \E e \in HandleRebased(r) :
       /\ log' = [log EXCEPT ![r.item] = Append(@, e)]
       /\ answer' = [answer EXCEPT ![r.id] = Reply("committed", <<e>>)]
  /\ commands' = commands \cup {r.id}
  /\ UNCHANGED pending

(* Mutant of Commit: rebased, and recorded IDs are not looked up.          *)
CommitAgain(r) ==
  /\ Len(log[r.item]) < MaxVersion[r.item]
  /\ \E e \in HandleRebased(r) :
       /\ log' = [log EXCEPT ![r.item] = Append(@, e)]
       /\ answer' = [answer EXCEPT ![r.id] = Reply("committed", <<e>>)]
  /\ commands' = commands \cup {r.id}
  /\ UNCHANGED pending

(* Mutant of Commit: INSERT OR REPLACE at the version after the expected one. *)
CommitReplaces(r) ==
  /\ r.id \notin commands
  /\ \E e \in HandleRebased(r) :
       /\ log' = [log EXCEPT ![r.item] = Append(SubSeq(@, 1, r.expected), e)]
       /\ answer' = [answer EXCEPT ![r.id] = Reply("committed", <<e>>)]
  /\ commands' = commands \cup {r.id}
  /\ UNCHANGED pending

(* Mutant of Commit: the event is stored, its command is not.              *)
CommitUnrecorded(r) ==
  /\ r.id \notin commands
  /\ r.expected = Load(r.item).version
  /\ Len(log[r.item]) < MaxVersion[r.item]
  /\ \E e \in Handle(Load(r.item), r) :
       /\ log' = [log EXCEPT ![r.item] = Append(@, e)]
       /\ answer' = [answer EXCEPT ![r.id] = Reply("committed", <<e>>)]
  /\ UNCHANGED <<commands, pending>>

Commit(r) ==
  /\ r.id \notin commands
  /\ r.expected = Load(r.item).version
  /\ Len(log[r.item]) < MaxVersion[r.item]
  /\ \E e \in Handle(Load(r.item), r) :
       /\ log' = [log EXCEPT ![r.item] = Append(@, e)]
       /\ answer' = [answer EXCEPT ![r.id] = Reply("committed", <<e>>)]
  /\ commands' = commands \cup {r.id}
  /\ UNCHANGED pending

Apply(r) == Duplicate(r) \/ Conflict(r) \/ Refuse(r) \/ Commit(r)

(* The client has its answer, or gave up, or died: no further call comes.  *)
Settle(r) ==
  /\ pending' = pending \ {r}
  /\ answer' = [answer EXCEPT ![r.id] = NoAnswer]
  /\ UNCHANGED <<log, commands>>

Next ==
  \/ \E i \in Item, ctx \in Clients, type \in Menu, reason \in BOOLEAN :
       \E expected \in 0 .. MaxVersion[i] : Issue(i, ctx, type, reason, expected)
  \/ \E r \in pending : Apply(r) \/ Settle(r)

Spec == Init /\ [][Next]_vars
-----------------------------------------------------------------------------
TypeOK ==
  /\ log \in [Item -> Seq(Event)]
  /\ commands \subseteq CommandId
  /\ pending \subseteq Request
  /\ answer \in [CommandId -> Answer]

(* Row k follows from the rows before it. *)
Linked(events, k) ==
  LET e == events[k]
  IN  /\ e.version = k
      /\ k = 1 => e.kind = "work_submitted" /\ e.from = NoState /\ e.to = "inbox"
      /\ k > 1 => /\ e.kind = "state_changed"
                  /\ e.from = events[k - 1].to
                  /\ \/ \E t \in Transitions : t[1] = e.from /\ t[3] = e.to
                     \/ /\ e.from = "blocked"
                        /\ e.to = events[k - 1].from
                        /\ e.to # "blocked"

(***************************************************************************)
(* Whatever the interleaving, each item's rows form a chain Fold accepts:  *)
(* versions 1, 2, 3..., each event starting where the last one ended, along *)
(* the transitions table, and out of "blocked" only to where it came from. *)
(* (Store.Apply writes what Handle returned for a state loaded in the same *)
(* transaction; Store.Load fails for ever on a history Fold rejects.)      *)
(***************************************************************************)
ChainOK == \A i \in Item : \A k \in DOMAIN log[i] : Linked(log[i], k)

(* Fold never rejects a stored history, and rebuilds from it the item the  *)
(* journal decides on.                                                     *)
FoldAgrees == \A i \in Item : Fold(log[i]) = Load(i)

(* A command takes effect once: its ID is on one event of one item at most, *)
(* and the two tables never disagree about which commands are recorded.    *)
OncePerCommand ==
  /\ \A i, j \in Item : \A k \in DOMAIN log[i], l \in DOMAIN log[j] :
       log[i][k].command = log[j][l].command => i = j /\ k = l
  /\ commands = UNION {{log[i][k].command : k \in DOMAIN log[i]} : i \in Item}

(***************************************************************************)
(* The human gates of docs/workflow.md, across every race and retry: an    *)
(* item past triage was authorized by a human, and one on its way to       *)
(* production was approved by a human after the last implementation.       *)
(* Where an item stands looks through a block.                             *)
(***************************************************************************)
Stands(i) == IF Load(i).state = "blocked" THEN Load(i).resume ELSE Load(i).state

Human(e) == e.actor # "automation"

Authorized(i) ==
  \E k \in DOMAIN log[i] :
    log[i][k].from = "triage" /\ log[i][k].to = "ready" /\ Human(log[i][k])

Approved(i) ==
  \E k \in DOMAIN log[i] :
    /\ log[i][k].from = "reviewing"
    /\ log[i][k].to = "ready_to_deploy"
    /\ Human(log[i][k])
    /\ \A m \in DOMAIN log[i] : m > k => log[i][m].to # "implementing"

Delivering == {"ready_to_deploy", "deploying", "client_qa", "rolling_out",
               "done", "failed"}

Building == {"ready", "specifying", "implementing", "reviewing",
             "changes_requested"}

HumanGates ==
  \A i \in Item :
    /\ Stands(i) \in Building \cup Delivering => Authorized(i)
    /\ Stands(i) \in Delivering => Approved(i)

(* What automation commits, it commits in the state the gatekeeper judged,  *)
(* however long ago that was.                                              *)
CommittedWhereDecided ==
  [][\A r \in pending :
       /\ r.actor = "automation"
       /\ r.id \in commands' \ commands
       => r.seen = Load(r.item).state]_vars

(* Stored events are immutable, a step adds one at most to one item, and a *)
(* done or cancelled item gets no more.                                    *)
HistoryOnlyGrows ==
  [][\E i \in Item :
       /\ \A j \in Item \ {i} : log'[j] = log[j]
       /\ \/ log'[i] = log[i]
          \/ /\ Load(i).state \notin Terminal
             /\ log'[i] # <<>>
             /\ log[i] = SubSeq(log'[i], 1, Len(log'[i]) - 1)]_log

(* A call repeated after a lost answer gets the answer it got before.      *)
RetryGetsSameAnswer ==
  [][\A r \in pending :
       /\ r \in pending'
       /\ answer[r.id].outcome = "committed"
       => answer'[r.id] = answer[r.id]]_vars

(* The journal is one place per item where each command acts once.         *)
Abstract == INSTANCE WorkItems
  WITH place <- [i \in Item |-> Load(i).state],
       origin <- [i \in Item |-> Load(i).resume],
       applied <- commands

ImplementsWorkItems == Abstract!Spec
=============================================================================

