----------------------------- MODULE FrontEnds ------------------------------
(***************************************************************************)
(* The two ways an operator reaches harnessd, and what harnessd shows      *)
(* back: Telegram, polled at the end of each Tick (daemon/telegram.go and  *)
(* internal/telegram), the dashboard's POST /api/commands, and the rows of *)
(* the dashboard, refreshed by feedDashboard from both sides.              *)
(*                                                                         *)
(* Every ApplyOperatorCommand is a call of its own (module Journal has its *)
(* races in full); the Tick and each HTTP handler have one call in         *)
(* progress at most.  A message is an update of the chat; its number is    *)
(* its place in the chat; one of a type that is not Parsed stands for any  *)
(* update that ParseUpdate or ParseCommand refuses for its content.        *)
(* Minutes are the unit of time.                                           *)
(***************************************************************************)
EXTENDS Gatekeeper, FiniteSets

CONSTANTS Item,          \* the Work Items in d.known
          Start,         \* Start[i]: what the journal holds of them
          Handler,       \* HTTP handlers of the dashboard
          Sends, Posts,  \* command types operators send and post
          Own,           \* command types the daemon issues while it works
          Ahead, MaxAge, \* a message is stale outside now-MaxAge .. now+Ahead
          ChallengeTTL,  \* a challenge is good for so long
          MaxTime, MaxMessages, MaxPosts, MaxMoves, MaxFaults    \* bounds

CONSTANTS Ticker,        \* the caller that is Tick
          NoOffer        \* a message without a challenge

ASSUME FrontEndsAssumption ==
  /\ Start \in [Item -> {it \in WorkItem : it.state \in State}]
  /\ Ticker \notin Handler
  /\ Posts \cup Own \subseteq CommandType
  /\ Ahead \in Nat /\ MaxAge \in Nat /\ ChallengeTTL \in Nat \ {0}
  /\ {MaxTime, MaxMessages, MaxPosts, MaxMoves, MaxFaults} \subseteq Nat

VARIABLES item,      \* item[i]: the Work Item the journal loads
          rows,      \* dashboard.Store: the row of each item
          time,      \* the clock of the host and of the chat
          chat,      \* the updates sent to the bot, in order
          offers,    \* the challenges that reached an operator
          offset,    \* telegram-offset: the first update not yet seen
          tick,      \* where Tick is
          call,      \* call[c]: where the ApplyOperatorCommand of c is
          heard,     \* history: what became of each message
          effects,   \* history: how many events each message caused
          posts, moves, faults                          \* so far

chats == <<chat, offers>>
history == <<heard, effects>>
counts == <<posts, moves, faults>>
vars == <<item, rows, time, chats, offset, tick, call, history, counts>>

Torn == 0      \* an offset file that does not parse
Message == 1 .. MaxMessages
Caller == Handler \cup {Ticker}

Sensitive == {"approve_pr", "accept_feature", "retry_deployment", "cancel"}
Parsed == Sensitive \cup {"request_changes"}

Row(i) == [state |-> item[i].state, version |-> item[i].version]

Idle == [pc |-> "idle", item |-> 0, type |-> "none", expected |-> 0,
         left |-> {}, row |-> [state |-> NoState, version |-> 0]]

Feeding(left) == [Idle EXCEPT !.pc = "feed", !.left = left]

At(pc, now) == [pc |-> pc, now |-> now, next |-> 1, last |-> 0]

(* A daemon that has started; a missing offset file is the first update.   *)
Init ==
  /\ item = Start
  /\ rows = [i \in Item |-> Row(i)]
  /\ time = 0
  /\ chat = <<>> /\ offers = {} /\ offset = 1
  /\ tick = At("idle", 0)
  /\ call = [c \in Caller |-> Idle]
  /\ heard = [u \in Message |-> "none"]
  /\ effects = [u \in Message |-> 0]
  /\ posts = 0 /\ moves = 0 /\ faults = 0

Fault == faults < MaxFaults /\ faults' = faults + 1 /\ UNCHANGED <<posts, moves>>

Goto(pc) == tick' = [tick EXCEPT !.pc = pc]

Command(c) ==
  [id |-> "any", item |-> call[c].item, expected |-> call[c].expected,
   actor |-> "operator", type |-> call[c].type, reason |-> TRUE]

Begin(c, i, type, expected) ==
  call' = [call EXCEPT ![c] = [Idle EXCEPT !.pc = "load", !.item = i,
                                           !.type = type, !.expected = expected]]
-----------------------------------------------------------------------------
(* The operator, who reads versions off the dashboard.  A reply to an offer *)
(* carries its challenge.                                                  *)
SendMessage(i, type, offer) ==
  /\ Len(chat) < MaxMessages
  /\ offer # NoOffer => type \in Sensitive
  /\ chat' = Append(chat, [item |-> i, type |-> type, offer |-> offer,
                           expected |-> rows[i].version, sent |-> time])
  /\ UNCHANGED <<item, rows, time, offers, offset, tick, call, history, counts>>

(* handleCommand: POST /api/commands, which the applier answers later. *)
HandleCommand(c, i, type) ==
  /\ tick.pc # "down"
  /\ call[c].pc = "idle"
  /\ posts < MaxPosts
  /\ posts' = posts + 1
  /\ Begin(c, i, type, rows[i].version)
  /\ UNCHANGED <<item, rows, time, chats, offset, tick, history, moves, faults>>
-----------------------------------------------------------------------------
(* ApplyOperatorCommand.  What the chat is told of it: nothing.            *)
Acted(c) == c = Ticker /\ tick.pc = "handle"

Return(c) ==
  /\ call' = [call EXCEPT ![c] = Idle]
  /\ IF Acted(c)
     THEN /\ tick' = [tick EXCEPT !.next = @ + 1]
          /\ heard' = [heard EXCEPT ![tick.next] = "applied"]
     ELSE UNCHANGED <<tick, heard>>

LoadAndDecide(c) ==
  /\ call[c].pc = "load"
  /\ IF Permits(DaemonContext("operator"), item[call[c].item].state, call[c].type)
     THEN /\ call' = [call EXCEPT ![c].pc = "apply"]
          /\ UNCHANGED <<tick, heard>>
     ELSE Return(c)
  /\ UNCHANGED <<item, rows, time, chats, offset, effects, counts>>

(* Mutant of Events: the version is the one just loaded, not the operator's. *)
EventsAtAnyVersion(c) ==
  Handle(item[call[c].item], [Command(c) EXCEPT !.expected = item[call[c].item].version])

(* db.Apply: the events of the command, none when it is refused. *)
Events(c) == Handle(item[call[c].item], Command(c))

ApplyRefuses(c) ==
  /\ call[c].pc = "apply"
  /\ Events(c) = {}
  /\ Return(c)
  /\ UNCHANGED <<item, rows, time, chats, offset, effects, counts>>

ApplyCommits(c) ==
  /\ call[c].pc = "apply"
  /\ \E e \in Events(c) :
       item' = [item EXCEPT ![call[c].item] = Replay(@, e)]
  /\ call' = [call EXCEPT ![c] = Feeding(Item)]
  /\ effects' = IF Acted(c) THEN [effects EXCEPT ![tick.next] = @ + 1] ELSE effects
  /\ UNCHANGED <<rows, time, chats, offset, tick, heard, counts>>

(***************************************************************************)
(* feedDashboard: one item after the other is loaded, then its row is      *)
(* replaced; the load and Upsert are two steps, so another feeder may come *)
(* in between.                                                             *)
(***************************************************************************)
FeedLoad(c, i) ==
  /\ call[c].pc = "feed"
  /\ i \in call[c].left
  /\ call' = [call EXCEPT ![c].pc = "upsert", ![c].left = @ \ {i},
                          ![c].row = Row(i), ![c].item = i]
  /\ UNCHANGED <<item, rows, time, chats, offset, tick, history, counts>>

Upsert(c) ==
  /\ call[c].pc = "upsert"
  /\ rows' = [rows EXCEPT ![call[c].item] = call[c].row]
  /\ call' = [call EXCEPT ![c] = Feeding(@.left)]
  /\ UNCHANGED <<item, time, chats, offset, tick, history, counts>>

FeedEnds(c) ==
  /\ call[c].pc = "feed"
  /\ call[c].left = {}
  /\ IF c = Ticker /\ tick.pc = "feed"
     THEN /\ call' = [call EXCEPT ![c] = Idle]
          /\ Goto("idle")
          /\ UNCHANGED heard
     ELSE Return(c)
  /\ UNCHANGED <<item, rows, time, chats, offset, effects, counts>>
-----------------------------------------------------------------------------
(* Serve hands Tick the time the ticker fired at, which after a long tick   *)
(* is a moment of that tick.                                               *)
BeginTick ==
  /\ tick.pc = "idle"
  /\ \E now \in tick.now .. time : tick' = At("working", now)
  /\ UNCHANGED <<item, rows, time, chats, offset, call, history, counts>>

(* advanceItem: the daemon issues commands of its own, roles run for long. *)
Work(i, type) ==
  /\ tick.pc = "working"
  /\ moves < MaxMoves
  /\ moves' = moves + 1
  /\ Permits(DaemonContext("automation"), item[i].state, type)
  /\ \E e \in Handle(item[i], [id |-> "any", item |-> i, type |-> type, reason |-> TRUE,
                               expected |-> item[i].version, actor |-> "automation"]) :
       item' = [item EXCEPT ![i] = Replay(@, e)]
  /\ UNCHANGED <<rows, time, chats, offset, tick, call, history, posts, faults>>

(* Mutant of StartFeed: a tick ends without a refresh.                     *)
StartFeedNever(c) == tick' = At("idle", tick.now) /\ UNCHANGED call

(* The feedDashboard that ends every tick, also one an item failed. *)
StartFeed(c) ==
  /\ tick' = At("feed", tick.now)
  /\ call' = [call EXCEPT ![c] = Feeding(Item)]

WorkFails ==
  /\ tick.pc = "working"
  /\ Fault
  /\ StartFeed(Ticker)
  /\ UNCHANGED <<item, rows, time, chats, offset, history>>

WorkEnds ==
  /\ tick.pc = "working"
  /\ Goto("poll")
  /\ UNCHANGED <<item, rows, time, chats, offset, call, history, counts>>

(* pollTelegram gives up before the batch: its error is dropped.  An offset *)
(* that does not parse ends every poll here.                               *)
PollFails ==
  /\ tick.pc = "poll"
  /\ IF offset = Torn THEN UNCHANGED counts ELSE Fault
  /\ StartFeed(Ticker)
  /\ UNCHANGED <<item, rows, time, chats, offset, history>>

(* GetUpdates from the offset on. *)
Poll ==
  /\ tick.pc = "poll"
  /\ offset # Torn
  /\ tick' = [tick EXCEPT !.pc = "handle", !.next = offset, !.last = Len(chat)]
  /\ UNCHANGED <<item, rows, time, chats, offset, call, history, counts>>
-----------------------------------------------------------------------------
(* handleTelegramUpdate, for the update next in the batch; `now` is the     *)
(* time the tick began with.                                               *)
update == chat[tick.next]

Handling ==
  /\ tick.pc = "handle"
  /\ call[Ticker].pc = "idle"
  /\ tick.next <= tick.last

Stale(u, now) == u.sent > now + Ahead \/ now - u.sent > MaxAge

(* VerifyChallenge: for this gate at this version, and not expired. *)
Verifies(u, now) ==
  /\ u.offer # NoOffer
  /\ u.offer.gate = u.type
  /\ u.offer.version = u.expected
  /\ now < u.offer.expires

Skipped(outcome) ==
  /\ heard' = [heard EXCEPT ![tick.next] = outcome]
  /\ tick' = [tick EXCEPT !.next = @ + 1]

Skip ==
  /\ Handling
  /\ \/ Stale(update, tick.now) /\ Skipped("stale")
     \/ /\ ~Stale(update, tick.now)
        /\ \/ update.type \notin Parsed
           \/ update.offer # NoOffer /\ ~Verifies(update, tick.now)
        /\ Skipped("refused")
  /\ UNCHANGED <<item, rows, time, chats, offset, call, effects, counts>>

(* A sensitive command without a challenge is offered one; the answer of    *)
(* sendMessage is dropped, so the offer may be lost.                       *)
OfferChallenge ==
  /\ Handling
  /\ ~Stale(update, tick.now)
  /\ update.type \in Sensitive
  /\ update.offer = NoOffer
  /\ \/ offers' = offers \cup {[gate |-> update.type, version |-> update.expected,
                                expires |-> tick.now + ChallengeTTL]}
        /\ UNCHANGED counts
     \/ Fault /\ UNCHANGED offers
  /\ Skipped("offered")
  /\ UNCHANGED <<item, rows, time, chat, offset, call, effects>>

Accept ==
  /\ Handling
  /\ ~Stale(update, tick.now)
  /\ update.type \in Parsed
  /\ update.type \in Sensitive => Verifies(update, tick.now)
  /\ Begin(Ticker, update.item, update.type, update.expected)
  /\ UNCHANGED <<item, rows, time, chats, offset, tick, history, counts>>

BatchDone == tick.pc = "handle" /\ call[Ticker].pc = "idle" /\ tick.next > tick.last

(* Mutant of SaveOffset: one past the end.                                 *)
SaveOffsetTooFar ==
  /\ BatchDone
  /\ offset' = tick.next + 1
  /\ StartFeed(Ticker)
  /\ UNCHANGED <<item, rows, time, chats, history, counts>>

(* Mutant of SaveOffset: written when the batch begins.                    *)
SaveOffsetFirst ==
  /\ tick.pc = "handle" /\ call[Ticker].pc = "idle"
  /\ offset' = tick.last + 1
  /\ IF tick.next > tick.last THEN StartFeed(Ticker)
     ELSE offset # tick.last + 1 /\ UNCHANGED <<tick, call>>
  /\ UNCHANGED <<item, rows, time, chats, history, counts>>

(* Mutant of SaveOffset: only what was acted upon counts as seen.          *)
SaveOffsetOfActed ==
  /\ BatchDone
  /\ LET acted == {u \in Message : u < tick.next /\ heard[u] = "applied"}
     IN  offset' = IF \E u \in acted : u >= offset
                   THEN (CHOOSE u \in acted : \A v \in acted : v <= u) + 1 ELSE offset
  /\ StartFeed(Ticker)
  /\ UNCHANGED <<item, rows, time, chats, history, counts>>

(* saveOffset: once, after the batch. *)
SaveOffset ==
  /\ BatchDone
  /\ offset' = tick.next
  /\ StartFeed(Ticker)
  /\ UNCHANGED <<item, rows, time, chats, history, counts>>
-----------------------------------------------------------------------------
(* The process dies; in saveOffset, between truncate and write, or not. *)
Crash ==
  /\ tick.pc # "down"
  /\ Fault
  /\ \/ UNCHANGED offset
     \/ BatchDone /\ offset' = Torn
  /\ tick' = At("down", 0)
  /\ call' = [c \in Caller |-> Idle]
  /\ UNCHANGED <<item, rows, time, chats, history>>

(* Open: an empty dashboard and its first feed; a first tick at once. *)
Boot ==
  /\ tick.pc = "down"
  /\ rows' = [i \in Item |-> Row(i)]
  /\ tick' = At("idle", time)
  /\ UNCHANGED <<item, time, chats, offset, call, history, counts>>

Elapse ==
  /\ time < MaxTime
  /\ time' = time + 1
  /\ UNCHANGED <<item, rows, chats, offset, tick, call, history, counts>>

CallStep(c) ==
  \/ LoadAndDecide(c) \/ ApplyRefuses(c) \/ ApplyCommits(c)
  \/ \E i \in Item : FeedLoad(c, i)
  \/ Upsert(c) \/ FeedEnds(c)

TickStep ==
  \/ Boot \/ BeginTick \/ WorkEnds \/ PollFails \/ Poll
  \/ Skip \/ OfferChallenge \/ Accept \/ SaveOffset
  \/ CallStep(Ticker)

Next ==
  \/ TickStep
  \/ \E c \in Handler : CallStep(c)
  \/ \E i \in Item, type \in Own : Work(i, type)
  \/ WorkFails \/ Crash \/ Elapse
  \/ \E i \in Item, type \in Sends, o \in offers \cup {NoOffer} : SendMessage(i, type, o)
  \/ \E c \in Handler, i \in Item, type \in Posts : HandleCommand(c, i, type)

(***************************************************************************)
(* The ticker fires for ever, a tick and an HTTP call go on until they     *)
(* end, systemd restarts the daemon.  Nobody owes it a command, and no     *)
(* fault is owed.                                                          *)
(***************************************************************************)
Spec ==
  /\ Init /\ [][Next]_vars
  /\ WF_vars(TickStep)
  /\ \A c \in Handler : WF_vars(CallStep(c))
-----------------------------------------------------------------------------
RowType == [state : State, version : Nat]

TypeOK ==
  /\ item \in [Item -> WorkItem]
  /\ rows \in [Item -> RowType]
  /\ time \in 0 .. MaxTime
  /\ Len(chat) <= MaxMessages
  /\ offset \in {Torn} \cup 1 .. Len(chat) + 1
  /\ tick.pc \in {"down", "idle", "working", "poll", "handle", "feed"}
  /\ tick.now <= time
  /\ \A c \in Caller : call[c].pc \in {"idle", "load", "apply", "feed", "upsert"}
  /\ heard \in [Message -> {"none", "stale", "refused", "offered", "applied"}]

(* A message is delivered again after a crash before saveOffset, and again: *)
(* the version it names keeps it from acting twice.                        *)
MessageActsOnce == \A u \in Message : effects[u] <= 1

(* "The offset advances past every seen update": and past no other, so that *)
(* a crash loses none.                                                     *)
NoneDropped == \A u \in Message : u < offset => heard[u] # "none"

(* Every message is settled, the skipped ones as well, although one crash   *)
(* or failed poll may send it round again, unless the offset file is torn, *)
(* after which no poll ever succeeds.                                      *)
MessagesSettle ==
  \A u \in Message : u <= Len(chat) ~> u < offset \/ offset = Torn

(* Two feeders may leave a row older than one shown before: a later tick    *)
(* mends it, so the rows end up as the journal has the items.              *)
RowsCatchUp == <>[](rows = [i \in Item |-> Row(i)])

(* A message younger than the five minutes it is allowed is not dropped as  *)
(* stale.                                                                  *)
TimelyCommandsHeard ==
  [][\A u \in Message :
       heard[u] # "stale" /\ heard'[u] = "stale" => time - chat[u].sent > MaxAge]_vars
=============================================================================
