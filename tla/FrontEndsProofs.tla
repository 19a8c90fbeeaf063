-------------------------- MODULE FrontEndsProofs ---------------------------
(***************************************************************************)
(* What holds of the front ends for any number of items, handlers and      *)
(* messages and every bound.  Delivery: the offset never passes the update *)
(* being handled, and an update is recorded before the next one is taken   *)
(* up.  Action: the version a message names is the item's when it acts,    *)
(* and behind the item's from then on, so a second delivery is refused.    *)
(***************************************************************************)
EXTENDS FrontEnds, WorkflowProofs

Stored == {it \in WorkItem : it.state \in State}

Offer == [gate : Sensitive, version : Nat, expires : Nat]

Update == [item : Item, type : Sends, offer : Offer \cup {NoOffer},
           expected : Nat, sent : Nat]

TickType == [pc : {"down", "idle", "working", "poll", "handle", "feed"},
             now : Nat, next : Nat, last : Nat]

CallPc == {"idle", "load", "apply", "feed", "upsert"}

CallRecord == [pc : CallPc, item : Item \cup {0}, type : Sends \cup Posts \cup {"none"},
               expected : Nat, left : SUBSET Item,
               row : [state : State \cup {NoState}, version : Nat]]

(* A call names an item as soon as it has something to do with one. *)
CallType == {r \in CallRecord :
               /\ r.pc \in {"load", "apply", "upsert"} => r.item \in Item
               /\ r.pc = "upsert" => r.row \in RowType}

Outcome == {"none", "stale", "refused", "offered", "applied"}

Types ==
  /\ item \in [Item -> Stored]
  /\ rows \in [Item -> RowType]
  /\ time \in 0 .. MaxTime
  /\ chat \in Seq(Update) /\ Len(chat) <= MaxMessages
  /\ offers \subseteq Offer
  /\ offset \in Nat
  /\ tick \in TickType /\ tick.now <= time
  /\ call \in [Caller -> CallType]
  /\ heard \in [Message -> Outcome]
  /\ effects \in [Message -> Nat]

(* Where Tick is decides where its call and the offset can be. *)
Control ==
  /\ offset <= Len(chat) + 1
  /\ tick.pc = "handle" =>
       /\ 1 <= offset /\ offset <= tick.next
       /\ tick.next <= tick.last + 1 /\ tick.last <= Len(chat)
       /\ call[Ticker].pc # "idle" => tick.next <= tick.last
  /\ tick.pc = "feed" => call[Ticker].pc \in {"feed", "upsert"}
  /\ tick.pc \in {"down", "idle", "working", "poll"} => call[Ticker].pc = "idle"
  /\ call[Ticker].pc \in {"load", "apply"} =>
       /\ call[Ticker].item = update.item
       /\ call[Ticker].expected = update.expected

(* Every update before the one handled has its outcome. *)
Delivered ==
  /\ NoneDropped
  /\ tick.pc = "handle" =>
       \A u \in Message : u < tick.next => heard[u] # "none"

(* A message that acted left the item ahead of the version it names. *)
Spent ==
  \A u \in Message :
    /\ effects[u] <= 1
    /\ effects[u] # 0 => /\ u <= Len(chat)
                         /\ chat[u].expected < item[chat[u].item].version

FrontEndsInv == Types /\ Control /\ Delivered /\ Spent
-----------------------------------------------------------------------------
(* The records a call goes through.                                        *)

LEMMA IdleRecord == Idle \in CallType /\ Idle.pc = "idle"
BY DEF Idle, CallType, CallRecord, CallPc

LEMMA FeedingRecord ==
  ASSUME NEW S \in SUBSET Item
  PROVE  Feeding(S) \in CallType /\ Feeding(S).pc = "feed"
<1>1. Idle \in CallRecord
  BY IdleRecord DEF CallType
<1>2. Feeding(S) \in CallRecord /\ Feeding(S).pc = "feed"
  BY <1>1 DEF Feeding, CallRecord, CallPc
<1>3. QED
  BY <1>2 DEF CallType

Begun(i, type, expected) ==
  [Idle EXCEPT !.pc = "load", !.item = i, !.type = type, !.expected = expected]

LEMMA BegunRecord ==
  ASSUME NEW i \in Item, NEW type \in Sends \cup Posts, NEW expected \in Nat
  PROVE  /\ Begun(i, type, expected) \in CallType
         /\ Begun(i, type, expected).pc = "load"
         /\ Begun(i, type, expected).item = i
         /\ Begun(i, type, expected).expected = expected
<1>1. Idle \in CallRecord
  BY IdleRecord DEF CallType
<1>2. Begun(i, type, expected) \in CallRecord
  BY <1>1 DEF Begun, CallRecord, CallPc
<1>3. /\ Begun(i, type, expected).pc = "load"
      /\ Begun(i, type, expected).item = i
      /\ Begun(i, type, expected).expected = expected
  BY <1>1 DEF Begun, CallRecord
<1>4. QED
  BY <1>2, <1>3 DEF CallType

LEMMA AllowedRecord ==
  ASSUME NEW r \in CallType, r.pc = "load"
  PROVE  /\ [r EXCEPT !.pc = "apply"] \in CallType
         /\ [r EXCEPT !.pc = "apply"].pc = "apply"
         /\ [r EXCEPT !.pc = "apply"].item = r.item
         /\ [r EXCEPT !.pc = "apply"].expected = r.expected
BY DEF CallType, CallRecord, CallPc

Upserting(r, i, row) ==
  [r EXCEPT !.pc = "upsert", !.left = @ \ {i}, !.row = row, !.item = i]

LEMMA UpsertingRecord ==
  ASSUME NEW r \in CallType, NEW i \in Item, NEW row \in RowType
  PROVE  Upserting(r, i, row) \in CallType /\ Upserting(r, i, row).pc = "upsert"
<1>1. r \in CallRecord
  BY DEF CallType
<1>2. row \in [state : State \cup {NoState}, version : Nat]
  BY DEF RowType
<1>3. Upserting(r, i, row) \in CallRecord
  BY <1>1, <1>2 DEF Upserting, CallRecord, CallPc
<1>4. /\ Upserting(r, i, row).pc = "upsert"
      /\ Upserting(r, i, row).item = i
      /\ Upserting(r, i, row).row = row
  BY <1>1 DEF Upserting, CallRecord
<1>5. QED
  BY <1>3, <1>4 DEF CallType

-----------------------------------------------------------------------------
(* The items and the chat only grow.                                       *)

LEMMA RowOfItem ==
  ASSUME Types, NEW i \in Item
  PROVE  Row(i) \in RowType
BY DEF Types, Stored, WorkItem, Row, RowType

(* A command that Handle takes leaves the item one version on. *)
LEMMA HandledItem ==
  ASSUME Types, NEW i \in Item, NEW c, NEW e \in Handle(item[i], c),
         item' = [item EXCEPT ![i] = Replay(@, e)]
  PROVE  /\ item' \in [Item -> Stored]
         /\ item'[i].version = item[i].version + 1
         /\ \A j \in Item : item[j].version <= item'[j].version
<1>1. item[i] \in WorkItem /\ \A j \in Item : item[j].version \in Nat
  BY DEF Types, Stored, WorkItem
<1>2. Replay(item[i], e) \in Stored /\ Replay(item[i], e).version = item[i].version + 1
  BY <1>1, ReplayHandled DEF Stored
<1>3. item'[i] = Replay(item[i], e) /\ \A j \in Item : j # i => item'[j] = item[j]
  BY DEF Types
<1>4. item' \in [Item -> Stored]
  BY <1>2 DEF Types
<1>5. QED
  BY <1>1, <1>2, <1>3, <1>4

LEMMA NextItem ==
  ASSUME Types, [Next]_vars
  PROVE  /\ item' \in [Item -> Stored]
         /\ \A j \in Item : item[j].version <= item'[j].version
<1>1. CASE item' = item
  BY <1>1 DEF Types, Stored, WorkItem
<1>2. ASSUME NEW c \in Caller, ApplyCommits(c)
      PROVE  /\ item' \in [Item -> Stored]
             /\ \A j \in Item : item[j].version <= item'[j].version
  <2>1. call[c].item \in Item
    BY <1>2 DEF ApplyCommits, Types, CallType
  <2>2. PICK e \in Handle(item[call[c].item], Command(c)) :
          item' = [item EXCEPT ![call[c].item] = Replay(@, e)]
    BY <1>2 DEF ApplyCommits, Events
  <2>3. QED
    BY <2>1, <2>2, HandledItem
<1>3. ASSUME NEW i \in Item, NEW type \in Own, Work(i, type)
      PROVE  /\ item' \in [Item -> Stored]
             /\ \A j \in Item : item[j].version <= item'[j].version
  <2> DEFINE cmd == [id |-> "any", item |-> i, type |-> type, reason |-> TRUE,
                     expected |-> item[i].version, actor |-> "automation"]
  <2>1. PICK e \in Handle(item[i], cmd) : item' = [item EXCEPT ![i] = Replay(@, e)]
    BY <1>3 DEF Work
  <2> HIDE DEF cmd
  <2>2. QED
    BY <2>1, HandledItem
<1>4. QED
  BY <1>1, <1>2, <1>3
     DEF Next, TickStep, CallStep, LoadAndDecide, ApplyRefuses, FeedLoad, Upsert,
         FeedEnds, Boot, BeginTick, WorkEnds, PollFails, Poll, Skip,
         OfferChallenge, Accept, SaveOffset, WorkFails, Crash, Elapse,
         SendMessage, HandleCommand, vars, Caller

LEMMA NextChat ==
  ASSUME Types, [Next]_vars
  PROVE  /\ chat' \in Seq(Update) /\ Len(chat') <= MaxMessages
         /\ Len(chat) <= Len(chat')
         /\ \A u \in 1 .. Len(chat) : chat'[u] = chat[u]
<1>1. chat \in Seq(Update) /\ Len(chat) \in Nat /\ MaxMessages \in Nat
      /\ Len(chat) <= MaxMessages
  BY FrontEndsAssumption DEF Types
<1>2. CASE chat' = chat
  BY <1>1, <1>2
<1>3. ASSUME NEW i \in Item, NEW type \in Sends, NEW o \in offers \cup {NoOffer},
             SendMessage(i, type, o)
      PROVE  /\ chat' \in Seq(Update) /\ Len(chat') <= MaxMessages
             /\ Len(chat) <= Len(chat')
             /\ \A u \in 1 .. Len(chat) : chat'[u] = chat[u]
  <2> DEFINE m == [item |-> i, type |-> type, offer |-> o,
                   expected |-> rows[i].version, sent |-> time]
  <2>1. rows[i].version \in Nat /\ time \in Nat /\ o \in Offer \cup {NoOffer}
    BY FrontEndsAssumption DEF Types, RowType
  <2>2. m \in Update
    BY <2>1 DEF Update
  <2>3. chat' = Append(chat, m) /\ Len(chat) < MaxMessages
    BY <1>3 DEF SendMessage
  <2> HIDE DEF m
  <2>4. QED
    BY <1>1, <2>2, <2>3
<1>4. QED
  BY <1>2, <1>3
     DEF Next, TickStep, CallStep, LoadAndDecide, ApplyRefuses, ApplyCommits,
         FeedLoad, Upsert, FeedEnds, Boot, BeginTick, WorkEnds, PollFails, Poll,
         Skip, OfferChallenge, Accept, SaveOffset, Work, WorkFails, Crash,
         Elapse, HandleCommand, vars, chats
-----------------------------------------------------------------------------
(* Types.                                                                  *)

(* The update next in the batch is one of the chat. *)
LEMMA NextUpdate ==
  ASSUME Types, Control, tick.pc = "handle", tick.next <= tick.last
  PROVE  /\ tick.next \in 1 .. Len(chat)
         /\ tick.next \in Message
         /\ update \in Update
<1>1. /\ tick.next \in Nat /\ tick.last \in Nat /\ offset \in Nat
      /\ Len(chat) \in Nat /\ MaxMessages \in Nat /\ Len(chat) <= MaxMessages
  BY FrontEndsAssumption DEF Types, TickType
<1>2. 1 <= tick.next /\ tick.next <= Len(chat)
  BY <1>1 DEF Control
<1>3. QED
  BY <1>1, <1>2 DEF Types, Message, update

(* What any step may do to the calls: one caller's call goes on, or the    *)
(* crash ends them all.                                                    *)
LEMMA NextCall ==
  ASSUME Types, Control, [Next]_vars
  PROVE  call' \in [Caller -> CallType]
<1>1. call \in [Caller -> CallType] /\ Ticker \in Caller
  BY DEF Types, Caller
<1>2. ASSUME NEW c \in Caller, NEW r \in CallType, call' = [call EXCEPT ![c] = r]
      PROVE  call' \in [Caller -> CallType]
  BY <1>1, <1>2
<1>3. CASE call' = call
  BY <1>1, <1>3
<1>4. CASE Crash
  BY <1>4, IdleRecord DEF Crash
<1>5. ASSUME NEW c \in Caller, CallStep(c)
      PROVE  call' \in [Caller -> CallType]
  <2>1. CASE LoadAndDecide(c)
    <3>1. CASE call' = [call EXCEPT ![c].pc = "apply"]
      <4>1. call[c] \in CallType /\ call[c].pc = "load"
        BY <1>1, <2>1 DEF LoadAndDecide
      <4>2. [call[c] EXCEPT !.pc = "apply"] \in CallType
        BY <4>1, AllowedRecord
      <4>3. call' = [call EXCEPT ![c] = [call[c] EXCEPT !.pc = "apply"]]
        BY <1>1, <3>1
      <4>4. QED
        BY <1>2, <4>2, <4>3
    <3>2. CASE Return(c)
      BY <1>2, <3>2, IdleRecord DEF Return
    <3>3. QED
      BY <2>1, <3>1, <3>2 DEF LoadAndDecide
  <2>2. CASE ApplyRefuses(c)
    BY <1>2, <2>2, IdleRecord DEF ApplyRefuses, Return
  <2>3. CASE ApplyCommits(c)
    BY <1>2, <2>3, FeedingRecord DEF ApplyCommits
  <2>4. ASSUME NEW i \in Item, FeedLoad(c, i)
        PROVE  call' \in [Caller -> CallType]
    <3>1. call[c] \in CallType
      BY <1>1
    <3>2. Upserting(call[c], i, Row(i)) \in CallType
      BY <3>1, RowOfItem, UpsertingRecord
    <3>3. call' = [call EXCEPT ![c] = Upserting(call[c], i, Row(i))]
      BY <1>1, <2>4 DEF FeedLoad, Upserting
    <3>4. QED
      BY <1>2, <3>2, <3>3
  <2>5. CASE Upsert(c)
    <3>1. call[c].left \in SUBSET Item
      BY <1>1 DEF CallType, CallRecord
    <3>2. call' = [call EXCEPT ![c] = Feeding(call[c].left)]
      BY <2>5 DEF Upsert
    <3>3. QED
      BY <1>2, <3>1, <3>2, FeedingRecord
  <2>6. CASE FeedEnds(c)
    BY <1>2, <2>6, IdleRecord DEF FeedEnds, Return
  <2>7. QED
    BY <1>5, <2>1, <2>2, <2>3, <2>4, <2>5, <2>6 DEF CallStep
<1>6. CASE Accept
  <2>1. update \in Update
    BY <1>6, NextUpdate DEF Accept, Handling
  <2>2. /\ update.item \in Item
        /\ update.type \in Sends \cup Posts
        /\ update.expected \in Nat
    BY <2>1 DEF Update
  <2>3. call' = [call EXCEPT ![Ticker] =
                   Begun(update.item, update.type, update.expected)]
    BY <1>6 DEF Accept, Begin, Begun
  <2>4. QED
    BY <1>1, <1>2, <2>2, <2>3, BegunRecord
<1>7. ASSUME NEW c \in Handler, NEW i \in Item, NEW type \in Posts,
             HandleCommand(c, i, type)
      PROVE  call' \in [Caller -> CallType]
  <2>1. rows[i].version \in Nat /\ c \in Caller
    BY DEF Types, RowType, Caller
  <2>2. call' = [call EXCEPT ![c] = Begun(i, type, rows[i].version)]
    BY <1>7 DEF HandleCommand, Begin, Begun
  <2>3. QED
    BY <1>2, <2>1, <2>2, BegunRecord
<1>8. CASE StartFeed(Ticker)
  BY <1>1, <1>2, <1>8, FeedingRecord DEF StartFeed
<1>9. QED
  BY <1>3, <1>4, <1>5, <1>6, <1>7, <1>8
     DEF Next, TickStep, Boot, BeginTick, WorkEnds, PollFails, Poll, Skip,
         OfferChallenge, SaveOffset, Work, WorkFails, Elapse, SendMessage,
         vars, Caller

LEMMA NextRows ==
  ASSUME Types, [Next]_vars
  PROVE  rows' \in [Item -> RowType]
<1>1. CASE rows' = rows
  BY <1>1 DEF Types
<1>2. ASSUME NEW c \in Caller, Upsert(c) PROVE rows' \in [Item -> RowType]
  <2>1. call[c].row \in RowType
    BY <1>2 DEF Upsert, Types, CallType
  <2>2. QED
    BY <1>2, <2>1 DEF Upsert, Types
<1>3. CASE Boot
  BY <1>3, RowOfItem DEF Boot
<1>4. QED
  BY <1>1, <1>2, <1>3
     DEF Next, TickStep, CallStep, LoadAndDecide, ApplyRefuses, ApplyCommits,
         FeedLoad, FeedEnds, BeginTick, WorkEnds, PollFails, Poll, Skip,
         OfferChallenge, Accept, SaveOffset, Work, WorkFails, Crash, Elapse,
         SendMessage, HandleCommand, vars, Caller

LEMMA NextOffers ==
  ASSUME Types, Control, [Next]_vars
  PROVE  offers' \subseteq Offer
<1>1. CASE offers' = offers
  BY <1>1 DEF Types
<1>2. CASE OfferChallenge
  <2> DEFINE o == [gate |-> update.type, version |-> update.expected,
                   expires |-> tick.now + ChallengeTTL]
  <2>1. update \in Update
    BY <1>2, NextUpdate DEF OfferChallenge, Handling
  <2>2. tick.now \in Nat /\ ChallengeTTL \in Nat
    BY FrontEndsAssumption DEF Types, TickType
  <2>3. o \in Offer
    BY <1>2, <2>1, <2>2 DEF OfferChallenge, Update, Offer
  <2>4. offers' \in {offers, offers \cup {o}}
    BY <1>2 DEF OfferChallenge
  <2> HIDE DEF o
  <2>5. QED
    BY <2>3, <2>4 DEF Types
<1>3. QED
  BY <1>1, <1>2
     DEF Next, TickStep, CallStep, LoadAndDecide, ApplyRefuses, ApplyCommits,
         FeedLoad, Upsert, FeedEnds, Boot, BeginTick, WorkEnds, PollFails, Poll,
         Skip, Accept, SaveOffset, Work, WorkFails, Crash, Elapse, SendMessage,
         HandleCommand, vars, chats

(* The tick never runs ahead of the clock. *)
LEMMA NextTick ==
  ASSUME Types, [Next]_vars
  PROVE  /\ time' \in 0 .. MaxTime
         /\ tick' \in TickType /\ tick'.now <= time'
<1>1. /\ tick \in TickType /\ tick.now <= time /\ time \in 0 .. MaxTime
      /\ tick.now \in Nat /\ tick.next \in Nat /\ tick.last \in Nat
      /\ Len(chat) \in Nat /\ offset \in Nat /\ MaxTime \in Nat
  BY FrontEndsAssumption DEF Types, TickType
<1> DEFINE Keeps == tick' \in TickType /\ tick'.now <= time
<1>2. \A pc \in {"down", "idle", "working", "poll", "handle", "feed"}, n \in 0 .. time :
        At(pc, n) \in TickType /\ At(pc, n).now <= time
  BY <1>1 DEF At, TickType
<1>3. \A pc \in {"idle", "poll"} : Goto(pc) => Keeps
  BY <1>1 DEF Goto, TickType
<1>4. tick' = [tick EXCEPT !.next = @ + 1] => Keeps
  BY <1>1 DEF TickType
<1>5. tick' = tick => Keeps
  BY <1>1
<1>6. \A c : Return(c) => Keeps
  BY <1>4, <1>5 DEF Return
<1>7. \A c : StartFeed(c) => Keeps
  BY <1>1, <1>2 DEF StartFeed
<1>8. CASE Elapse
  BY <1>1, <1>8 DEF Elapse
<1>9. CASE time' = time /\ Keeps
  BY <1>1, <1>9
<1>10. ASSUME NEW c \in Caller, CallStep(c) PROVE time' = time /\ Keeps
  <2> HIDE DEF Keeps
  <2>1. QED
    BY <1>3, <1>5, <1>6, <1>10
       DEF CallStep, LoadAndDecide, ApplyRefuses, ApplyCommits, FeedLoad,
           Upsert, FeedEnds
<1>11. CASE Boot \/ BeginTick \/ Crash
  <2>1. CASE Boot
    BY <1>1, <1>2, <2>1 DEF Boot
  <2>2. CASE BeginTick
    BY <1>1, <1>2, <2>2 DEF BeginTick
  <2>3. CASE Crash
    BY <1>1, <1>2, <2>3 DEF Crash
  <2>4. QED
    BY <1>9, <1>11, <2>1, <2>2, <2>3 DEF Boot, BeginTick, Crash
<1>12. CASE Poll
  BY <1>1, <1>12 DEF Poll, TickType
<1>13. CASE Skip \/ OfferChallenge
  <2>1. tick' = [tick EXCEPT !.next = @ + 1]
    BY <1>13 DEF Skip, OfferChallenge, Skipped
  <2>2. QED
    BY <1>4, <1>9, <1>13, <2>1 DEF Skip, OfferChallenge
<1>14. CASE WorkEnds \/ PollFails \/ SaveOffset \/ WorkFails
  <2> HIDE DEF Keeps
  <2>1. Keeps /\ time' = time
    BY <1>3, <1>7, <1>14 DEF WorkEnds, PollFails, SaveOffset, WorkFails
  <2>2. QED
    BY <1>9, <2>1
<1>15. CASE tick' = tick /\ time' = time
  BY <1>5, <1>9, <1>15
<1> HIDE DEF Keeps
<1>16. QED
  BY <1>8, <1>9, <1>10, <1>11, <1>12, <1>13, <1>14, <1>15
     DEF Next, TickStep, Accept, Work, SendMessage, HandleCommand, vars, Caller

(* What any step may record of the messages: the outcome of the one being   *)
(* handled.                                                                *)
LEMMA NextHeard ==
  ASSUME Types, [Next]_vars
  PROVE  /\ heard' \in [Message -> Outcome]
         /\ \A u \in Message : heard[u] # "none" => heard'[u] # "none"
         /\ heard' # heard =>
              /\ tick.pc = "handle"
              /\ \E o \in Outcome \ {"none"} : heard' = [heard EXCEPT ![tick.next] = o]
<1> DEFINE Set(o) == heard' = [heard EXCEPT ![tick.next] = o]
<1>1. heard \in [Message -> Outcome]
  BY DEF Types
<1>2. heard' = heard \/ \E o \in Outcome \ {"none"} : Set(o) /\ tick.pc = "handle"
  <2>1. ASSUME NEW c \in Caller, CallStep(c)
        PROVE  heard' = heard \/ (Set("applied") /\ tick.pc = "handle")
    BY <2>1 DEF CallStep, LoadAndDecide, ApplyRefuses, ApplyCommits, FeedLoad,
                Upsert, FeedEnds, Return, Acted, history
  <2>2. ASSUME Skip \/ OfferChallenge
        PROVE  \E o \in {"stale", "refused", "offered"} : Set(o) /\ tick.pc = "handle"
    BY <2>2 DEF Skip, OfferChallenge, Skipped, Handling
  <2>3. {"stale", "refused", "offered", "applied"} \subseteq Outcome \ {"none"}
    BY DEF Outcome
  <2> HIDE DEF Set
  <2>4. QED
    BY <2>1, <2>2, <2>3
       DEF Next, TickStep, Boot, BeginTick, WorkEnds, PollFails, Poll, Accept,
           SaveOffset, Work, WorkFails, Crash, Elapse, SendMessage,
           HandleCommand, vars, history, Caller
<1>3. CASE heard' = heard
  BY <1>1, <1>3
<1>4. ASSUME NEW o \in Outcome \ {"none"}, Set(o), tick.pc = "handle"
      PROVE  /\ heard' \in [Message -> Outcome]
             /\ \A u \in Message : heard[u] # "none" => heard'[u] # "none"
  BY <1>1, <1>4 DEF Outcome
<1>5. QED
  BY <1>2, <1>3, <1>4

(* An event is counted for the message handled, or for none. *)
LEMMA NextEffects ==
  ASSUME Types, [Next]_vars
  PROVE  effects' \in [Message -> Nat]
<1>1. effects \in [Message -> Nat]
  BY DEF Types
<1>2. CASE effects' = effects
  BY <1>1, <1>2
<1>3. CASE effects' = [effects EXCEPT ![tick.next] = @ + 1]
  <2>1. \A u \in Message : effects[u] \in Nat /\ effects[u] + 1 \in Nat
    BY <1>1
  <2>2. effects' = [u \in Message |-> IF u = tick.next THEN effects[u] + 1
                                                     ELSE effects[u]]
    BY <1>1, <1>3
  <2>3. QED
    BY <2>1, <2>2
<1>4. QED
  BY <1>2, <1>3
     DEF Next, TickStep, CallStep, LoadAndDecide, ApplyRefuses, ApplyCommits,
         FeedLoad, Upsert, FeedEnds, Boot, BeginTick, WorkEnds, PollFails, Poll,
         Skip, OfferChallenge, Accept, SaveOffset, Work, WorkFails, Crash,
         Elapse, SendMessage, HandleCommand, vars, history

-----------------------------------------------------------------------------
(* Control.  Each step of Tick, and then the steps of everyone else.       *)

LEMMA Facts ==
  ASSUME Types
  PROVE  /\ Len(chat) \in Nat /\ offset \in Nat /\ MaxMessages \in Nat
         /\ tick.next \in Nat /\ tick.last \in Nat /\ tick.now \in Nat
         /\ Ticker \in Caller /\ Ticker \notin Handler
         /\ call \in [Caller -> CallType]
         /\ \A c \in Caller : call[c].pc \in CallPc
BY FrontEndsAssumption DEF Types, TickType, CallType, CallRecord, Caller

(* What Control says of a state is about the calls, the tick, the offset,  *)
(* and an update that does not change.                                     *)
LEMMA ControlFrame ==
  ASSUME Types, Control, [Next]_vars, UNCHANGED <<offset, tick>>,
         call'[Ticker] = call[Ticker]
  PROVE  Control'
<1>1. /\ Len(chat') \in Nat /\ Len(chat) <= Len(chat')
      /\ \A u \in 1 .. Len(chat) : chat'[u] = chat[u]
  BY NextChat
<1>2. call[Ticker].pc \in {"load", "apply"} =>
        tick.pc = "handle" /\ tick.next \in 1 .. Len(chat)
  <2>1. call[Ticker].pc \in {"load", "apply"} => tick.pc = "handle"
    BY DEF Control, Types, TickType
  <2>2. QED
    BY <2>1, Facts DEF Control
<1>3. call[Ticker].pc \in {"load", "apply"} => update' = update
  BY <1>1, <1>2 DEF update
<1>4. QED
  BY <1>1, <1>3, Facts DEF Control

(* The handlers' calls are not Tick's. *)
LEMMA HandlerKeeps ==
  ASSUME Types, Control, [Next]_vars, NEW c \in Handler, CallStep(c)
  PROVE  Control'
<1>1. c # Ticker /\ c \in Caller /\ ~Acted(c)
  BY Facts DEF Acted, Caller
<1>2. UNCHANGED <<offset, tick>> /\ call'[Ticker] = call[Ticker]
  BY <1>1, Facts
     DEF CallStep, LoadAndDecide, ApplyRefuses, ApplyCommits, FeedLoad, Upsert,
         FeedEnds, Return
<1>3. QED
  BY <1>2, ControlFrame

(* Tick's call ends: the update is settled, or the refresh of the tick is   *)
(* done.                                                                   *)
LEMMA ReturnKeeps ==
  ASSUME Types, Control, [Next]_vars, Return(Ticker), call[Ticker].pc # "idle",
         tick.pc = "handle", UNCHANGED offset
  PROVE  Control'
<1>1. Len(chat') \in Nat /\ Len(chat) <= Len(chat')
  BY NextChat
<1>2. call'[Ticker] = Idle /\ call'[Ticker].pc = "idle"
  BY Facts, IdleRecord DEF Return
<1>3. tick' = [tick EXCEPT !.next = @ + 1]
  BY DEF Return, Acted
<1>4. /\ tick'.pc = "handle" /\ tick'.next = tick.next + 1
      /\ tick'.last = tick.last
  BY <1>3 DEF Types, TickType
<1>5. tick.next <= tick.last
  BY DEF Control
<1>6. QED
  BY <1>1, <1>2, <1>4, <1>5, Facts DEF Control

LEMMA TickerCallKeeps ==
  ASSUME Types, Control, [Next]_vars, CallStep(Ticker)
  PROVE  Control'
<1>0. tick.pc \in {"down", "idle", "working", "poll", "handle", "feed"}
  BY DEF Types, TickType
<1>1. /\ Len(chat') \in Nat /\ Len(chat) <= Len(chat')
      /\ \A u \in 1 .. Len(chat) : chat'[u] = chat[u]
  BY NextChat
<1>2. call[Ticker].pc # "idle" /\ tick.pc \in {"handle", "feed"}
  <2>1. call[Ticker].pc # "idle"
    BY DEF CallStep, LoadAndDecide, ApplyRefuses, ApplyCommits, FeedLoad,
           Upsert, FeedEnds
  <2>2. QED
    BY <1>0, <2>1 DEF Control
<1>3. UNCHANGED offset
  BY DEF CallStep, LoadAndDecide, ApplyRefuses, ApplyCommits, FeedLoad, Upsert,
         FeedEnds
<1>4. ASSUME UNCHANGED tick, call'[Ticker].pc \in {"feed", "upsert"}
      PROVE  Control'
  BY <1>1, <1>2, <1>3, <1>4, Facts DEF Control
<1>5. CASE LoadAndDecide(Ticker)
  <2>1. call[Ticker].pc = "load" /\ tick.pc = "handle"
    BY <1>2, <1>5 DEF LoadAndDecide, Control
  <2>2. CASE Return(Ticker)
    BY <1>3, <2>1, <2>2, ReturnKeeps
  <2>3. CASE call' = [call EXCEPT ![Ticker].pc = "apply"] /\ UNCHANGED tick
    <3>1. call'[Ticker] = [call[Ticker] EXCEPT !.pc = "apply"]
      BY <2>3, Facts
    <3>2. /\ call'[Ticker].pc = "apply"
          /\ call'[Ticker].item = call[Ticker].item
          /\ call'[Ticker].expected = call[Ticker].expected
      BY <2>1, <3>1, Facts, AllowedRecord
    <3>3. tick.next <= tick.last /\ tick.next \in 1 .. Len(chat)
      BY <1>2, <2>1, NextUpdate DEF Control
    <3>4. update' = update
      BY <1>1, <2>3, <3>3 DEF update
    <3>5. QED
      BY <1>1, <1>3, <2>1, <2>3, <3>2, <3>3, <3>4, Facts DEF Control
  <2>4. QED
    BY <1>5, <2>2, <2>3 DEF LoadAndDecide
<1>6. CASE ApplyRefuses(Ticker)
  <2>1. call[Ticker].pc = "apply" /\ tick.pc = "handle" /\ Return(Ticker)
    BY <1>2, <1>6 DEF ApplyRefuses, Control
  <2>2. QED
    BY <1>2, <1>3, <2>1, ReturnKeeps
<1>7. CASE ApplyCommits(Ticker)
  <2>1. call'[Ticker].pc = "feed" /\ UNCHANGED tick
    BY <1>7, Facts, FeedingRecord DEF ApplyCommits
  <2>2. QED
    BY <1>4, <2>1
<1>8. ASSUME NEW i \in Item, FeedLoad(Ticker, i) PROVE Control'
  <2>1. call[Ticker] \in CallType
    BY Facts
  <2>2. call'[Ticker] = Upserting(call[Ticker], i, Row(i))
    BY <1>8, Facts DEF FeedLoad, Upserting
  <2>3. call'[Ticker].pc = "upsert"
    BY <2>1, <2>2, RowOfItem, UpsertingRecord
  <2>4. QED
    BY <1>4, <1>8, <2>3 DEF FeedLoad
<1>9. CASE Upsert(Ticker)
  <2>1. call[Ticker].left \in SUBSET Item
    BY Facts DEF CallType, CallRecord
  <2>2. call'[Ticker] = Feeding(call[Ticker].left)
    BY <1>9, Facts DEF Upsert
  <2>3. call'[Ticker].pc = "feed"
    BY <2>1, <2>2, FeedingRecord
  <2>4. QED
    BY <1>4, <1>9, <2>3 DEF Upsert
<1>10. CASE FeedEnds(Ticker)
  <2>1. CASE tick.pc = "feed"
    <3>1. call'[Ticker].pc = "idle" /\ tick'.pc = "idle"
      BY <1>10, <2>1, Facts, IdleRecord DEF FeedEnds, Goto, Types, TickType
    <3>2. QED
      BY <1>1, <1>3, <3>1, Facts DEF Control
  <2>2. CASE tick.pc # "feed"
    BY <1>2, <1>3, <1>10, <2>2, ReturnKeeps DEF FeedEnds
  <2>3. QED
    BY <2>1, <2>2
<1>11. QED
  BY <1>5, <1>6, <1>7, <1>8, <1>9, <1>10 DEF CallStep

LEMMA TickKeeps ==
  ASSUME Types, Control, [Next]_vars,
         \/ Boot \/ BeginTick \/ WorkEnds \/ PollFails \/ Poll \/ WorkFails
         \/ SaveOffset \/ Crash
  PROVE  Control'
<1>1. /\ Len(chat') \in Nat /\ Len(chat) <= Len(chat')
  BY NextChat
<1>2. CASE Boot \/ BeginTick \/ WorkEnds
  <2>1. tick'.pc \in {"idle", "working", "poll"} /\ UNCHANGED <<offset, call>>
    BY <1>2, Facts DEF Boot, BeginTick, WorkEnds, Goto, At, Types, TickType
  <2>2. call[Ticker].pc = "idle"
    BY <1>2 DEF Boot, BeginTick, WorkEnds, Control
  <2>3. QED
    BY <1>1, <2>1, <2>2, Facts DEF Control
<1>3. CASE PollFails \/ WorkFails \/ SaveOffset
  <2>1. tick'.pc = "feed" /\ call'[Ticker] = Feeding(Item)
    BY <1>3, Facts DEF PollFails, WorkFails, SaveOffset, StartFeed, At
  <2>2. call'[Ticker].pc = "feed"
    BY <2>1, FeedingRecord
  <2>3. offset' <= Len(chat) + 1 /\ offset' \in Nat
    <3>1. CASE SaveOffset
      BY <3>1, Facts DEF SaveOffset, BatchDone, Control
    <3>2. CASE UNCHANGED offset
      BY <3>2, Facts DEF Control
    <3>3. QED
      BY <1>3, <3>1, <3>2 DEF PollFails, WorkFails
  <2>4. QED
    BY <1>1, <2>1, <2>2, <2>3, Facts DEF Control
<1>4. CASE Poll
  <2>1. /\ tick'.pc = "handle" /\ tick'.next = offset /\ tick'.last = Len(chat)
        /\ UNCHANGED <<offset, call, chat>>
    BY <1>4 DEF Poll, Types, TickType, chats
  <2>2. call[Ticker].pc = "idle" /\ offset # 0
    BY <1>4 DEF Poll, Control, Torn
  <2>3. QED
    BY <2>1, <2>2, Facts DEF Control
<1>5. CASE Crash
  <2>1. tick'.pc = "down" /\ call'[Ticker] = Idle
    BY <1>5, Facts DEF Crash, At
  <2>2. call'[Ticker].pc = "idle"
    BY <2>1, IdleRecord
  <2>3. offset' \in {offset, 0}
    BY <1>5 DEF Crash, Torn
  <2>4. QED
    BY <1>1, <2>1, <2>2, <2>3, Facts DEF Control
<1>6. QED
  BY <1>2, <1>3, <1>4, <1>5

(* An update is settled without a call, or its call begins. *)
LEMMA UpdateKeeps ==
  ASSUME Types, Control, [Next]_vars, Skip \/ OfferChallenge \/ Accept
  PROVE  Control'
<1>1. /\ Len(chat') \in Nat /\ Len(chat) <= Len(chat')
      /\ \A u \in 1 .. Len(chat) : chat'[u] = chat[u]
  BY NextChat
<1>2. tick.pc = "handle" /\ call[Ticker].pc = "idle" /\ tick.next <= tick.last
  BY DEF Skip, OfferChallenge, Accept, Handling
<1>3. CASE Skip \/ OfferChallenge
  <2>1. tick' = [tick EXCEPT !.next = @ + 1] /\ UNCHANGED <<offset, call>>
    BY <1>3 DEF Skip, OfferChallenge, Skipped
  <2>2. /\ tick'.pc = "handle" /\ tick'.next = tick.next + 1
        /\ tick'.last = tick.last
    BY <1>2, <2>1 DEF Types, TickType
  <2>3. QED
    BY <1>1, <1>2, <2>1, <2>2, Facts DEF Control
<1>4. CASE Accept
  <2>1. update \in Update /\ tick.next \in 1 .. Len(chat)
    BY <1>2, NextUpdate
  <2>2. call'[Ticker] = Begun(update.item, update.type, update.expected)
    BY <1>4, Facts DEF Accept, Begin, Begun
  <2>3. /\ call'[Ticker].pc = "load"
        /\ call'[Ticker].item = update.item
        /\ call'[Ticker].expected = update.expected
    BY <2>1, <2>2, BegunRecord DEF Update
  <2>4. UNCHANGED <<tick, offset>> /\ update' = update
    BY <1>1, <1>4, <2>1 DEF Accept, update
  <2>5. QED
    BY <1>1, <1>2, <2>3, <2>4, Facts DEF Control
<1>5. QED
  BY <1>3, <1>4

LEMMA NextControl ==
  ASSUME Types, Control, [Next]_vars
  PROVE  Control'
<1>1. CASE UNCHANGED <<offset, tick, call>>
  BY <1>1, ControlFrame
<1>2. ASSUME NEW c \in Handler, NEW i \in Item, NEW type \in Posts,
             HandleCommand(c, i, type)
      PROVE  Control'
  <2>1. c # Ticker
    BY Facts
  <2>2. UNCHANGED <<offset, tick>> /\ call'[Ticker] = call[Ticker]
    BY <1>2, <2>1, Facts DEF HandleCommand, Begin
  <2>3. QED
    BY <2>2, ControlFrame
<1>3. CASE TickStep
  BY <1>3, TickerCallKeeps, TickKeeps, UpdateKeeps DEF TickStep
<1>4. CASE WorkFails \/ Crash
  BY <1>4, TickKeeps
<1>5. ASSUME NEW c \in Handler, CallStep(c) PROVE Control'
  BY <1>5, HandlerKeeps
<1>6. QED
  BY <1>1, <1>2, <1>3, <1>4, <1>5
     DEF Next, Work, Elapse, SendMessage, vars

-----------------------------------------------------------------------------
(* Delivery.                                                               *)

(* The update handled has its outcome when the next one is taken up. *)
LEMMA NextDelivered ==
  ASSUME Types, Control, Delivered, [Next]_vars
  PROVE  Delivered'
<1>1. /\ heard \in [Message -> Outcome]
      /\ \A u \in Message : u \in Nat
      /\ \A u \in Message : heard[u] # "none" => heard'[u] # "none"
  BY NextHeard DEF Types, Message
<1>2. \A u \in Message : u < offset => heard[u] # "none"
  BY DEF Delivered, NoneDropped
<1>3. ASSUME tick'.pc # "handle" \/ (tick'.next <= offset /\ tick'.next \in Nat),
             offset' \in {0, offset}
      PROVE  Delivered'
  <2>1. \A u \in Message : u < offset' => heard'[u] # "none"
    BY <1>1, <1>2, <1>3, Facts
  <2>2. tick'.pc = "handle" => \A u \in Message : u < tick'.next => heard'[u] # "none"
    BY <1>1, <1>2, <1>3, Facts
  <2>3. QED
    BY <2>1, <2>2 DEF Delivered, NoneDropped
<1>4. ASSUME tick.pc = "handle", UNCHANGED offset,
             \/ tick' = tick
             \/ /\ tick' = [tick EXCEPT !.next = @ + 1]
                /\ tick.next \in Message
                /\ \E o \in Outcome \ {"none"} :
                     heard' = [heard EXCEPT ![tick.next] = o]
      PROVE  Delivered'
  <2>1. \A u \in Message : u < tick.next => heard[u] # "none"
    BY <1>4 DEF Delivered
  <2>2. CASE tick' = tick
    BY <1>1, <1>2, <1>4, <2>1, <2>2 DEF Delivered, NoneDropped
  <2>3. CASE tick' # tick
    <3>1. tick'.next = tick.next + 1
      BY <1>4, <2>3 DEF Types, TickType
    <3>2. heard'[tick.next] # "none"
      BY <1>1, <1>4, <2>3
    <3>3. \A u \in Message : u < tick'.next => heard'[u] # "none"
      BY <1>1, <2>1, <3>1, <3>2, Facts
    <3>4. QED
      BY <1>1, <1>2, <1>4, <3>3 DEF Delivered, NoneDropped
  <2>4. QED
    BY <2>2, <2>3
<1>5. CASE UNCHANGED <<offset, tick>>
  <2>1. CASE tick.pc = "handle"
    BY <1>4, <1>5, <2>1
  <2>2. CASE tick.pc # "handle"
    BY <1>3, <1>5, <2>2
  <2>3. QED
    BY <2>1, <2>2
<1>6. ASSUME NEW c \in Caller, CallStep(c) PROVE Delivered'
  <2>1. UNCHANGED offset
    BY <1>6 DEF CallStep, LoadAndDecide, ApplyRefuses, ApplyCommits, FeedLoad,
                Upsert, FeedEnds
  <2>2. CASE Return(c) /\ Acted(c)
    <3>1. call[Ticker].pc # "idle" /\ tick.pc = "handle"
      BY <1>6, <2>2
         DEF CallStep, LoadAndDecide, ApplyRefuses, ApplyCommits, FeedLoad,
             Upsert, FeedEnds, Acted
    <3>2. tick.next <= tick.last
      BY <3>1 DEF Control
    <3>3. tick.next \in Message
      BY <3>1, <3>2, NextUpdate
    <3>4. /\ tick' = [tick EXCEPT !.next = @ + 1]
          /\ heard' = [heard EXCEPT ![tick.next] = "applied"]
      BY <2>2 DEF Return
    <3>5. "applied" \in Outcome \ {"none"}
      BY DEF Outcome
    <3>6. QED
      BY <1>4, <2>1, <3>1, <3>3, <3>4, <3>5
  <2>3. CASE ~(Return(c) /\ Acted(c)) /\ ~(Goto("idle") /\ tick.pc = "feed")
    <3>1. UNCHANGED tick
      BY <1>6, <2>3
         DEF CallStep, LoadAndDecide, ApplyRefuses, ApplyCommits, FeedLoad,
             Upsert, FeedEnds, Return
    <3>2. QED
      BY <1>5, <2>1, <3>1
  <2>4. CASE Goto("idle") /\ tick.pc = "feed"
    <3>1. tick'.pc = "idle"
      BY <2>4 DEF Goto, Types, TickType
    <3>2. QED
      BY <1>3, <2>1, <3>1
  <2>5. QED
    BY <2>2, <2>3, <2>4
<1>7. CASE Boot \/ BeginTick \/ WorkEnds \/ PollFails \/ WorkFails \/ Crash
  <2>1. tick'.pc # "handle"
    BY <1>7 DEF Boot, BeginTick, WorkEnds, PollFails, WorkFails, Crash, Goto,
                StartFeed, At, Types, TickType
  <2>2. offset' \in {0, offset}
    BY <1>7 DEF Boot, BeginTick, WorkEnds, PollFails, WorkFails, Crash, Torn
  <2>3. QED
    BY <1>3, <2>1, <2>2
<1>8. CASE Poll
  <2>1. tick'.next = offset /\ UNCHANGED offset
    BY <1>8 DEF Poll, Types, TickType
  <2>2. QED
    BY <1>3, <2>1, Facts
<1>9. CASE Skip \/ OfferChallenge
  <2>1. tick.pc = "handle" /\ tick.next <= tick.last /\ UNCHANGED offset
    BY <1>9 DEF Skip, OfferChallenge, Handling
  <2>2. \E o \in {"stale", "refused", "offered"} : Skipped(o)
    BY <1>9 DEF Skip, OfferChallenge
  <2>3. {"stale", "refused", "offered"} \subseteq Outcome \ {"none"}
    BY DEF Outcome
  <2>4. tick.next \in Message
    BY <2>1, NextUpdate
  <2>5. QED
    BY <1>4, <2>1, <2>2, <2>3, <2>4 DEF Skipped
<1>10. CASE SaveOffset
  <2>1. tick.pc = "handle" /\ offset' = tick.next /\ tick'.pc = "feed"
    BY <1>10 DEF SaveOffset, BatchDone, StartFeed, At
  <2>2. QED
    BY <1>1, <2>1 DEF Delivered, NoneDropped
<1>11. QED
  BY <1>5, <1>6, <1>7, <1>8, <1>9, <1>10
     DEF Next, TickStep, Accept, Work, Elapse, SendMessage, HandleCommand, vars,
         Caller

-----------------------------------------------------------------------------
(* Action.                                                                 *)

(* The message counted a second time would name the version of an item     *)
(* that has left it behind.                                                *)
LEMMA NextSpent ==
  ASSUME Types, Control, Spent, [Next]_vars
  PROVE  Spent'
<1>1. /\ chat \in Seq(Update) /\ chat' \in Seq(Update)
      /\ Len(chat) \in Nat /\ Len(chat') \in Nat /\ Len(chat) <= Len(chat')
      /\ \A u \in 1 .. Len(chat) : chat'[u] = chat[u]
  BY NextChat DEF Types
<1>2. /\ \A j \in Item : item[j].version <= item'[j].version
      /\ \A j \in Item : item[j].version \in Nat /\ item'[j].version \in Nat
  BY NextItem DEF Types, Stored, WorkItem
<1>3. \A u \in 1 .. Len(chat) : chat[u].item \in Item /\ chat[u].expected \in Nat
  <2>1. \A u \in 1 .. Len(chat) : chat[u] \in Update
    BY <1>1
  <2>2. QED
    BY <2>1 DEF Update
<1>4. \A u \in Message : u \in Nat /\ 1 <= u
  BY DEF Message
<1>5. ASSUME NEW u \in Message, effects'[u] = effects[u]
      PROVE  /\ effects'[u] <= 1
             /\ effects'[u] # 0 => /\ u <= Len(chat')
                                   /\ chat'[u].expected < item'[chat'[u].item].version
  <2>1. CASE effects[u] = 0
    BY <1>5, <2>1
  <2>2. CASE effects[u] # 0
    <3>1. effects[u] <= 1 /\ u <= Len(chat)
          /\ chat[u].expected < item[chat[u].item].version
      BY <2>2 DEF Spent
    <3>2. u \in 1 .. Len(chat)
      BY <1>1, <1>4, <3>1
    <3>3. chat'[u] = chat[u] /\ chat[u].item \in Item /\ chat[u].expected \in Nat
      BY <1>1, <1>3, <3>2
    <3>4. chat[u].expected < item'[chat[u].item].version
      BY <1>2, <3>1, <3>3
    <3>5. QED
      BY <1>1, <1>4, <1>5, <3>1, <3>3, <3>4
  <2>3. QED
    BY <2>1, <2>2
<1>6. CASE effects' = effects
  BY <1>5, <1>6 DEF Spent
<1>7. ASSUME NEW c \in Caller, ApplyCommits(c), Acted(c) PROVE Spent'
  <2> DEFINE u == tick.next
  <2>1. c = Ticker /\ tick.pc = "handle" /\ call[Ticker].pc = "apply"
    BY <1>7 DEF ApplyCommits, Acted
  <2>2. tick.next <= tick.last
    BY <2>1 DEF Control
  <2>3. u \in 1 .. Len(chat) /\ u \in Message
    BY <2>1, <2>2, NextUpdate
  <2>4. call[Ticker].item = chat[u].item /\ call[Ticker].expected = chat[u].expected
    BY <2>1 DEF Control, update
  <2>5. PICK e \in Handle(item[chat[u].item], Command(Ticker)) :
          item' = [item EXCEPT ![chat[u].item] = Replay(@, e)]
    BY <1>7, <2>1, <2>4 DEF ApplyCommits, Events
  <2>6. chat[u].item \in Item /\ chat[u].expected \in Nat
    BY <1>3, <2>3
  <2>7. item[chat[u].item] \in WorkItem
    BY <2>6 DEF Types, Stored
  <2>8. chat[u].expected = item[chat[u].item].version
    BY <2>4, <2>5, <2>7, HandleSound DEF Validated, Command
  <2>9. item'[chat[u].item].version = item[chat[u].item].version + 1
    BY <2>5, <2>6, HandledItem
  <2>10. effects \in [Message -> Nat]
    BY DEF Types
  <2>11. effects' = [effects EXCEPT ![u] = @ + 1]
    BY <1>7 DEF ApplyCommits
  <2>12. effects[u] = 0
    <3>1. effects[u] # 0 => chat[u].expected < item[chat[u].item].version
      BY <2>3 DEF Spent
    <3>2. QED
      BY <1>2, <2>6, <2>8, <3>1
  <2>13. /\ effects'[u] = 1
         /\ \A v \in Message : v # u => effects'[v] = effects[v]
    BY <2>3, <2>10, <2>11, <2>12
  <2>14. chat'[u] = chat[u] /\ u <= Len(chat')
    BY <1>1, <2>3
  <2>15. chat[u].expected < item'[chat[u].item].version
    BY <1>2, <2>6, <2>8, <2>9
  <2> HIDE DEF u
  <2>16. QED
    BY <1>5, <2>13, <2>14, <2>15 DEF Spent
<1>8. QED
  BY <1>6, <1>7
     DEF Next, TickStep, CallStep, LoadAndDecide, ApplyRefuses, ApplyCommits,
         FeedLoad, Upsert, FeedEnds, Boot, BeginTick, WorkEnds, PollFails, Poll,
         Skip, OfferChallenge, Accept, SaveOffset, Work, WorkFails, Crash,
         Elapse, SendMessage, HandleCommand, vars, history, Caller

-----------------------------------------------------------------------------
(* The theorems.                                                           *)

LEMMA FrontEndsInvInit == Init => FrontEndsInv
<1> SUFFICES ASSUME Init PROVE FrontEndsInv
  OBVIOUS
<1>1. item \in [Item -> Stored]
  BY FrontEndsAssumption DEF Init, Stored
<1>2. \A i \in Item : Row(i) \in RowType
  BY <1>1 DEF Stored, WorkItem, Row, RowType
<1>3. rows \in [Item -> RowType]
  BY <1>2 DEF Init
<1>4. call \in [Caller -> CallType] /\ call[Ticker].pc = "idle"
  BY IdleRecord DEF Init, Caller
<1>5. tick \in TickType /\ tick.now = 0 /\ tick.pc = "idle"
  BY DEF Init, At, TickType
<1>6. /\ time \in 0 .. MaxTime /\ tick.now <= time
      /\ chat \in Seq(Update) /\ Len(chat) = 0 /\ Len(chat) <= MaxMessages
      /\ offers \subseteq Offer /\ offset = 1
      /\ heard \in [Message -> Outcome]
      /\ effects \in [Message -> Nat]
  BY <1>5, FrontEndsAssumption DEF Init, Outcome
<1>7. Types
  BY <1>1, <1>3, <1>4, <1>5, <1>6 DEF Types
<1>8. Control
  BY <1>4, <1>5, <1>6 DEF Control
<1>9. Delivered
  BY <1>5, <1>6 DEF Delivered, NoneDropped, Message
<1>10. Spent
  BY DEF Init, Spent
<1>11. QED
  BY <1>7, <1>8, <1>9, <1>10 DEF FrontEndsInv

LEMMA FrontEndsInvNext == FrontEndsInv /\ [Next]_vars => FrontEndsInv'
<1> SUFFICES ASSUME FrontEndsInv, [Next]_vars PROVE FrontEndsInv'
  OBVIOUS
<1>1. Types /\ Control /\ Delivered /\ Spent
  BY DEF FrontEndsInv
<1>2. offset' \in {offset, tick.next, 0}
  BY DEF Next, TickStep, CallStep, LoadAndDecide, ApplyRefuses, ApplyCommits,
         FeedLoad, Upsert, FeedEnds, Boot, BeginTick, WorkEnds, PollFails, Poll,
         Skip, OfferChallenge, Accept, SaveOffset, Work, WorkFails, Crash,
         Elapse, SendMessage, HandleCommand, vars, Torn
<1>3. offset' \in Nat
  BY <1>1, <1>2, Facts
<1>4. Types'
  BY <1>1, <1>3, NextItem, NextChat, NextCall, NextRows, NextOffers, NextTick,
     NextHeard, NextEffects DEF Types
<1>5. QED
  BY <1>1, <1>4, NextControl, NextDelivered, NextSpent DEF FrontEndsInv

(* The invariant of the front ends, which the theorems below follow from. *)
THEOREM FrontEndsSound == Spec => []FrontEndsInv
<1>1. QED
  BY FrontEndsInvInit, FrontEndsInvNext, PTL DEF Spec

(* Every reachable state is well typed, the offset is torn or within one   *)
(* of the chat, and the tick is never ahead of the clock.                  *)
THEOREM FrontEndsTypeCorrect == Spec => []TypeOK
<1>1. ASSUME FrontEndsInv PROVE TypeOK
  <2>1. item \in [Item -> WorkItem]
    BY <1>1 DEF FrontEndsInv, Types, Stored
  <2>2. offset \in {Torn} \cup 1 .. Len(chat) + 1
    BY <1>1, Facts DEF FrontEndsInv, Control, Torn
  <2>3. \A c \in Caller : call[c].pc \in {"idle", "load", "apply", "feed", "upsert"}
    BY <1>1, Facts DEF FrontEndsInv, CallPc
  <2>4. QED
    BY <1>1, <2>1, <2>2, <2>3 DEF FrontEndsInv, Types, TypeOK, TickType, Outcome
<1>2. QED
  BY <1>1, FrontEndsSound, PTL

(* A message delivered again, after a crash or a failed save of the offset, *)
(* does not act again, whoever else moves its item meanwhile.              *)
THEOREM MessagesActOnce == Spec => []MessageActsOnce
<1>1. FrontEndsInv => MessageActsOnce
  BY DEF FrontEndsInv, Spent, MessageActsOnce
<1>2. QED
  BY <1>1, FrontEndsSound, PTL

(* The offset passes no update that has not got its outcome. *)
THEOREM NoMessageDropped == Spec => []NoneDropped
<1>1. FrontEndsInv => NoneDropped
  BY DEF FrontEndsInv, Delivered
<1>2. QED
  BY <1>1, FrontEndsSound, PTL
=============================================================================
