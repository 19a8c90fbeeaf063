---------------------------- MODULE LeaseProofs ----------------------------
(***************************************************************************)
(* What holds of a lease for every number of clients, every ttl and every  *)
(* difference of their clocks.  A client that may act, and one whose       *)
(* answer would let it act, is the holder of the row, and the row lasts as *)
(* long as it thinks.  Another takes the row only when it has expired by   *)
(* the clock the other read, which Margin makes later than the moment the  *)
(* first one stops.                                                        *)
(***************************************************************************)
EXTENDS Lease, TLAPS

AskType == [op : Op \cup {"none"}, now : Nat, done : BOOLEAN, granted : BOOLEAN]

(* An answer under way that lets h act when it is heard. *)
Promised(h) ==
  /\ ask[h].op \in {"acquire", "renew"} /\ ask[h].done /\ ask[h].granted
  /\ Now(h) + Margin < ask[h].now + Ttl

ClientOK(h) ==
  /\ ask[h].op = "none" => ~ask[h].done
  /\ ask[h].op = "release" => until[h] = 0
  /\ ask[h].op # "none" => ask[h].now <= Now(h)
  /\ ask[h].op # "none" => until[h] <= ask[h].now + Ttl
  /\ until[h] <= Now(h) + Ttl
  /\ MayAct(h) => holder = h /\ until[h] <= expires
  /\ Promised(h) => holder = h /\ ask[h].now + Ttl <= expires

LeaseInv ==
  /\ LeaseTypeOK
  /\ \A h \in Holder : ClientOK(h)

USE LeaseAssumption
-----------------------------------------------------------------------------
(* The order of the texts is off by less than a second. *)
LEMMA NotAfterBound ==
  ASSUME NEW a \in Nat, NEW b \in Nat, NotAfter(a, b)
  PROVE  a <= b + 1
BY DEF NotAfter, Second

LEMMA Types ==
  ASSUME LeaseTypeOK, NEW h \in Holder
  PROVE  /\ ask[h] \in AskType /\ ask[h].now \in Nat
         /\ ask[h].op \in Op \cup {"none"}
         /\ until[h] \in Nat /\ ahead[h] \in Nat /\ ahead[h] <= MaxSkew
         /\ expires \in Nat /\ clock \in Nat
         /\ Now(h) \in Nat
BY DEF LeaseTypeOK, AskType, Now

(* What is answered is the call that was asked. *)
LEMMA AnswerIsTo ==
  ASSUME LeaseTypeOK, NEW h \in Holder, NEW granted \in BOOLEAN, Answer(h, granted)
  PROVE  /\ ask' \in [Holder -> AskType]
         /\ ask'[h].op = ask[h].op /\ ask'[h].now = ask[h].now
         /\ ask'[h].done /\ ask'[h].granted = granted
         /\ \A d \in Holder \ {h} : ask'[d] = ask[d]
<1> DEFINE r == [ask[h] EXCEPT !.done = TRUE, !.granted = granted]
<1>1. ask \in [Holder -> AskType] /\ ask[h] \in AskType
  BY DEF LeaseTypeOK, AskType
<1>2. /\ r \in AskType
      /\ r.op = ask[h].op /\ r.now = ask[h].now /\ r.done /\ r.granted = granted
  BY <1>1 DEF AskType
<1>3. ask' = [ask EXCEPT ![h] = r]
  BY DEF Answer
<1> HIDE DEF r
<1>4. ask'[h] = r
  BY <1>1, <1>3
<1>5. QED
  BY <1>1, <1>2, <1>3, <1>4

(* A client that takes no part in a step stays as it was, unless the row   *)
(* it counts on changes.                                                   *)
LEMMA OtherKeeps ==
  ASSUME LeaseInv, NEW d \in Holder,
         ask'[d] = ask[d], until'[d] = until[d], clock' = clock, ahead' = ahead,
         \/ holder' = holder /\ expires' = expires
         \/ ~MayAct(d) /\ ~Promised(d)
  PROVE  ClientOK(d)'
<1>1. ClientOK(d)
  BY DEF LeaseInv
<1>2. Now(d)' = Now(d)
  BY DEF Now
<1>3. MayAct(d)' = MayAct(d) /\ Promised(d)' = Promised(d)
  BY <1>2 DEF MayAct, Promised
<1>4. QED
  BY <1>1, <1>2, <1>3 DEF ClientOK

(* Only the one the row names counts on it. *)
LEMMA OnlyHolderActs ==
  ASSUME LeaseInv, NEW d \in Holder, holder # d
  PROVE  ~MayAct(d) /\ ~Promised(d)
BY DEF LeaseInv, ClientOK

(* The heart: a row that h finds expired is one its holder counts on no    *)
(* more, by its own clock.                                                 *)
LEMMA ExpiredIsFree ==
  ASSUME LeaseInv, NEW h \in Holder, ask[h].op # "none",
         NotAfter(expires, ask[h].now), NEW d \in Holder
  PROVE  ~MayAct(d) /\ ~Promised(d)
<1>1. LeaseTypeOK /\ ClientOK(h) /\ ClientOK(d)
  BY DEF LeaseInv
<1>2. /\ expires \in Nat /\ clock \in Nat
      /\ ask[h].now \in Nat /\ ask[d].now \in Nat /\ until[d] \in Nat
      /\ ahead[h] \in Nat /\ ahead[h] <= MaxSkew /\ ahead[d] \in Nat
  BY <1>1, Types
<1>3. expires <= ask[h].now + 1
  BY <1>2, NotAfterBound
<1>4. ask[h].now <= clock + ahead[h]
  BY <1>1 DEF ClientOK, Now
<1>5. expires <= Now(d) + Margin
  BY <1>2, <1>3, <1>4 DEF Now, Margin, Second
<1>6. Now(d) + Margin \in Nat
  BY <1>2 DEF Now, Margin, Second
<1>7. ~MayAct(d)
  BY <1>1, <1>2, <1>5, <1>6 DEF MayAct, ClientOK
<1>8. ~Promised(d)
  BY <1>1, <1>2, <1>5, <1>6 DEF Promised, ClientOK
<1>9. QED
  BY <1>7, <1>8
-----------------------------------------------------------------------------
LEMMA LeaseInvInit == LeaseInit => LeaseInv
<1>1. SUFFICES ASSUME LeaseInit PROVE LeaseInv
  OBVIOUS
<1>2. NoAsk \in AskType /\ NoAsk.op = "none" /\ ~NoAsk.done
  BY DEF NoAsk, AskType
<1>3. LeaseTypeOK
  BY <1>1, <1>2 DEF LeaseInit, LeaseTypeOK, AskType
<1>4. ASSUME NEW h \in Holder PROVE ClientOK(h)
  <2>1. ask[h] = NoAsk /\ until[h] = 0
    BY <1>1 DEF LeaseInit
  <2>2. Now(h) \in Nat
    BY <1>3, Types
  <2>3. QED
    BY <1>2, <2>1, <2>2 DEF ClientOK, MayAct, Promised
<1>5. QED
  BY <1>3, <1>4 DEF LeaseInv

LEMMA AskKeeps ==
  ASSUME LeaseInv, NEW h \in Holder, NEW op \in Op, Ask(h, op)
  PROVE  LeaseInv'
<1> DEFINE r == [NoAsk EXCEPT !.op = op, !.now = Now(h)]
<1>1. LeaseTypeOK /\ ClientOK(h)
  BY DEF LeaseInv
<1>2. Now(h) \in Nat /\ until[h] \in Nat
  BY <1>1, Types
<1>3. r \in AskType /\ r.op = op /\ r.now = Now(h) /\ ~r.done
  BY <1>2 DEF NoAsk, AskType
<1>4. /\ ask' = [ask EXCEPT ![h] = r]
      /\ until' = IF op = "release" THEN [until EXCEPT ![h] = 0] ELSE until
      /\ holder' = holder /\ expires' = expires /\ clock' = clock /\ ahead' = ahead
  BY DEF Ask
<1> HIDE DEF r
<1>5. LeaseTypeOK'
  BY <1>1, <1>3, <1>4 DEF LeaseTypeOK, AskType
<1>6. ask'[h] = r /\ (op = "release" => until'[h] = 0)
      /\ (op # "release" => until'[h] = until[h])
  BY <1>1, <1>4 DEF LeaseTypeOK
<1>7. Now(h)' = Now(h)
  BY <1>4 DEF Now
<1>8. until'[h] <= Now(h) + Ttl
  BY <1>1, <1>2, <1>6 DEF ClientOK
<1>9. MayAct(h)' => MayAct(h)
  BY <1>6, <1>7 DEF MayAct
<1>10. ClientOK(h)'
  BY <1>1, <1>2, <1>3, <1>4, <1>6, <1>7, <1>8, <1>9 DEF ClientOK, Promised, MayAct, Op
<1>11. ASSUME NEW d \in Holder \ {h} PROVE ClientOK(d)'
  <2>1. ask'[d] = ask[d] /\ until'[d] = until[d]
    BY <1>1, <1>4 DEF LeaseTypeOK
  <2>2. QED
    BY <2>1, <1>4, OtherKeeps
<1>12. QED
  BY <1>5, <1>10, <1>11 DEF LeaseInv

LEMMA AcquireKeeps ==
  ASSUME LeaseInv, NEW h \in Holder, AcquireLease(h)
  PROVE  LeaseInv'
<1> DEFINE free == holder = Nobody \/ NotAfter(expires, ask[h].now)
<1>1. LeaseTypeOK /\ ClientOK(h)
  BY DEF LeaseInv
<1>2. /\ Answer(h, free) /\ ask[h].op = "acquire" /\ ~ask[h].done
      /\ holder' = IF free THEN h ELSE holder
      /\ expires' = IF free THEN ask[h].now + Ttl ELSE expires
      /\ clock' = clock /\ ahead' = ahead /\ until' = until
  BY DEF AcquireLease, Waiting
<1>3. free \in BOOLEAN
  OBVIOUS
<1>4. free => \A d \in Holder : ~MayAct(d) /\ ~Promised(d)
  <2>1. CASE holder = Nobody
    BY <2>1, OnlyHolderActs
  <2>2. CASE NotAfter(expires, ask[h].now)
    BY <2>2, <1>2, ExpiredIsFree
  <2>3. QED
    BY <2>1, <2>2
<1> HIDE DEF free
<1>5. /\ ask' \in [Holder -> AskType]
      /\ ask'[h].op = ask[h].op /\ ask'[h].now = ask[h].now
      /\ ask'[h].done /\ ask'[h].granted = free
      /\ \A d \in Holder \ {h} : ask'[d] = ask[d]
  BY <1>1, <1>2, <1>3, AnswerIsTo
<1>6. LeaseTypeOK'
  <2>1. holder' \in Holder \cup {Nobody} /\ expires' \in Nat
    BY <1>1, <1>2, Types DEF LeaseTypeOK
  <2>2. QED
    BY <2>1, <1>1, <1>2, <1>5 DEF LeaseTypeOK, AskType
<1>7. ClientOK(h)'
  <2>1. Now(h)' = Now(h)
    BY <1>2 DEF Now
  <2>2. MayAct(h)' = MayAct(h)
    BY <1>2, <2>1 DEF MayAct
  <2>3. CASE free
    <3>1. ~MayAct(h)' /\ holder' = h /\ expires' = ask[h].now + Ttl
      BY <2>2, <2>3, <1>2, <1>4
    <3>2. ask[h].now + Ttl \in Nat
      BY <1>1, Types
    <3>3. QED
      BY <3>1, <3>2, <2>1, <1>1, <1>2, <1>5 DEF ClientOK
  <2>4. CASE ~free
    <3>1. ~Promised(h)'
      BY <2>4, <1>5 DEF Promised
    <3>2. QED
      BY <3>1, <2>1, <2>2, <2>4, <1>1, <1>2, <1>5 DEF ClientOK
  <2>5. QED
    BY <2>3, <2>4
<1>8. ASSUME NEW d \in Holder \ {h} PROVE ClientOK(d)'
  BY <1>2, <1>4, <1>5, OtherKeeps
<1>9. QED
  BY <1>6, <1>7, <1>8 DEF LeaseInv

(* A renewal never shortens the lease: its clock was read after the one of *)
(* the answer that h counts on.                                            *)
LEMMA RenewKeeps ==
  ASSUME LeaseInv, NEW h \in Holder, RenewLease(h)
  PROVE  LeaseInv'
<1> DEFINE valid == holder = h /\ ~NotAfter(expires, ask[h].now)
<1>1. LeaseTypeOK /\ ClientOK(h)
  BY DEF LeaseInv
<1>2. /\ Answer(h, valid) /\ ask[h].op = "renew" /\ ~ask[h].done
      /\ expires' = IF valid THEN ask[h].now + Ttl ELSE expires
      /\ holder' = holder /\ clock' = clock /\ ahead' = ahead /\ until' = until
  BY DEF RenewLease, Waiting
<1>3. valid \in BOOLEAN /\ (valid => holder = h)
  OBVIOUS
<1> HIDE DEF valid
<1>4. /\ ask' \in [Holder -> AskType]
      /\ ask'[h].op = ask[h].op /\ ask'[h].now = ask[h].now
      /\ ask'[h].done /\ ask'[h].granted = valid
      /\ \A d \in Holder \ {h} : ask'[d] = ask[d]
  BY <1>1, <1>2, <1>3, AnswerIsTo
<1>5. LeaseTypeOK'
  <2>1. expires' \in Nat
    BY <1>1, <1>2, Types DEF LeaseTypeOK
  <2>2. QED
    BY <2>1, <1>1, <1>2, <1>4 DEF LeaseTypeOK, AskType
<1>6. ClientOK(h)'
  <2>1. Now(h)' = Now(h)
    BY <1>2 DEF Now
  <2>2. MayAct(h)' = MayAct(h)
    BY <1>2, <2>1 DEF MayAct
  <2>3. CASE valid
    <3>1. holder' = h /\ expires' = ask[h].now + Ttl /\ until[h] <= expires'
      BY <2>3, <1>1, <1>2, <1>3 DEF ClientOK
    <3>2. ask[h].now + Ttl \in Nat
      BY <1>1, Types
    <3>3. QED
      BY <3>1, <3>2, <2>1, <1>1, <1>2, <1>4 DEF ClientOK
  <2>4. CASE ~valid
    <3>1. ~Promised(h)'
      BY <2>4, <1>4 DEF Promised
    <3>2. QED
      BY <3>1, <2>1, <2>2, <2>4, <1>1, <1>2, <1>4 DEF ClientOK
  <2>5. QED
    BY <2>3, <2>4
<1>7. ASSUME NEW d \in Holder \ {h} PROVE ClientOK(d)'
  <2>1. CASE valid
    <3>1. ~MayAct(d) /\ ~Promised(d)
      BY <2>1, <1>3, OnlyHolderActs
    <3>2. QED
      BY <3>1, <1>2, <1>4, OtherKeeps
  <2>2. CASE ~valid
    BY <2>2, <1>2, <1>4, OtherKeeps
  <2>3. QED
    BY <2>1, <2>2
<1>8. QED
  BY <1>5, <1>6, <1>7 DEF LeaseInv

LEMMA ReleaseKeeps ==
  ASSUME LeaseInv, NEW h \in Holder, ReleaseLease(h)
  PROVE  LeaseInv'
<1> DEFINE mine == holder = h
<1>1. LeaseTypeOK /\ ClientOK(h)
  BY DEF LeaseInv
<1>2. /\ Answer(h, mine) /\ ask[h].op = "release" /\ ~ask[h].done
      /\ holder' = IF holder = h THEN Nobody ELSE holder
      /\ expires' = expires /\ clock' = clock /\ ahead' = ahead /\ until' = until
  BY DEF ReleaseLease, Waiting
<1>3. mine \in BOOLEAN
  OBVIOUS
<1> HIDE DEF mine
<1>4. /\ ask' \in [Holder -> AskType]
      /\ ask'[h].op = ask[h].op /\ ask'[h].now = ask[h].now
      /\ ask'[h].done
      /\ \A d \in Holder \ {h} : ask'[d] = ask[d]
  BY <1>1, <1>2, <1>3, AnswerIsTo
<1>5. LeaseTypeOK'
  BY <1>1, <1>2, <1>4 DEF LeaseTypeOK, AskType
<1>6. ClientOK(h)'
  <2>1. Now(h)' = Now(h) /\ ~MayAct(h)' /\ ~Promised(h)'
    BY <1>1, <1>2, <1>4 DEF Now, MayAct, Promised, ClientOK
  <2>2. QED
    BY <2>1, <1>1, <1>2, <1>4 DEF ClientOK
<1>7. ASSUME NEW d \in Holder \ {h} PROVE ClientOK(d)'
  <2>1. CASE holder = h
    <3>1. ~MayAct(d) /\ ~Promised(d)
      BY <2>1, OnlyHolderActs
    <3>2. QED
      BY <3>1, <1>2, <1>4, OtherKeeps
  <2>2. CASE holder # h
    BY <2>2, <1>2, <1>4, OtherKeeps
  <2>3. QED
    BY <2>1, <2>2
<1>8. QED
  BY <1>5, <1>6, <1>7 DEF LeaseInv

(* What the client does with what it hears, and a client that starts anew. *)
LEMMA HearKeeps ==
  ASSUME LeaseInv, NEW h \in Holder, Hear(h)
  PROVE  LeaseInv'
<1>1. LeaseTypeOK /\ ClientOK(h)
  BY DEF LeaseInv
<1>2. NoAsk \in AskType /\ NoAsk.op = "none" /\ ~NoAsk.done
  BY DEF NoAsk, AskType
<1>3. /\ ask' = [ask EXCEPT ![h] = NoAsk] /\ ask[h].done
      /\ holder' = holder /\ expires' = expires /\ clock' = clock /\ ahead' = ahead
  BY DEF Hear
<1>4. \/ /\ ask[h].op \in {"acquire", "renew"} /\ ask[h].granted
         /\ until' = [until EXCEPT ![h] = ask[h].now + Ttl]
      \/ until' = [until EXCEPT ![h] = 0]
      \/ until' = until
  BY <1>1, Types DEF Hear, Op, ClientOK
<1>5. LeaseTypeOK'
  <2>1. ask[h].now + Ttl \in Nat
    BY <1>1, Types
  <2>2. until' \in [Holder -> Nat]
    BY <2>1, <1>1, <1>4 DEF LeaseTypeOK
  <2>3. QED
    BY <2>2, <1>1, <1>2, <1>3 DEF LeaseTypeOK, AskType
<1>6. ClientOK(h)'
  <2>1. ask'[h] = NoAsk /\ Now(h)' = Now(h)
    BY <1>1, <1>3 DEF LeaseTypeOK, Now
  <2>2. ~Promised(h)'
    BY <2>1, <1>2 DEF Promised
  <2>3. /\ Now(h) \in Nat /\ ask[h].now \in Nat
        /\ ask[h].op # "none" /\ ask[h].now <= Now(h)
    BY <1>1, <1>3, Types DEF ClientOK
  <2>4. CASE /\ ask[h].op \in {"acquire", "renew"} /\ ask[h].granted
             /\ until' = [until EXCEPT ![h] = ask[h].now + Ttl]
    <3>1. until'[h] = ask[h].now + Ttl
      BY <2>4, <1>1 DEF LeaseTypeOK
    <3>2. MayAct(h)' => Promised(h)
      BY <3>1, <2>1, <2>4, <1>3 DEF MayAct, Promised
    <3>3. MayAct(h)' => holder' = h /\ until'[h] <= expires'
      BY <3>1, <3>2, <1>1, <1>3 DEF ClientOK
    <3>4. QED
      BY <3>1, <3>3, <2>1, <2>2, <2>3, <1>2 DEF ClientOK
  <2>5. CASE until' = [until EXCEPT ![h] = 0]
    <3>1. until'[h] = 0
      BY <2>5, <1>1 DEF LeaseTypeOK
    <3>2. ~MayAct(h)'
      BY <3>1 DEF MayAct
    <3>3. QED
      BY <3>1, <3>2, <2>1, <2>2, <2>3, <1>2 DEF ClientOK
  <2>6. CASE until' = until
    <3>1. MayAct(h)' = MayAct(h)
      BY <2>1, <2>6 DEF MayAct
    <3>2. QED
      BY <3>1, <2>1, <2>2, <2>6, <1>1, <1>2, <1>3 DEF ClientOK
  <2>7. QED
    BY <1>4, <2>4, <2>5, <2>6
<1>7. ASSUME NEW d \in Holder \ {h} PROVE ClientOK(d)'
  <2>1. ask'[d] = ask[d] /\ until'[d] = until[d]
    BY <1>1, <1>3, <1>4 DEF LeaseTypeOK
  <2>2. QED
    BY <2>1, <1>3, OtherKeeps
<1>8. QED
  BY <1>5, <1>6, <1>7 DEF LeaseInv

LEMMA DiesKeeps ==
  ASSUME LeaseInv, NEW h \in Holder, ClientDies(h)
  PROVE  LeaseInv'
<1>1. LeaseTypeOK
  BY DEF LeaseInv
<1>2. NoAsk \in AskType /\ NoAsk.op = "none" /\ ~NoAsk.done
  BY DEF NoAsk, AskType
<1>3. /\ ask' = [ask EXCEPT ![h] = NoAsk] /\ until' = [until EXCEPT ![h] = 0]
      /\ holder' = holder /\ expires' = expires /\ clock' = clock /\ ahead' = ahead
  BY DEF ClientDies
<1>4. LeaseTypeOK'
  BY <1>1, <1>2, <1>3 DEF LeaseTypeOK, AskType
<1>5. ClientOK(h)'
  <2>1. ask'[h] = NoAsk /\ until'[h] = 0
    BY <1>1, <1>3 DEF LeaseTypeOK
  <2>2. Now(h)' = Now(h) /\ Now(h) \in Nat
    BY <1>1, <1>3, Types DEF Now
  <2>3. QED
    BY <2>1, <2>2, <1>2 DEF ClientOK, MayAct, Promised
<1>6. ASSUME NEW d \in Holder \ {h} PROVE ClientOK(d)'
  <2>1. ask'[d] = ask[d] /\ until'[d] = until[d]
    BY <1>1, <1>3 DEF LeaseTypeOK
  <2>2. QED
    BY <2>1, <1>3, OtherKeeps
<1>7. QED
  BY <1>4, <1>5, <1>6 DEF LeaseInv

(* Time only takes from what a client may do. *)
LEMMA TickKeeps ==
  ASSUME LeaseInv, ClockTicks
  PROVE  LeaseInv'
<1>1. LeaseTypeOK
  BY DEF LeaseInv
<1>2. /\ clock' = clock + 1 /\ holder' = holder /\ expires' = expires
      /\ ahead' = ahead /\ ask' = ask /\ until' = until
  BY DEF ClockTicks
<1>3. LeaseTypeOK'
  BY <1>1, <1>2 DEF LeaseTypeOK
<1>4. ASSUME NEW h \in Holder PROVE ClientOK(h)'
  <2>1. ClientOK(h)
    BY DEF LeaseInv
  <2>2. /\ ask[h].now \in Nat /\ until[h] \in Nat
        /\ Now(h) \in Nat /\ Now(h)' = Now(h) + 1 /\ Margin \in Nat
    <3>1. ahead[h] \in Nat /\ clock \in Nat
      BY <1>1, Types
    <3>2. QED
      BY <3>1, <1>1, <1>2, Types DEF Now, Margin, Second
  <2>3. MayAct(h)' => MayAct(h)
    BY <1>2, <2>2 DEF MayAct
  <2>4. Promised(h)' => Promised(h)
    BY <1>2, <2>2 DEF Promised
  <2>5. QED
    BY <1>2, <2>1, <2>2, <2>3, <2>4 DEF ClientOK
<1>5. QED
  BY <1>3, <1>4 DEF LeaseInv

LEMMA LeaseInvNext == LeaseInv /\ [LeaseNext]_leaseVars => LeaseInv'
<1>1. SUFFICES ASSUME LeaseInv, [LeaseNext]_leaseVars PROVE LeaseInv'
  OBVIOUS
<1>2. CASE UNCHANGED leaseVars
  <2>1. /\ holder' = holder /\ expires' = expires /\ clock' = clock
        /\ ahead' = ahead /\ ask' = ask /\ until' = until
    BY <1>2 DEF leaseVars
  <2>2. LeaseTypeOK'
    BY <2>1, <1>1 DEF LeaseInv, LeaseTypeOK
  <2>3. \A d \in Holder : ClientOK(d)'
    BY <2>1, <1>1, OtherKeeps
  <2>4. QED
    BY <2>2, <2>3 DEF LeaseInv
<1>3. CASE ClockTicks
  BY <1>1, <1>3, TickKeeps
<1>4. ASSUME NEW h \in Holder, NEW op \in Op, Ask(h, op) PROVE LeaseInv'
  BY <1>1, <1>4, AskKeeps
<1>5. ASSUME NEW h \in Holder, AcquireLease(h) PROVE LeaseInv'
  BY <1>1, <1>5, AcquireKeeps
<1>6. ASSUME NEW h \in Holder, RenewLease(h) PROVE LeaseInv'
  BY <1>1, <1>6, RenewKeeps
<1>7. ASSUME NEW h \in Holder, ReleaseLease(h) PROVE LeaseInv'
  BY <1>1, <1>7, ReleaseKeeps
<1>8. ASSUME NEW h \in Holder, Hear(h) PROVE LeaseInv'
  BY <1>1, <1>8, HearKeeps
<1>9. ASSUME NEW h \in Holder, ClientDies(h) PROVE LeaseInv'
  BY <1>1, <1>9, DiesKeeps
<1>10. QED
  BY <1>1, <1>2, <1>3, <1>4, <1>5, <1>6, <1>7, <1>8, <1>9 DEF LeaseNext

(* Acquire, Renew and Release keep what the clients count on to the row.    *)
THEOREM LeaseSound == LeaseSpec => []LeaseInv
<1>1. QED
  BY LeaseInvInit, LeaseInvNext, PTL DEF LeaseSpec

(* The row, the clocks and the calls of every client stay well formed. *)
THEOREM LeaseTypeCorrect == LeaseSpec => []LeaseTypeOK
<1>1. LeaseInv => LeaseTypeOK
  BY DEF LeaseInv
<1>2. QED
  BY <1>1, LeaseSound, PTL

(* A client that AcquireLease or RenewLease told TRUE, and whose clock is  *)
(* Margin short of the expiry, is the one the row names.                   *)
THEOREM ActorsAreBacked == LeaseSpec => []Backed
<1>1. LeaseInv => Backed
  BY DEF LeaseInv, Backed, ClientOK
<1>2. QED
  BY <1>1, LeaseSound, PTL
-----------------------------------------------------------------------------
Inside == {h \in Holder : MayAct(h)}

LEMMA InitLocked == LeaseInit => Inside = {}
BY DEF LeaseInit, Inside, MayAct

(* Of the steps of a client only Hear lets one in, and only itself. *)
LEMMA WhoComesIn ==
  ASSUME LeaseInv, [LeaseNext]_leaseVars
  PROVE  \/ Inside' \subseteq Inside
         \/ \E h \in Holder : Inside' \ {h} = Inside \ {h}
<1>1. LeaseTypeOK
  BY DEF LeaseInv
<1>2. CASE UNCHANGED leaseVars
  <2>1. \A d \in Holder : MayAct(d)' => MayAct(d)
    BY <1>2 DEF leaseVars, MayAct, Now
  <2>2. QED
    BY <2>1 DEF Inside
<1>3. CASE ClockTicks
  <2>1. ASSUME NEW d \in Holder, MayAct(d)' PROVE MayAct(d)
    <3>1. ahead[d] \in Nat /\ clock \in Nat /\ until[d] \in Nat /\ Margin \in Nat
      BY <1>1, Types DEF Margin, Second
    <3>2. QED
      BY <3>1, <2>1, <1>3 DEF ClockTicks, MayAct, Now
  <2>2. QED
    BY <2>1 DEF Inside
<1>4. ASSUME NEW h \in Holder,
             \/ \E op \in Op : Ask(h, op)
             \/ AcquireLease(h) \/ RenewLease(h) \/ ReleaseLease(h)
             \/ Hear(h) \/ ClientDies(h)
      PROVE  Inside' \ {h} = Inside \ {h}
  <2>1. clock' = clock /\ ahead' = ahead
    BY <1>4 DEF Ask, AcquireLease, RenewLease, ReleaseLease, Hear, ClientDies
  <2>2. \/ until' = until
        \/ until' = [until EXCEPT ![h] = 0]
        \/ until' = [until EXCEPT ![h] = ask[h].now + Ttl]
    BY <1>4 DEF Ask, AcquireLease, RenewLease, ReleaseLease, Hear, ClientDies
  <2>3. \A d \in Holder \ {h} : until'[d] = until[d]
    BY <1>1, <2>2 DEF LeaseTypeOK
  <2>4. \A d \in Holder \ {h} : MayAct(d)' = MayAct(d)
    BY <2>1, <2>3 DEF MayAct, Now
  <2>5. QED
    BY <2>4 DEF Inside
<1>5. QED
  BY <1>2, <1>3, <1>4 DEF LeaseNext

LEMMA StepLocked ==
  ASSUME LeaseInv, LeaseInv', [LeaseNext]_leaseVars
  PROVE  [Locked!Next]_Inside
<1>1. \A c, d \in Inside : c = d
  BY DEF LeaseInv, ClientOK, Inside
<1>2. \A c, d \in Inside' : c = d
  BY DEF LeaseInv, ClientOK, Inside
<1>3. Inside \subseteq Holder /\ Inside' \subseteq Holder
  BY DEF Inside
<1>4. SUFFICES ASSUME Inside' # Inside
               PROVE  \E c \in Holder : \/ Inside = {} /\ Inside' = {c}
                                        \/ Inside = {c} /\ Inside' = {}
  BY DEF Locked!Next, Locked!Enter, Locked!Leave, Inside
<1>5. Inside = {} \/ \E c \in Holder : Inside = {c}
  BY <1>1, <1>3
<1>6. Inside' = {} \/ \E c \in Holder : Inside' = {c}
  BY <1>2, <1>3
<1>7. QED
  BY <1>4, <1>5, <1>6, WhoComesIn

(* AcquireLease, RenewLease and ReleaseLease implement the lock a lease is *)
(* for, whatever the clients do and whenever they die.                     *)
THEOREM LeaseIsALock == LeaseSpec => ImplementsLock
<1>1. LeaseInit => Locked!Init
  BY InitLocked DEF Locked!Init, Inside
<1>2. LeaseInv /\ LeaseInv' /\ [LeaseNext]_leaseVars
        => [Locked!Next]_{h \in Holder : MayAct(h)}
  BY StepLocked DEF Inside
<1>3. QED
  BY <1>1, <1>2, LeaseSound, PTL DEF LeaseSpec, ImplementsLock, Locked!Spec
=============================================================================
