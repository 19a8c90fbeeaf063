------------------------------- MODULE Lease --------------------------------
(***************************************************************************)
(* The leases of internal/journal: one row of the table, what its clients  *)
(* ask for with clocks that do not quite agree, and how long they may act  *)
(* on a TRUE they were given.                                              *)
(*                                                                         *)
(* The row is compared as text.  formatTime is RFC3339Nano, which drops    *)
(* the zeros at the end of the fraction: "05.5Z" sorts before "05Z".  Half *)
(* a second is the unit of time, so that both kinds of fraction are there. *)
(*                                                                         *)
(* Nothing in the repository but the journal's tests takes a lease.  What  *)
(* a client does with one is modelled as an orderly client would: it asks  *)
(* for one thing at a time with the clock it just read, stops acting       *)
(* before it releases, and stops acting Margin before the lease expires by *)
(* its own clock.                                                          *)
(***************************************************************************)
EXTENDS Integers

CONSTANTS Holder,       \* clients, each with a holder name of its own
          Nobody,       \* no row
          Ttl,          \* the ttl they ask for
          MaxSkew,      \* how far their clocks are apart at most
          MaxTime       \* bound

ASSUME LeaseAssumption ==
  /\ Nobody \notin Holder
  /\ Ttl \in Nat \ {0} /\ MaxSkew \in Nat /\ MaxTime \in Nat

VARIABLES holder,      \* the row
          expires,     \* expires_at of the row
          clock,       \* time, by the slowest clock
          ahead,       \* ahead[h]: how far the clock of h is ahead of it
          ask,         \* ask[h]: the call of h under way
          until        \* until[h]: when the lease h was given expires, or 0

leaseVars == <<holder, expires, clock, ahead, ask, until>>

Second == 2

Op == {"acquire", "renew", "release"}

NoAsk == [op |-> "none", now |-> 0, done |-> FALSE, granted |-> FALSE]

LeaseInit ==
  /\ holder = Nobody
  /\ expires = 0
  /\ clock = 0
  /\ ahead \in [Holder -> 0 .. MaxSkew]
  /\ ask = [h \in Holder |-> NoAsk]
  /\ until = [h \in Holder |-> 0]

(* The place of a fraction among the texts of its second: none comes last. *)
Rank(fraction) == IF fraction = 0 THEN Second ELSE fraction

(* Mutant of NotAfter: times compared as times, a second early.            *)
NotAfterEarly(a, b) == a <= b + Second

(* formatTime(a) <= formatTime(b), compared as text. *)
NotAfter(a, b) ==
  \/ a \div Second < b \div Second
  \/ /\ a \div Second = b \div Second
     /\ Rank(a % Second) <= Rank(b % Second)

Now(h) == clock + ahead[h]

(* The answer of a call: RowsAffected = 1. *)
Answer(h, granted) ==
  ask' = [ask EXCEPT ![h] = [ask[h] EXCEPT !.done = TRUE, !.granted = granted]]

Waiting(h, op) == ask[h].op = op /\ ~ask[h].done
-----------------------------------------------------------------------------
Ask(h, op) ==
  /\ ask[h].op = "none"
  /\ ask' = [ask EXCEPT ![h] = [NoAsk EXCEPT !.op = op, !.now = Now(h)]]
  /\ until' = IF op = "release" THEN [until EXCEPT ![h] = 0] ELSE until
  /\ UNCHANGED <<holder, expires, clock, ahead>>

(* INSERT ... ON CONFLICT DO UPDATE ... WHERE leases.expires_at <= now *)
AcquireLease(h) ==
  /\ Waiting(h, "acquire")
  /\ LET free == holder = Nobody \/ NotAfter(expires, ask[h].now)
     IN  /\ Answer(h, free)
         /\ holder' = IF free THEN h ELSE holder
         /\ expires' = IF free THEN ask[h].now + Ttl ELSE expires
  /\ UNCHANGED <<clock, ahead, until>>

(* Mutant of RenewLease: the row of whoever holds it.                      *)
RenewLeaseOfAny(h) ==
  /\ Waiting(h, "renew")
  /\ LET valid == holder # Nobody /\ ~NotAfter(expires, ask[h].now)
     IN  /\ Answer(h, valid)
         /\ expires' = IF valid THEN ask[h].now + Ttl ELSE expires
  /\ UNCHANGED <<holder, clock, ahead, until>>

(* UPDATE ... WHERE holder = h AND expires_at > now *)
RenewLease(h) ==
  /\ Waiting(h, "renew")
  /\ LET valid == holder = h /\ ~NotAfter(expires, ask[h].now)
     IN  /\ Answer(h, valid)
         /\ expires' = IF valid THEN ask[h].now + Ttl ELSE expires
  /\ UNCHANGED <<holder, clock, ahead, until>>

(* Mutant of ReleaseLease: the row goes, whoever it names.                 *)
ReleaseLeaseOfAny(h) ==
  /\ Waiting(h, "release")
  /\ Answer(h, holder # Nobody)
  /\ holder' = Nobody
  /\ UNCHANGED <<expires, clock, ahead, until>>

(* DELETE ... WHERE holder = h *)
ReleaseLease(h) ==
  /\ Waiting(h, "release")
  /\ Answer(h, holder = h)
  /\ holder' = IF holder = h THEN Nobody ELSE holder
  /\ UNCHANGED <<expires, clock, ahead, until>>

(* The answer arrives: TRUE gives the lease, FALSE to a renewal takes it.  *)
Hear(h) ==
  /\ ask[h].done
  /\ until' = CASE ask[h].op # "release" /\ ask[h].granted ->
                     [until EXCEPT ![h] = ask[h].now + Ttl]
                [] ask[h].op = "renew" /\ ~ask[h].granted ->
                     [until EXCEPT ![h] = 0]
                [] OTHER -> until
  /\ ask' = [ask EXCEPT ![h] = NoAsk]
  /\ UNCHANGED <<holder, expires, clock, ahead>>

(* The client dies, before or after its call took effect, and starts anew. *)
ClientDies(h) ==
  /\ ask' = [ask EXCEPT ![h] = NoAsk]
  /\ until' = [until EXCEPT ![h] = 0]
  /\ UNCHANGED <<holder, expires, clock, ahead>>

ClockTicks ==
  /\ clock < MaxTime
  /\ clock' = clock + 1
  /\ UNCHANGED <<holder, expires, ahead, ask, until>>

LeaseNext ==
  \/ ClockTicks
  \/ \E h \in Holder :
       \/ \E op \in Op : Ask(h, op)
       \/ AcquireLease(h) \/ RenewLease(h) \/ ReleaseLease(h)
       \/ Hear(h) \/ ClientDies(h)

LeaseSpec == LeaseInit /\ [][LeaseNext]_leaseVars
-----------------------------------------------------------------------------
(* What the clocks and the text order may be off by together. *)
Margin == MaxSkew + Second - 1

MayAct(h) == until[h] # 0 /\ Now(h) + Margin < until[h]

LeaseTypeOK ==
  /\ holder \in Holder \cup {Nobody}
  /\ expires \in Nat
  /\ clock \in Nat
  /\ ahead \in [Holder -> 0 .. MaxSkew]
  /\ ask \in [Holder -> [op : Op \cup {"none"}, now : Nat,
                         done : BOOLEAN, granted : BOOLEAN]]
  /\ until \in [Holder -> Nat]

(* A client that may act is the one the row names, whatever the others     *)
(* acquire, renew late or release late: no two act at once.                *)
Backed == \A h \in Holder : MayAct(h) => holder = h

(* The lease is a lock, with the clients that may act inside. *)
Locked == INSTANCE Lock WITH Client <- Holder, inside <- {h \in Holder : MayAct(h)}

ImplementsLock == Locked!Spec
=============================================================================
