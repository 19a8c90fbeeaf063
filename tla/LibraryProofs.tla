--------------------------- MODULE LibraryProofs ----------------------------
(***************************************************************************)
(* What holds, for every value of the constants, of the packages no code   *)
(* of the daemon drives yet: remote calls, rollouts, concepts and the      *)
(* intake of issues, each in a section with its invariant, and at last,    *)
(* with the leases of LeaseProofs, of their composition.                   *)
(***************************************************************************)
EXTENDS MCLibraries, LeaseProofs, WorkflowProofs, FiniteSetTheorems, TLAPS

-----------------------------------------------------------------------------
(***************************************************************************)
(* What holds of the remote calls for every number of callers and of       *)
(* attempts.  The argument is one about the record of a single call: its   *)
(* effect can only come from an attempt under way, which is the first one  *)
(* where a document is needed, and a merge that is not made yet.           *)
(***************************************************************************)

CallType == [op : CallOp, phase : Phase, attempt : 0 .. MaxAttempts,
             answer : AnswerKind, flying : BOOLEAN, effects : Nat]

(* Where the call is against what it may have done. *)
CallOK(r) ==
  /\ r.effects <= 1
  /\ r.op = "read" => r.effects = 0
  /\ r.op \in Post /\ r.flying /\ r.attempt = 1 => r.effects = 0
  /\ r.phase # "idle" => r.attempt # 0
  /\ r.phase = "idle" => ~r.flying
  /\ r.phase \in {"answered", "waiting", "ok"} => ~r.flying
  /\ r.phase = "waiting" => r.attempt < MaxAttempts
  /\ r.phase = "answered" /\ r.answer = "done" /\ r.op # "read" => r.effects = 1
  /\ r.phase = "ok" /\ r.op # "read" => r.effects = 1

(* The call that merged. *)
Merges(r) == r.op = "merge_pr" /\ r.effects # 0

MergeOK(r) == Merges(r) => merged

CallsInv ==
  /\ call \in [Caller -> CallType]
  /\ merged \in BOOLEAN
  /\ \A c \in Caller : CallOK(call[c]) /\ MergeOK(call[c])
  /\ \A c, d \in Caller : Merges(call[c]) /\ Merges(call[d]) => c = d
-----------------------------------------------------------------------------
(* A step that leaves one sound record behind and unmakes no merge leaves  *)
(* all of them sound.                                                      *)
LEMMA OneRecord ==
  ASSUME CallsInv,
         NEW c \in Caller, NEW r \in CallType,
         call' = [call EXCEPT ![c] = r],
         merged' \in BOOLEAN, merged => merged',
         CallOK(r),
         Merges(r) => merged' /\ (~merged \/ Merges(call[c]))
  PROVE  CallsInv'
<1>1. call' \in [Caller -> CallType]
  BY DEF CallsInv
<1>2. ASSUME NEW d \in Caller
      PROVE  CallOK(call'[d]) /\ MergeOK(call[d])'
  <2>1. CASE d = c
    <3>1. call'[d] = r
      BY <2>1 DEF CallsInv
    <3>2. QED
      BY <3>1 DEF MergeOK
  <2>2. CASE d # c
    <3>1. call'[d] = call[d]
      BY <2>2 DEF CallsInv
    <3>2. CallOK(call[d]) /\ MergeOK(call[d])
      BY DEF CallsInv
    <3>3. QED
      BY <3>1, <3>2 DEF MergeOK
  <2>3. QED
    BY <2>1, <2>2
<1>3. ASSUME NEW d \in Caller, NEW e \in Caller, Merges(call'[d]), Merges(call'[e])
      PROVE  d = e
  <2>1. ASSUME NEW f \in Caller, f # c, Merges(call'[f]) PROVE Merges(call[f]) /\ merged
    BY <2>1 DEF CallsInv, MergeOK
  <2>2. d = c \/ e = c => Merges(r)
    BY <1>3 DEF CallsInv
  <2>3. CASE d # c /\ e # c
    BY <1>3, <2>1, <2>3 DEF CallsInv
  <2>4. CASE d = c /\ e # c
    <3>1. Merges(call[e]) /\ merged
      BY <1>3, <2>1, <2>4
    <3>2. Merges(call[c])
      BY <2>2, <2>4, <3>1
    <3>3. QED
      BY <2>4, <3>1, <3>2 DEF CallsInv
  <2>5. CASE d # c /\ e = c
    <3>1. Merges(call[d]) /\ merged
      BY <1>3, <2>1, <2>5
    <3>2. Merges(call[c])
      BY <2>2, <2>5, <3>1
    <3>3. QED
      BY <2>5, <3>1, <3>2 DEF CallsInv
  <2>6. QED
    BY <2>3, <2>4, <2>5
<1>4. QED
  BY <1>1, <1>2, <1>3 DEF CallsInv, CallOK, Merges

LEMMA CallsInvInit == CallsInit => CallsInv
<1>1. SUFFICES ASSUME CallsInit PROVE CallsInv
  OBVIOUS
<1>2. Idle \in CallType
  BY AttemptsAssumption DEF Idle, CallType, CallOp, Phase, AnswerKind
<1>3. CallOK(Idle) /\ Idle.effects = 0
  BY DEF CallOK, Idle
<1>4. \A c \in Caller : call[c] = Idle
  BY <1>1 DEF CallsInit
<1>5. call \in [Caller -> CallType] /\ merged \in BOOLEAN
  BY <1>1, <1>2 DEF CallsInit
<1>6. \A c \in Caller : CallOK(call[c]) /\ MergeOK(call[c])
  BY <1>3, <1>4 DEF MergeOK, Merges
<1>7. \A c \in Caller : ~Merges(call[c])
  BY <1>3, <1>4 DEF Merges
<1>8. QED
  BY <1>5, <1>6, <1>7 DEF CallsInv

(* What an answer, a further attempt and a new call make of a record. *)
AnsweredAs(r, n, kind, phase) ==
  [r EXCEPT !.flying = FALSE, !.effects = n, !.answer = kind, !.phase = phase]

SentAs(r, n) == [r EXCEPT !.phase = "sent", !.attempt = n, !.flying = TRUE]

NewCall(op) == SentAs([Idle EXCEPT !.op = op], 1)

LEMMA AnsweredRecord ==
  ASSUME NEW r \in CallType, NEW n \in Nat, NEW kind \in AnswerKind,
         NEW phase \in Phase
  PROVE  /\ AnsweredAs(r, n, kind, phase) \in CallType
         /\ AnsweredAs(r, n, kind, phase).op = r.op
         /\ AnsweredAs(r, n, kind, phase).attempt = r.attempt
         /\ AnsweredAs(r, n, kind, phase).effects = n
         /\ AnsweredAs(r, n, kind, phase).answer = kind
         /\ AnsweredAs(r, n, kind, phase).phase = phase
         /\ ~AnsweredAs(r, n, kind, phase).flying
BY DEF CallType, AnsweredAs

LEMMA SentRecord ==
  ASSUME NEW r \in CallType, NEW n \in 0 .. MaxAttempts
  PROVE  /\ SentAs(r, n) \in CallType
         /\ SentAs(r, n).op = r.op /\ SentAs(r, n).effects = r.effects
         /\ SentAs(r, n).phase = "sent" /\ SentAs(r, n).attempt = n
         /\ SentAs(r, n).flying
BY DEF CallType, Phase, SentAs

LEMMA NewCallRecord ==
  ASSUME NEW op \in CallOp
  PROVE  /\ NewCall(op) \in CallType
         /\ NewCall(op).op = op /\ NewCall(op).effects = 0
         /\ NewCall(op).phase = "sent" /\ NewCall(op).attempt = 1
         /\ NewCall(op).flying
<1> DEFINE new == [Idle EXCEPT !.op = op]
<1>1. Idle \in CallType
  BY AttemptsAssumption DEF Idle, CallType, CallOp, Phase, AnswerKind
<1>2. new \in CallType
  BY <1>1 DEF CallType
<1>3. new.op = op /\ new.effects = 0
  BY DEF Idle
<1>4. 1 \in 0 .. MaxAttempts
  BY AttemptsAssumption
<1> HIDE DEF new
<1>5. SentAs(new, 1) = NewCall(op)
  BY DEF NewCall, new
<1>6. QED
  BY <1>2, <1>3, <1>4, <1>5, SentRecord

(* The server does the work: of a request that is the first of its call,   *)
(* or a merge not made before.                                             *)
LEMMA ExecutesKeeps ==
  ASSUME CallsInv, NEW c \in Caller, Executes(c)
  PROVE  CallsInv'
<1> DEFINE old == call[c]
           phase == IF old.phase = "sent" THEN "answered" ELSE old.phase
           n == old.effects + 1
<1>1. PICK kind \in AnswerKind :
        call' = [call EXCEPT ![c] = AnsweredAs(old, n, kind, phase)]
  BY DEF Executes, Answered, AnsweredAs
<1> DEFINE r == AnsweredAs(old, n, kind, phase)
<1>2. old \in CallType /\ CallOK(old) /\ MergeOK(old)
  BY DEF CallsInv
<1>3. old.flying /\ old.effects = 0 /\ old.op # "read"
  <2>1. CASE old.op \in Post /\ HasBody(c)
    BY <2>1, <1>2 DEF Executes, HasBody, CallOK, Post
  <2>2. CASE old.op = "merge_pr" /\ ~merged
    BY <2>2, <1>2 DEF Executes, CallType, MergeOK, Merges
  <2>3. QED
    BY <2>1, <2>2 DEF Executes
<1>4. n \in Nat /\ n = 1
  BY <1>3
<1>5. phase \in Phase /\ phase \notin {"waiting", "ok", "idle"}
  BY <1>2, <1>3 DEF CallType, CallOK, Phase
<1>6. call' = [call EXCEPT ![c] = r]
  BY <1>1
<1> HIDE DEF n, phase
<1>7. /\ r \in CallType
      /\ r.op = old.op /\ r.attempt = old.attempt
      /\ r.effects = 1 /\ r.phase = phase /\ ~r.flying
  <2>1. old \in CallType /\ n \in Nat /\ phase \in Phase
    BY <1>2, <1>4, <1>5
  <2>2. /\ r \in CallType
        /\ r.op = old.op /\ r.attempt = old.attempt
        /\ r.effects = n /\ r.phase = phase /\ ~r.flying
    BY <2>1, AnsweredRecord
  <2>3. QED
    BY <2>2, <1>4
<1>8. CallOK(r)
  BY <1>2, <1>3, <1>5, <1>7 DEF CallOK
<1>9. merged' \in BOOLEAN /\ (merged => merged')
  <2>1. CASE UNCHANGED merged
    BY <2>1 DEF CallsInv
  <2>2. CASE merged' = TRUE
    BY <2>2
  <2>3. QED
    BY <2>1, <2>2 DEF Executes
<1>10. Merges(r) => merged' /\ ~merged
  BY <1>7 DEF Executes, Post, Merges
<1>11. QED
  BY <1>6, <1>7, <1>8, <1>9, <1>10, OneRecord

(* The server does nothing: no effect, and "done" only for a read. *)
LEMMA DeclinesKeeps ==
  ASSUME CallsInv, NEW c \in Caller, Declines(c)
  PROVE  CallsInv'
<1> DEFINE old == call[c]
           phase == IF old.phase = "sent" THEN "answered" ELSE old.phase
           n == old.effects + 0
<1>1. PICK kind \in AnswerKind :
        /\ kind = "done" => old.op = "read"
        /\ call' = [call EXCEPT ![c] = AnsweredAs(old, n, kind, phase)]
  BY DEF Declines, Answered, AnsweredAs
<1> DEFINE r == AnsweredAs(old, n, kind, phase)
<1>2. old \in CallType /\ CallOK(old) /\ MergeOK(old) /\ old.flying
  BY DEF CallsInv, Declines
<1>3. old.effects \in Nat
  BY <1>2 DEF CallType
<1>4. n \in Nat /\ n = old.effects
  BY <1>3
<1>5. phase \in Phase /\ phase \notin {"waiting", "ok", "idle"}
  BY <1>2 DEF CallType, CallOK, Phase
<1>6. call' = [call EXCEPT ![c] = r]
  BY <1>1
<1> HIDE DEF n, phase
<1>7. /\ r \in CallType
      /\ r.op = old.op /\ r.attempt = old.attempt
      /\ r.effects = old.effects /\ r.answer = kind /\ r.phase = phase /\ ~r.flying
  BY <1>2, <1>4, <1>5, AnsweredRecord
<1>8. CallOK(r)
  BY <1>1, <1>2, <1>5, <1>7 DEF CallOK
<1>9. merged' = merged
  BY DEF Declines
<1>10. Merges(r) => merged' /\ Merges(call[c])
  BY <1>2, <1>7, <1>9 DEF MergeOK, Merges
<1>11. QED
  BY <1>6, <1>7, <1>8, <1>9, <1>10, OneRecord DEF CallsInv

(* A new call starts with nothing done. *)
LEMMA CallKeeps ==
  ASSUME CallsInv, NEW c \in Caller, NEW op \in CallOp, Call(c, op)
  PROVE  CallsInv'
<1> DEFINE r == NewCall(op)
<1>1. /\ r \in CallType
      /\ r.op = op /\ r.phase = "sent" /\ r.attempt = 1 /\ r.flying /\ r.effects = 0
  BY NewCallRecord
<1>2. call' = [call EXCEPT ![c] = r] /\ merged' = merged
  BY DEF Call, NewCall, SentAs
<1> HIDE DEF r
<1>3. CallOK(r)
  BY <1>1 DEF CallOK
<1>4. ~Merges(r)
  BY <1>1 DEF Merges
<1>5. QED
  BY <1>1, <1>2, <1>3, <1>4, OneRecord DEF CallsInv

(* What the caller makes of it: the effects stay as they are. *)
LEMMA PhaseKeeps ==
  ASSUME CallsInv, NEW c \in Caller, NEW phase \in Phase \ {"idle"},
         CallEnds(c, phase), merged' = merged,
         CallInFlight(c),
         phase \in {"waiting", "ok"} => call[c].phase = "answered",
         phase = "waiting" => MayRetry(c),
         phase = "ok" => Decoded(call[c].answer),
         phase \notin {"sent", "answered"}
  PROVE  CallsInv'
<1> DEFINE old == call[c]
           r == [old EXCEPT !.phase = phase]
<1>1. old \in CallType /\ CallOK(old) /\ MergeOK(old)
  BY DEF CallsInv
<1>2. /\ r \in CallType
      /\ r.op = old.op /\ r.attempt = old.attempt /\ r.answer = old.answer
      /\ r.effects = old.effects /\ r.flying = old.flying /\ r.phase = phase
  BY <1>1 DEF CallType
<1>3. phase = "waiting" => old.attempt < MaxAttempts
  <2>1. old.attempt \in Nat
    BY <1>1 DEF CallType
  <2>2. phase = "waiting" => old.attempt < Attempts(old.op)
    BY DEF MayRetry
  <2>3. Attempts(old.op) \in Nat /\ Attempts(old.op) <= MaxAttempts
    BY AttemptsAssumption DEF Attempts
  <2>4. QED
    BY <2>1, <2>2, <2>3, AttemptsAssumption
<1>4. old.phase # "idle"
  BY DEF CallInFlight
<1>5. call' = [call EXCEPT ![c] = r]
  BY DEF CallEnds
<1> HIDE DEF r
<1>6. CallOK(r)
  BY <1>1, <1>2, <1>3, <1>4 DEF CallOK, Decoded
<1>7. Merges(r) => merged' /\ Merges(call[c])
  BY <1>1, <1>2 DEF MergeOK, Merges
<1>8. QED
  BY <1>2, <1>5, <1>6, <1>7, OneRecord DEF CallsInv

(* A further attempt carries no document: it is not the first. *)
LEMMA RetriesKeeps ==
  ASSUME CallsInv, NEW c \in Caller, Retries(c)
  PROVE  CallsInv'
<1> DEFINE old == call[c]
           n == old.attempt + 1
           r == SentAs(old, n)
<1>1. old \in CallType /\ CallOK(old) /\ MergeOK(old) /\ old.phase = "waiting"
  BY DEF CallsInv, Retries
<1>2. old.attempt \in Nat /\ old.attempt # 0 /\ old.attempt < MaxAttempts
  BY <1>1 DEF CallOK, CallType
<1>3. n \in 0 .. MaxAttempts /\ n # 1 /\ n # 0
  BY <1>2, AttemptsAssumption
<1>4. call' = [call EXCEPT ![c] = r] /\ merged' = merged
  BY DEF Retries, SentAs
<1> HIDE DEF n
<1>5. /\ r \in CallType
      /\ r.op = old.op /\ r.effects = old.effects
      /\ r.phase = "sent" /\ r.attempt = n /\ r.flying
  BY <1>1, <1>3, SentRecord
<1> HIDE DEF r
<1>6. CallOK(r)
  BY <1>1, <1>3, <1>5 DEF CallOK
<1>7. Merges(r) => merged' /\ Merges(call[c])
  BY <1>1, <1>4, <1>5 DEF MergeOK, Merges
<1>8. QED
  BY <1>4, <1>5, <1>6, <1>7, OneRecord DEF CallsInv

LEMMA CallsInvNext == CallsInv /\ [CallsNext]_callVars => CallsInv'
<1>1. SUFFICES ASSUME CallsInv, [CallsNext]_callVars PROVE CallsInv'
  OBVIOUS
<1>2. CASE UNCHANGED callVars
  BY <1>1, <1>2 DEF callVars, CallsInv, CallOK, MergeOK, Merges
<1>3. ASSUME NEW c \in Caller, NEW op \in CallOp, Call(c, op) PROVE CallsInv'
  BY <1>1, <1>3, CallKeeps
<1>4. ASSUME NEW c \in Caller, Executes(c) PROVE CallsInv'
  BY <1>1, <1>4, ExecutesKeeps
<1>5. ASSUME NEW c \in Caller, Declines(c) PROVE CallsInv'
  BY <1>1, <1>5, DeclinesKeeps
<1>6. ASSUME NEW c \in Caller, Succeeds(c) PROVE CallsInv'
  BY <1>1, <1>6, PhaseKeeps DEF Succeeds, CallInFlight, Phase
<1>7. ASSUME NEW c \in Caller, Fails(c) PROVE CallsInv'
  BY <1>1, <1>7, PhaseKeeps DEF Fails, CallInFlight, Phase
<1>8. ASSUME NEW c \in Caller, BacksOff(c) PROVE CallsInv'
  BY <1>1, <1>8, PhaseKeeps DEF BacksOff, CallInFlight, Phase
<1>9. ASSUME NEW c \in Caller, Retries(c) PROVE CallsInv'
  BY <1>1, <1>9, RetriesKeeps
<1>10. ASSUME NEW c \in Caller, CallTimesOut(c) PROVE CallsInv'
  BY <1>1, <1>10, PhaseKeeps DEF CallTimesOut, Phase
<1>11. QED
  BY <1>1, <1>2, <1>3, <1>4, <1>5, <1>6, <1>7, <1>8, <1>9, <1>10 DEF CallsNext
-----------------------------------------------------------------------------
(* However servers and retries fall out, each record of a call is sound.   *)
THEOREM CallsSound == CallsSpec => []CallsInv
<1>1. QED
  BY CallsInvInit, CallsInvNext, PTL DEF CallsSpec

(* Every reachable call is well typed: no call is sent more often than     *)
(* roundTrip's maxAttempts, whatever the answers.                          *)
THEOREM CallsTypeCorrect == CallsSpec => []CallsTypeOK
<1>1. CallsInv => CallsTypeOK
  BY DEF CallsInv, CallsTypeOK, CallType
<1>2. QED
  BY <1>1, CallsSound, PTL

(* However often roundTrip sends a call, and whenever the server fails, it *)
(* has one effect at most.                                                 *)
THEOREM OneEffect == CallsSpec => []OneEffectPerCall
<1>1. CallsInv => OneEffectPerCall
  BY DEF CallsInv, OneEffectPerCall, CallOK
<1>2. QED
  BY <1>1, CallsSound, PTL

(* What OpenPR, MergePR, CreateRelease, Deploy and Rollback report as done *)
(* without an error was done, and by this call: the merge, which is made   *)
(* once, is reported to one caller at most.                                *)
THEOREM OkIsDone == CallsSpec => []OkMeansDone
<1>1. CallsInv => OkMeansDone
  BY DEF CallsInv, OkMeansDone, CallOK, Merges
<1>2. QED
  BY <1>1, CallsSound, PTL

-----------------------------------------------------------------------------
(***************************************************************************)
(* What holds of a rollout for every set of percentages, wherever the user *)
(* falls and however the products of floats are rounded.  The percentage   *)
(* of the flag is the one of its last stage, and stages increase; a larger *)
(* percentage has no fewer buckets, rounded or not.                        *)
(***************************************************************************)

Increasing(s) == \A k \in 2 .. Len(s) : s[k - 1] < s[k]

FlagType == [enabled : BOOLEAN, defaultOn : BOOLEAN,
             percentage : Percentage \cup {0}, rule : Rule]

RolloutInv ==
  /\ RolloutTypeOK
  /\ Increasing(stages)
  /\ flag.percentage = IF stage = 0 THEN 0 ELSE stages[stage]
-----------------------------------------------------------------------------
LEMMA PercentagesAreNumbers ==
  /\ \A p \in Percentage : p \in Nat
  /\ IsFiniteSet(Percentage)
<1>1. Full \in Int /\ 1 \in Int
  BY DEF Full
<1>2. Percentage \in SUBSET (1 .. Full)
  BY RolloutAssumption
<1>3. IsFiniteSet(1 .. Full)
  BY <1>1, FS_Interval
<1>4. IsFiniteSet(Percentage)
  BY <1>2, <1>3, FS_Subset
<1>5. \A p \in Percentage : p \in Nat
  BY <1>1, <1>2
<1>6. QED
  BY <1>4, <1>5

LEMMA BucketsGrow ==
  ASSUME NEW p \in Nat, NEW q \in Nat, p <= q
  PROVE  Buckets(p) \in Int /\ Buckets(q) \in Int /\ Buckets(p) <= Buckets(q)
<1>1. p \div 10 \in Nat /\ q \div 10 \in Nat /\ p \div 10 <= q \div 10
  OBVIOUS
<1>2. CASE p = q
  BY <1>1, <1>2 DEF Buckets
<1>3. CASE p < q
  <2>1. q % 10 = 0 => p \div 10 <= q \div 10 - 1
    BY <1>3
  <2>2. QED
    BY <1>1, <2>1 DEF Buckets
<1>4. QED
  BY <1>2, <1>3

(* Whoever is in the buckets of a percentage is in those of a larger one.  *)
LEMMA StaysInBucket ==
  ASSUME NEW p \in Nat, NEW q \in Nat, p <= q,
         NEW place \in Bucket, InBucket(place, p)
  PROVE  InBucket(place, q)
<1>1. place \in Int
  BY DEF Bucket
<1>2. QED
  BY <1>1, BucketsGrow DEF InBucket

LEMMA FlagTypes ==
  ASSUME RolloutTypeOK
  PROVE  /\ flag \in FlagType
         /\ flag.percentage \in Nat /\ flag.rule \in Rule
         /\ flag.rule.percentage \in Nat
         /\ user.flagPlace \in Bucket /\ user.rulePlace \in Bucket
<1>1. flag \in FlagType
  BY DEF RolloutTypeOK, FlagType
<1>2. flag.percentage \in Nat /\ flag.rule \in Rule
  BY <1>1, PercentagesAreNumbers DEF FlagType
<1>3. flag.rule.percentage \in Nat
  <2>1. CASE flag.rule = NoRule
    BY <2>1 DEF NoRule, Full
  <2>2. CASE flag.rule \in [matches : {TRUE}, percentage : Percentage,
                           variation : BOOLEAN]
    BY <2>2, PercentagesAreNumbers
  <2>3. QED
    BY <1>2, <2>1, <2>2 DEF Rule
<1>4. QED
  BY <1>1, <1>2, <1>3 DEF RolloutTypeOK
-----------------------------------------------------------------------------
LEMMA RolloutInvInit == RolloutInit => RolloutInv
<1>1. SUFFICES ASSUME RolloutInit PROVE RolloutInv
  OBVIOUS
<1>2. NoFlag \in FlagType /\ NoFlag.percentage = 0
  BY DEF NoFlag, FlagType, Rule
<1>3. user \in [flagPlace : Bucket, rulePlace : Bucket, rounded : SUBSET Percentage]
  BY <1>1 DEF RolloutInit, NoUser, Bucket
<1>4. stages \in Seq(Percentage) /\ Len(stages) = 0 /\ stage = 0 /\ flag = NoFlag
  BY <1>1 DEF RolloutInit
<1>5. QED
  BY <1>2, <1>3, <1>4 DEF RolloutInv, RolloutTypeOK, Increasing, FlagType

LEMMA StagesAreSequences ==
  ASSUME NEW s \in StageSeq
  PROVE  s \in Seq(Percentage)
<1>1. PICK n \in 1 .. Cardinality(Percentage) : s \in [1 .. n -> Percentage]
  BY DEF StageSeq
<1>2. n \in Nat
  BY PercentagesAreNumbers, FS_CardinalityType
<1>3. QED
  BY <1>1, <1>2

LEMMA DefineKeeps == RolloutInv /\ DefineFlag => RolloutInv'
<1>1. SUFFICES ASSUME RolloutInv, DefineFlag PROVE RolloutInv'
  OBVIOUS
<1>2. stage' = 0 /\ flag' \in FlagType /\ flag'.percentage = 0
  BY <1>1 DEF DefineFlag, FlagType
<1>3. stages' \in Seq(Percentage) /\ Increasing(stages')
  BY <1>1, StagesAreSequences DEF DefineFlag, ValidRollout, Increasing
<1>4. user' \in [flagPlace : Bucket, rulePlace : Bucket, rounded : SUBSET Percentage]
  BY <1>1, RolloutAssumption DEF DefineFlag
<1>5. Len(stages') \in Nat
  BY <1>3
<1>6. QED
  BY <1>2, <1>3, <1>4, <1>5 DEF RolloutInv, RolloutTypeOK, FlagType

(* The next stage has a larger percentage. *)
LEMMA NextStage ==
  ASSUME RolloutInv, AcceptStage
  PROVE  /\ stages[stage + 1] \in Percentage
         /\ flag.percentage <= stages[stage + 1]
         /\ stage + 1 \in 1 .. Len(stages)
<1>1. /\ stages \in Seq(Percentage) /\ stage \in Nat /\ Len(stages) \in Nat
      /\ stage < Len(stages)
  BY DEF RolloutInv, RolloutTypeOK, AcceptStage
<1>2. stages[stage + 1] \in Percentage /\ stages[stage + 1] \in Nat
  BY <1>1, PercentagesAreNumbers
<1>3. CASE stage = 0
  BY <1>1, <1>2, <1>3 DEF RolloutInv
<1>4. CASE stage # 0
  <2>1. stage + 1 \in 2 .. Len(stages) /\ (stage + 1) - 1 = stage
    BY <1>1, <1>4
  <2>2. stages[stage] < stages[stage + 1]
    BY <2>1 DEF RolloutInv, Increasing
  <2>3. stages[stage] \in Nat
    BY <1>1, <1>4, PercentagesAreNumbers
  <2>4. QED
    BY <1>1, <1>2, <1>4, <2>2, <2>3 DEF RolloutInv
<1>5. QED
  BY <1>3, <1>4

LEMMA AcceptKeeps == RolloutInv /\ AcceptStage => RolloutInv'
<1>1. SUFFICES ASSUME RolloutInv, AcceptStage PROVE RolloutInv'
  OBVIOUS
<1>2. /\ stage' = stage + 1 /\ stages' = stages /\ user' = user
      /\ flag' = [flag EXCEPT !.percentage = stages[stage + 1]]
  BY <1>1 DEF AcceptStage
<1>3. flag' \in FlagType /\ flag'.percentage = stages[stage + 1]
  BY <1>1, <1>2, NextStage, FlagTypes DEF RolloutInv, FlagType
<1>4. stage' \in 0 .. Len(stages') /\ stage' # 0
  BY <1>1, <1>2, NextStage DEF RolloutInv, RolloutTypeOK
<1>5. QED
  BY <1>1, <1>2, <1>3, <1>4 DEF RolloutInv, RolloutTypeOK, FlagType

LEMMA WidenKeeps ==
  ASSUME RolloutInv, NEW percentage \in Percentage, WidenRule(percentage)
  PROVE  /\ RolloutInv' /\ flag'.rule.percentage = percentage
         /\ flag'.rule.matches /\ flag'.rule.variation = flag.rule.variation
<1> DEFINE rule == [flag.rule EXCEPT !.percentage = percentage]
<1>1. flag \in FlagType /\ flag.rule.matches /\ flag.rule \in Rule
  BY FlagTypes DEF RolloutInv, WidenRule
<1>2. flag' = [flag EXCEPT !.rule = rule]
      /\ stage' = stage /\ stages' = stages /\ user' = user
  BY DEF WidenRule
<1>3. flag.rule \in [matches : {TRUE}, percentage : Percentage, variation : BOOLEAN]
  <2>1. flag.rule # NoRule
    BY <1>1 DEF NoRule
  <2>2. QED
    BY <1>1, <2>1 DEF Rule
<1>4. rule \in [matches : {TRUE}, percentage : Percentage, variation : BOOLEAN]
      /\ rule.percentage = percentage /\ rule.matches
      /\ rule.variation = flag.rule.variation
  BY <1>3
<1>5. rule \in Rule
  BY <1>4 DEF Rule
<1> HIDE DEF rule
<1>6. flag' \in FlagType /\ flag'.rule = rule /\ flag'.percentage = flag.percentage
  BY <1>1, <1>2, <1>5 DEF FlagType
<1>7. QED
  BY <1>2, <1>4, <1>6 DEF RolloutInv, RolloutTypeOK, FlagType

LEMMA RolloutInvNext == RolloutInv /\ [RolloutNext]_rolloutVars => RolloutInv'
<1>1. SUFFICES ASSUME RolloutInv, [RolloutNext]_rolloutVars PROVE RolloutInv'
  OBVIOUS
<1>2. CASE UNCHANGED rolloutVars
  BY <1>1, <1>2 DEF rolloutVars, RolloutInv, RolloutTypeOK
<1>3. CASE DefineFlag
  BY <1>1, <1>3, DefineKeeps
<1>4. CASE AcceptStage
  BY <1>1, <1>4, AcceptKeeps
<1>5. ASSUME NEW percentage \in Percentage, WidenRule(percentage) PROVE RolloutInv'
  BY <1>1, <1>5, WidenKeeps
<1>6. CASE RejectStage
  <2>1. flag' \in FlagType /\ flag'.percentage = flag.percentage
    BY <1>1, <1>6, FlagTypes DEF RejectStage, FlagType, RolloutInv
  <2>2. QED
    BY <1>1, <1>6, <2>1 DEF RejectStage, RolloutInv, RolloutTypeOK, FlagType
<1>7. QED
  BY <1>1, <1>2, <1>3, <1>4, <1>5, <1>6 DEF RolloutNext

(* The percentage of the flag is that of the stage the rollout is in, and  *)
(* the stages ValidateRollout accepted increase.                           *)
THEOREM RolloutSound == RolloutSpec => []RolloutInv
<1>1. QED
  BY RolloutInvInit, RolloutInvNext, PTL DEF RolloutSpec

(* Stages, buckets and flags are well typed while a rollout grows.         *)
THEOREM RolloutTypeCorrect == RolloutSpec => []RolloutTypeOK
<1>1. RolloutInv => RolloutTypeOK
  BY DEF RolloutInv
<1>2. QED
  BY <1>1, RolloutSound, PTL

(* Evaluate never takes a feature from a user who has it while the stages  *)
(* of a rollout that ValidateRollout accepts are passed.                   *)
THEOREM RolloutNeverSwitchesOff == RolloutSpec => NeverSwitchedOff
<1>1. ASSUME RolloutInv, [RolloutNext]_rolloutVars
      PROVE  [Evaluate(flag) /\ flag'.enabled => Evaluate(flag)']_rolloutVars
  <2>1. SUFFICES ASSUME RolloutNext, Evaluate(flag), flag'.enabled
                 PROVE  Evaluate(flag)'
    BY <1>1
  <2>2. flag.enabled
    BY <2>1 DEF Evaluate
  <2>3. ~DefineFlag /\ ~RejectStage
    <3>1. ~DefineFlag
      <4>1. NoFlag.enabled = FALSE
        BY DEF NoFlag
      <4>2. QED
        BY <2>2, <4>1 DEF DefineFlag
    <3>2. RejectStage => flag'.enabled = FALSE
      BY <1>1, FlagTypes DEF RejectStage, RolloutInv, FlagType
    <3>3. QED
      BY <3>1, <3>2, <2>1
  <2>4. CASE AcceptStage
    <3>1. flag' = [flag EXCEPT !.percentage = stages[stage + 1]] /\ user' = user
      BY <2>4 DEF AcceptStage
    <3>2. flag'.rule = flag.rule /\ flag'.defaultOn = flag.defaultOn
          /\ flag'.percentage = stages[stage + 1]
      BY <1>1, <3>1, FlagTypes DEF RolloutInv, FlagType
    <3>3. /\ flag.percentage \in Nat /\ flag'.percentage \in Nat
          /\ flag.percentage <= flag'.percentage
      BY <1>1, <2>4, <3>2, NextStage, FlagTypes, PercentagesAreNumbers DEF RolloutInv
    <3>4. flag.percentage >= Full => flag'.percentage >= Full
      BY <3>3 DEF Full
    <3>5. InBucket(user.flagPlace, flag.percentage)
            => InBucket(user.flagPlace, flag'.percentage)
      BY <1>1, <3>3, FlagTypes, StaysInBucket DEF RolloutInv
    <3>6. \A place, p : InBucket(place, p)' <=> InBucket(place, p)
      BY <3>1 DEF InBucket, Buckets
    <3>7. QED
      BY <2>1, <3>1, <3>2, <3>4, <3>5 DEF Evaluate, InBucket, Buckets
  <2>5. ASSUME NEW percentage \in Percentage, WidenRule(percentage)
        PROVE  Evaluate(flag)'
    <3>1. percentage = Full
      BY <2>5 DEF WidenRule, ValidRollout
    <3>2. /\ flag'.rule.percentage = Full /\ flag'.rule.matches
          /\ flag'.rule.variation
      BY <1>1, <2>5, <3>1, WidenKeeps DEF WidenRule
    <3>3. QED
      BY <2>1, <3>2 DEF Evaluate, Full
  <2>6. QED
    BY <2>1, <2>3, <2>4, <2>5 DEF RolloutNext
<1>2. QED
  BY <1>1, RolloutSound, PTL DEF RolloutSpec, NeverSwitchedOff

-----------------------------------------------------------------------------
(***************************************************************************)
(* What holds of a concept for every number of authors and of versions.    *)
(* A proposal is one version ahead of what its author read; versions only  *)
(* grow, so a read of the present version is a read of the present text.   *)
(***************************************************************************)

Proposal == [version : 0 .. MaxVersions, read : Concept,
             status : Status \cup {"unchanged"}]

(* What the author of p read, against the concept of today. *)
ProposalOK(p) ==
  p.version # 0 =>
    /\ p.version = p.read.version + 1
    /\ p.read.version <= concept.version
    /\ p.read.version = concept.version => p.read = concept

KnowledgeInv ==
  /\ concept \in Concept
  /\ proposal \in [Author -> Proposal]
  /\ \A w \in Author : ProposalOK(proposal[w])
-----------------------------------------------------------------------------
LEMMA KnowledgeInvInit == KnowledgeInit => KnowledgeInv
<1>1. SUFFICES ASSUME KnowledgeInit PROVE KnowledgeInv
  OBVIOUS
<1>2. NoConcept \in Concept
  BY KnowledgeAssumption DEF NoConcept, Concept, Status
<1>3. NoProposal \in Proposal /\ NoProposal.version = 0
  BY <1>2, KnowledgeAssumption DEF NoProposal, Proposal
<1>4. concept \in Concept /\ proposal \in [Author -> Proposal]
  BY <1>1, <1>2, <1>3 DEF KnowledgeInit
<1>5. \A w \in Author : proposal[w] = NoProposal
  BY <1>1 DEF KnowledgeInit
<1>6. QED
  BY <1>3, <1>4, <1>5 DEF KnowledgeInv, ProposalOK

LEMMA ProposeKeeps ==
  ASSUME KnowledgeInv, NEW w \in Author, NEW st \in Status \cup {"unchanged"},
         Propose(w, st)
  PROVE  KnowledgeInv'
<1> DEFINE p == [version |-> concept.version + 1, status |-> st, read |-> concept]
<1>1. concept \in Concept /\ proposal \in [Author -> Proposal]
  BY DEF KnowledgeInv
<1>2. concept' = concept /\ proposal' = [proposal EXCEPT ![w] = p]
  BY DEF Propose
<1>3. concept.version \in Nat /\ concept.version < MaxVersions
  BY <1>1 DEF Concept, Propose
<1>4. concept.version + 1 \in 0 .. MaxVersions
  BY <1>3, KnowledgeAssumption
<1>5. p \in Proposal
  BY <1>1, <1>4 DEF Proposal
<1>6. ProposalOK(p)'
  BY <1>2, <1>3 DEF ProposalOK
<1> HIDE DEF p
<1>7. proposal' \in [Author -> Proposal]
  BY <1>1, <1>2, <1>5
<1>8. ASSUME NEW v \in Author PROVE ProposalOK(proposal[v])'
  <2>1. CASE v = w
    <3>1. proposal'[v] = p
      BY <2>1, <1>1, <1>2
    <3>2. QED
      BY <3>1, <1>2, <1>6 DEF ProposalOK, p
  <2>2. CASE v # w
    <3>1. proposal'[v] = proposal[v]
      BY <2>2, <1>1, <1>2
    <3>2. ProposalOK(proposal[v])
      BY DEF KnowledgeInv
    <3>3. QED
      BY <3>1, <3>2, <1>2 DEF ProposalOK
  <2>3. QED
    BY <2>1, <2>2
<1>9. QED
  BY <1>1, <1>2, <1>7, <1>8 DEF KnowledgeInv

(* The text that is replaced is the one the author read. *)
LEMMA AppliedWasRead ==
  ASSUME KnowledgeInv, NEW w \in Author, NEW method \in Method,
         ApplyProposal(w, method)
  PROVE  /\ proposal[w].version = concept.version + 1
         /\ proposal[w].read = concept
         /\ concept'.version = concept.version + 1 /\ concept'.body = w
         /\ concept' \in Concept
<1>1. concept \in Concept /\ proposal[w] \in Proposal /\ ProposalOK(proposal[w])
  BY DEF KnowledgeInv
<1>2. concept.version \in Nat /\ proposal[w].version = concept.version + 1
  BY <1>1 DEF Concept, ApplyProposal, Advances
<1>3. proposal[w].read \in Concept /\ proposal[w].version \in 0 .. MaxVersions
      /\ proposal[w].status \in Status \cup {"unchanged"}
  BY <1>1 DEF Proposal
<1>4. proposal[w].read.version \in Nat
  BY <1>3 DEF Concept
<1>5. proposal[w].read = concept
  BY <1>1, <1>2, <1>4 DEF ProposalOK
<1>6. concept' = [version |-> proposal[w].version,
                  status |-> StatusAfter(proposal[w]), body |-> w]
  BY DEF ApplyProposal
<1>7. StatusAfter(proposal[w]) \in Status
  BY <1>1, <1>3 DEF StatusAfter, Concept, Status
<1>8. concept'.version = proposal[w].version /\ concept'.body = w
  BY <1>6
<1>9. concept' \in Concept
  BY <1>3, <1>6, <1>7 DEF Concept
<1>10. QED
  BY <1>2, <1>5, <1>8, <1>9

LEMMA ApplyKeeps ==
  ASSUME KnowledgeInv, NEW w \in Author, NEW method \in Method,
         ApplyProposal(w, method)
  PROVE  KnowledgeInv'
<1>1. concept \in Concept /\ proposal \in [Author -> Proposal]
  BY DEF KnowledgeInv
<1>2. concept'.version = concept.version + 1 /\ concept' \in Concept
  BY AppliedWasRead
<1>3. concept.version \in Nat
  BY <1>1 DEF Concept
<1>4. NoConcept \in Concept /\ NoProposal \in Proposal /\ NoProposal.version = 0
  <2>1. NoConcept \in Concept
    BY KnowledgeAssumption DEF NoConcept, Concept, Status
  <2>2. QED
    BY <2>1, KnowledgeAssumption DEF NoProposal, Proposal
<1>5. proposal' = proposal \/ proposal' = [proposal EXCEPT ![w] = NoProposal]
  BY DEF ApplyProposal
<1>6. proposal' \in [Author -> Proposal]
  BY <1>1, <1>4, <1>5
<1>7. ASSUME NEW v \in Author PROVE ProposalOK(proposal[v])'
  <2>1. CASE proposal'[v] = proposal[v]
    <3>1. ProposalOK(proposal[v]) /\ proposal[v] \in Proposal
      BY DEF KnowledgeInv
    <3>2. proposal[v].read.version \in Nat
      BY <3>1 DEF Proposal, Concept
    <3>3. QED
      BY <2>1, <3>1, <3>2, <1>2, <1>3 DEF ProposalOK
  <2>2. CASE proposal'[v] = NoProposal
    BY <2>2, <1>4 DEF ProposalOK
  <2>3. QED
    BY <2>1, <2>2, <1>1, <1>5
<1>8. QED
  BY <1>2, <1>6, <1>7 DEF KnowledgeInv

LEMMA KnowledgeInvNext ==
  KnowledgeInv /\ [KnowledgeNext]_knowledgeVars => KnowledgeInv'
<1>1. SUFFICES ASSUME KnowledgeInv, [KnowledgeNext]_knowledgeVars
               PROVE  KnowledgeInv'
  OBVIOUS
<1>2. CASE UNCHANGED knowledgeVars
  BY <1>1, <1>2 DEF knowledgeVars, KnowledgeInv, ProposalOK
<1>3. ASSUME NEW w \in Author, NEW st \in Status \cup {"unchanged"}, Propose(w, st)
      PROVE  KnowledgeInv'
  BY <1>1, <1>3, ProposeKeeps
<1>4. ASSUME NEW w \in Author, NEW method \in Method, ApplyProposal(w, method)
      PROVE  KnowledgeInv'
  BY <1>1, <1>4, ApplyKeeps
<1>5. QED
  BY <1>1, <1>2, <1>3, <1>4 DEF KnowledgeNext

(* Every proposal is one version ahead of what its author read.            *)
THEOREM KnowledgeSound == KnowledgeSpec => []KnowledgeInv
<1>1. QED
  BY KnowledgeInvInit, KnowledgeInvNext, PTL DEF KnowledgeSpec

(* The concept and every proposal are well formed, whoever applies what.   *)
THEOREM KnowledgeTypeCorrect == KnowledgeSpec => []KnowledgeTypeOK
<1>1. KnowledgeInv => KnowledgeTypeOK
  BY DEF KnowledgeInv, KnowledgeTypeOK, Proposal
<1>2. QED
  BY <1>1, KnowledgeSound, PTL

(* Apply never replaces a text its author did not have before their eyes,  *)
(* for every number of authors: the check of the version suffices.         *)
THEOREM UpdatesAreRead == KnowledgeSpec => NoLostUpdate
<1>1. KnowledgeInv /\ [KnowledgeNext]_knowledgeVars
        => [concept' # concept => proposal[concept'.body].read = concept]_knowledgeVars
  <2>1. SUFFICES ASSUME KnowledgeInv, KnowledgeNext, concept' # concept
                 PROVE  proposal[concept'.body].read = concept
    OBVIOUS
  <2>2. ASSUME NEW w \in Author, NEW st \in Status \cup {"unchanged"}, Propose(w, st)
        PROVE  FALSE
    BY <2>1, <2>2 DEF Propose
  <2>3. ASSUME NEW w \in Author, NEW method \in Method, ApplyProposal(w, method)
        PROVE  proposal[concept'.body].read = concept
    BY <2>1, <2>3, AppliedWasRead
  <2>4. QED
    BY <2>1, <2>2, <2>3 DEF KnowledgeNext
<1>2. QED
  BY <1>1, KnowledgeSound, PTL DEF KnowledgeSpec, NoLostUpdate

-----------------------------------------------------------------------------
(***************************************************************************)
(* The intake of issues, for any board and any length of history.  A       *)
(* proposed command is either behind the item, or fits it as it stands.    *)
(***************************************************************************)

(* The command c leads item from where it is. *)
Fits(c) ==
  \/ /\ item = EmptyItem
     /\ c.type = "submit_work"
     /\ c.to = "inbox"
  \/ /\ item # EmptyItem
     /\ <<item.state, c.type, c.to>> \in StepCommand

ProposedOK ==
  proposed # NoCommand =>
    /\ proposed.expected <= item.version
    /\ proposed.expected = item.version => Fits(proposed)

ItemType == [state : State \cup {NoState}, resume : State \cup {NoState},
             version : 0 .. MaxHistory]

CommandRecord == [type : CommandType \cup {"none"}, from : State \cup {NoState},
                  to : State \cup {NoState}, expected : Nat]

IntakeInv ==
  /\ IntakeTypeOK
  /\ item.version = 0 <=> item = EmptyItem
  /\ ProposedOK

(* The table of Reconcile is within the table of the workflow. *)
LEMMA StepsAreTransitions == StepCommand \subseteq Transitions
<1>1. Steps \subseteq Transitions
  BY DEF Steps, Transitions
<1>2. {<<s, "block", "blocked">> : s \in Blockable} \subseteq Transitions
  BY DEF Blockable, Transitions
<1>3. {<<s, "cancel", "cancelled">> : s \in Cancellable} \subseteq Transitions
  BY DEF Cancellable, Transitions
<1>4. QED
  BY <1>1, <1>2, <1>3 DEF StepCommand

(* What Reconcile answers is typed, names the item's version and fits it. *)
LEMMA ReconcileFits ==
  ASSUME IntakeTypeOK, NEW c \in Reconcile
  PROVE  /\ c \in CommandRecord
         /\ c.expected = item.version
         /\ Fits(c)
<1>1. item.version \in Nat
  BY IntakeAssumption DEF IntakeTypeOK
<1>2. CASE item = EmptyItem
  <2>1. c = [type |-> "submit_work", from |-> NoState, to |-> "inbox",
             expected |-> 0]
    BY <1>2 DEF Reconcile
  <2>2. "submit_work" \in CommandType /\ "inbox" \in State
    BY DEF CommandType, State
  <2>3. QED
    BY <1>2, <2>1, <2>2 DEF CommandRecord, Fits, EmptyItem
<1>3. CASE item # EmptyItem
  <2>1. PICK t \in StepCommand :
          /\ t[1] = item.state
          /\ c = [type |-> t[2], from |-> t[1], to |-> t[3],
                  expected |-> item.version]
    BY <1>3 DEF Reconcile
  <2>2. /\ t = <<t[1], t[2], t[3]>>
        /\ t[1] \in State /\ t[2] \in CommandType /\ t[3] \in State
    BY StepsAreTransitions, TableRows
  <2>3. c.type = t[2] /\ c.to = t[3] /\ c.from = t[1] /\ c.expected = item.version
    BY <2>1
  <2>4. <<item.state, c.type, c.to>> \in StepCommand
    BY <2>1, <2>2, <2>3
  <2>5. c \in CommandRecord
    BY <1>1, <2>1, <2>2 DEF CommandRecord
  <2>6. QED
    BY <1>3, <2>3, <2>4, <2>5 DEF Fits
<1>4. QED
  BY <1>2, <1>3

(* One step of the workflow leaves a typed item, one version on. *)
LEMMA ItemMoves ==
  ASSUME IntakeTypeOK, NEW c, NEW e \in Handle(item, c), item.version < MaxHistory
  PROVE  /\ Replay(item, e) \in ItemType
         /\ Replay(item, e).version = item.version + 1
         /\ Replay(item, e) # EmptyItem
<1>1. item \in WorkItem /\ item.version \in Nat
  BY IntakeAssumption DEF IntakeTypeOK, WorkItem
<1>2. Replay(item, e) \in WorkItem /\ Replay(item, e).version = item.version + 1
  BY <1>1, ReplayHandled
<1>3. Replay(item, e).version \in 0 .. MaxHistory
  BY <1>1, <1>2, IntakeAssumption
<1>4. QED
  BY <1>1, <1>2, <1>3 DEF WorkItem, ItemType, EmptyItem

LEMMA IntakeInvInit == IntakeInit => IntakeInv
BY IntakeAssumption
   DEF IntakeInit, IntakeInv, IntakeTypeOK, ProposedOK, EmptyItem, NoCommand, NoState

(* Once the item has moved, what was proposed is behind it. *)
LEMMA MovedOn ==
  ASSUME IntakeInv, item' \in ItemType, item'.version = item.version + 1,
         item' # EmptyItem, proposed' \in {proposed, NoCommand},
         UNCHANGED <<issue, status>>
  PROVE  IntakeInv'
<1>1. item.version \in Nat /\ (proposed # NoCommand => proposed.expected \in Nat)
  BY IntakeAssumption DEF IntakeInv, IntakeTypeOK
<1>2. NoCommand \in CommandRecord
  BY DEF NoCommand, CommandRecord
<1>3. IntakeTypeOK'
  BY <1>2 DEF IntakeInv, IntakeTypeOK, ItemType, CommandRecord
<1>4. ProposedOK'
  <2>1. CASE proposed' = NoCommand
    BY <2>1 DEF ProposedOK
  <2>2. CASE proposed' = proposed /\ proposed # NoCommand
    BY <1>1, <2>2 DEF IntakeInv, ProposedOK
  <2>3. QED
    BY <2>1, <2>2
<1>5. QED
  BY <1>1, <1>3, <1>4 DEF IntakeInv

LEMMA IntakeInvNext == IntakeInv /\ [IntakeNext]_intakeVars => IntakeInv'
<1> SUFFICES ASSUME IntakeInv, [IntakeNext]_intakeVars PROVE IntakeInv'
  OBVIOUS
<1>1. ASSUME UNCHANGED item, UNCHANGED proposed,
             issue' \in {"open", "closed"}, status' \in Board \cup {NoState}
      PROVE  IntakeInv'
  BY <1>1 DEF IntakeInv, IntakeTypeOK, ProposedOK, Fits
<1>2. CASE ReadBoth
  <2>1. PICK c \in Reconcile : proposed' = c
    BY <1>2 DEF ReadBoth
  <2>2. c \in CommandRecord /\ c.expected = item.version /\ Fits(c)
    BY ReconcileFits DEF IntakeInv
  <2>3. UNCHANGED <<item, issue, status>>
    BY <1>2 DEF ReadBoth
  <2>4. IntakeTypeOK'
    BY <2>1, <2>2, <2>3 DEF IntakeInv, IntakeTypeOK, CommandRecord
  <2>5. item.version \in Nat
    BY IntakeAssumption DEF IntakeInv, IntakeTypeOK
  <2>6. ProposedOK'
    BY <2>1, <2>2, <2>3, <2>5 DEF ProposedOK, Fits
  <2>7. QED
    BY <2>3, <2>4, <2>6 DEF IntakeInv
<1>3. CASE ApplyProposed
  <2> DEFINE events == IF StepId(proposed) \in used THEN {}
                       ELSE Handle(item, AsCommand(proposed, "automation"))
  <2>1. /\ events # {} => item.version < MaxHistory
        /\ item' = IF events = {} THEN item
                   ELSE CHOOSE i \in {Replay(item, e) : e \in events} : TRUE
        /\ proposed' \in {proposed, NoCommand}
        /\ UNCHANGED <<issue, status>>
    BY <1>3 DEF ApplyProposed
  <2>2. events # {} => events = Handle(item, AsCommand(proposed, "automation"))
    OBVIOUS
  <2> HIDE DEF events
  <2>3. CASE events = {}
    <3>1. item' = item
      BY <2>1, <2>3
    <3>2. NoCommand \in CommandRecord
      BY DEF NoCommand, CommandRecord
    <3>3. IntakeTypeOK'
      BY <2>1, <3>1, <3>2 DEF IntakeInv, IntakeTypeOK, CommandRecord
    <3>4. ProposedOK'
      BY <2>1, <3>1 DEF IntakeInv, ProposedOK, Fits
    <3>5. QED
      BY <3>1, <3>3, <3>4 DEF IntakeInv
  <2>4. CASE events # {}
    <3> DEFINE items == {Replay(item, e) : e \in events}
    <3>1. items # {}
      BY <2>4
    <3>2. item' \in items
      <4> HIDE DEF items
      <4>1. item' = CHOOSE i \in items : TRUE
        BY <2>1, <2>4 DEF items
      <4>2. QED
        BY <3>1, <4>1
    <3>3. PICK e \in events : item' = Replay(item, e)
      BY <3>2
    <3>4. e \in Handle(item, AsCommand(proposed, "automation"))
      BY <2>2, <2>4
    <3>5. /\ item' \in ItemType
          /\ item'.version = item.version + 1
          /\ item' # EmptyItem
      BY <2>1, <2>4, <3>3, <3>4, ItemMoves DEF IntakeInv
    <3>6. QED
      BY <2>1, <3>5, MovedOn
  <2>5. QED
    BY <2>3, <2>4
<1>4. ASSUME NEW type \in CommandType, OperatorMoves(type) PROVE IntakeInv'
  <2> DEFINE c == [id |-> <<>>, actor |-> "operator", type |-> type,
                   expected |-> item.version, reason |-> TRUE]
  <2>1. PICK e \in Handle(item, c) : item' = Replay(item, e)
    BY <1>4 DEF OperatorMoves
  <2>2. item.version < MaxHistory /\ UNCHANGED <<issue, status, proposed>>
    BY <1>4 DEF OperatorMoves
  <2> HIDE DEF c
  <2>3. /\ item' \in ItemType
        /\ item'.version = item.version + 1
        /\ item' # EmptyItem
    BY <2>1, <2>2, ItemMoves DEF IntakeInv
  <2>4. QED
    BY <2>2, <2>3, MovedOn
<1>5. ASSUME NEW to \in Board, BoardMoves(to) PROVE IntakeInv'
  BY <1>1, <1>5 DEF BoardMoves, IntakeInv, IntakeTypeOK
<1>6. CASE IssueMoves
  BY <1>1, <1>6 DEF IssueMoves, IntakeInv, IntakeTypeOK
<1>7. CASE UNCHANGED intakeVars
  BY <1>1, <1>7 DEF intakeVars, IntakeInv, IntakeTypeOK
<1>8. QED
  BY <1>2, <1>3, <1>4, <1>5, <1>6, <1>7 DEF IntakeNext

(* The invariant of the intake, which the theorems below follow from. *)
THEOREM IntakeSound == IntakeSpec => []IntakeInv
<1>1. QED
  BY IntakeInvInit, IntakeInvNext, PTL DEF IntakeSpec

(* A typed item never has a history longer than its bound, and a proposed  *)
(* command is one of the workflow's.                                       *)
THEOREM IntakeTypeCorrect == IntakeSpec => []IntakeTypeOK
<1>1. IntakeInv => IntakeTypeOK
  BY DEF IntakeInv
<1>2. QED
  BY <1>1, IntakeSound, PTL

(* A command that fits leads where it says, and nowhere else. *)
LEMMA FitsLeads ==
  ASSUME IntakeInv, NEW c, Fits(c)
  PROVE  Targets(item, c.type) = {c.to}
<1>1. CASE item = EmptyItem /\ c.type = "submit_work" /\ c.to = "inbox"
  BY <1>1, TableRows DEF Targets, State
<1>2. CASE item # EmptyItem /\ <<item.state, c.type, c.to>> \in StepCommand
  <2> DEFINE t == <<item.state, c.type, c.to>>
  <2>1. t \in Transitions
    BY <1>2, StepsAreTransitions
  <2>2. /\ item.state \notin Terminal
        /\ c.type \notin {"submit_work", "resolve_block"}
        /\ c.to \in State
    BY <2>1, TableRows
  <2>3. ASSUME NEW to, <<item.state, c.type, to>> \in Transitions PROVE to = c.to
    BY <2>1, <2>3, TableIsAFunction
  <2>4. QED
    BY <2>1, <2>2, <2>3 DEF Targets
<1>3. QED
  BY <1>1, <1>2 DEF Fits

(* What Reconcile proposed, the workflow accepts as long as the item has   *)
(* not moved, and takes the item where the board says; afterwards it is    *)
(* refused.                                                                *)
THEOREM IntakeAlwaysFits == IntakeSpec => []IntakeFits
<1>1. ASSUME IntakeInv, proposed # NoCommand
      PROVE  {e.to : e \in Handle(item, AsCommand(proposed, "automation"))}
               = IF item.version = proposed.expected THEN {proposed.to} ELSE {}
  <2> DEFINE c == AsCommand(proposed, "automation")
  <2>1. c.type = proposed.type /\ c.expected = proposed.expected /\ c.reason = TRUE
    BY DEF AsCommand
  <2> HIDE DEF c
  <2>2. CASE item.version # proposed.expected
    <3>1. Handle(item, c) = {}
      BY <2>1, <2>2 DEF Handle, Validated
    <3>2. QED
      BY <2>2, <3>1 DEF c
  <2>3. CASE item.version = proposed.expected
    <3>1. Fits(proposed)
      BY <1>1, <2>3 DEF IntakeInv, ProposedOK
    <3>2. Targets(item, c.type) = {proposed.to}
      BY <1>1, <2>1, <3>1, FitsLeads
    <3>3. Validated(item, c)
      BY <2>1, <2>3, <3>1 DEF Validated, Fits
    <3>4. {e.to : e \in Handle(item, c)} = {proposed.to}
      <4>1. item \in WorkItem
        BY <1>1, IntakeAssumption DEF IntakeInv, IntakeTypeOK, WorkItem
      <4>2. \A e \in Handle(item, c) : e.to = proposed.to
        BY <3>2, <4>1, HandleSound
      <4>3. Handle(item, c) # {}
        BY <3>2, <3>3 DEF Handle
      <4>4. QED
        BY <4>2, <4>3
    <3>5. QED
      BY <2>3, <3>4 DEF c
  <2>4. QED
    BY <2>2, <2>3
<1>2. IntakeInv => IntakeFits
  BY <1>1 DEF IntakeFits
<1>3. QED
  BY <1>2, IntakeSound, PTL
-----------------------------------------------------------------------------
(***************************************************************************)
(* The five packages side by side.  Each step is one of one of them and    *)
(* leaves the variables of the others alone, so that a behaviour of the    *)
(* composition is a behaviour of each, and what was proved of each holds.  *)
(***************************************************************************)
LEMMA LeasesAlone == Spec => LeaseSpec
<1>1. Init => LeaseInit
  BY DEF Init
<1>2. [Next]_vars => [LeaseNext]_leaseVars
  BY DEF Next, vars, LeaseMoves, CallsMove, RolloutMoves, IntakeMoves, KnowledgeMoves
<1>3. QED
  BY <1>1, <1>2, PTL DEF Spec, LeaseSpec

LEMMA CallsAlone == Spec => CallsSpec
<1>1. Init => CallsInit
  BY DEF Init
<1>2. [Next]_vars => [CallsNext]_callVars
  BY DEF Next, vars, LeaseMoves, CallsMove, RolloutMoves, IntakeMoves, KnowledgeMoves
<1>3. QED
  BY <1>1, <1>2, PTL DEF Spec, CallsSpec

LEMMA RolloutAlone == Spec => RolloutSpec
<1>1. Init => RolloutInit
  BY DEF Init
<1>2. [Next]_vars => [RolloutNext]_rolloutVars
  BY DEF Next, vars, LeaseMoves, CallsMove, RolloutMoves, IntakeMoves, KnowledgeMoves
<1>3. QED
  BY <1>1, <1>2, PTL DEF Spec, RolloutSpec

LEMMA IntakeAlone == Spec => IntakeSpec
<1>1. Init => IntakeInit
  BY DEF Init
<1>2. [Next]_vars => [IntakeNext]_intakeVars
  BY DEF Next, vars, LeaseMoves, CallsMove, RolloutMoves, IntakeMoves, KnowledgeMoves
<1>3. QED
  BY <1>1, <1>2, PTL DEF Spec, IntakeSpec

LEMMA KnowledgeAlone == Spec => KnowledgeSpec
<1>1. Init => KnowledgeInit
  BY DEF Init
<1>2. [Next]_vars => [KnowledgeNext]_knowledgeVars
  BY DEF Next, vars, LeaseMoves, CallsMove, RolloutMoves, IntakeMoves, KnowledgeMoves
<1>3. QED
  BY <1>1, <1>2, PTL DEF Spec, KnowledgeSpec

(* The composition of the libraries keeps every variable within its type.  *)
THEOREM LibrariesTypeCorrect == Spec => []LibTypeOK
<1>1. LeaseTypeOK /\ CallsTypeOK /\ RolloutTypeOK /\ IntakeTypeOK /\ KnowledgeTypeOK
        => LibTypeOK
  BY DEF LibTypeOK
<1>2. QED
  BY <1>1, LeasesAlone, CallsAlone, RolloutAlone, IntakeAlone, KnowledgeAlone,
     LeaseTypeCorrect, CallsTypeCorrect, RolloutTypeCorrect, IntakeTypeCorrect,
     KnowledgeTypeCorrect, PTL
=============================================================================
