---------------------------- MODULE RemoteCalls -----------------------------
(***************************************************************************)
(* The calls internal/githublive and internal/coolify make to servers that *)
(* may fail before or after they did what was asked.                       *)
(*                                                                         *)
(* A githublive call is sent up to maxAttempts times, as long as the       *)
(* answer is one of the statuses of retryable; a coolify call once.  The   *)
(* body of a request is read from one reader made before the first         *)
(* attempt, which is at its end from then on: later attempts carry none.   *)
(* No call carries an idempotency key.                                     *)
(*                                                                         *)
(* The servers are external.  One refuses a POST without its document;     *)
(* a merge needs none (merge is the default method) and happens once.      *)
(***************************************************************************)
EXTENDS Naturals

CONSTANTS Caller,       \* who makes calls, one at a time each
          MaxAttempts   \* maxAttempts

ASSUME AttemptsAssumption == MaxAttempts \in Nat \ {0}

VARIABLES call,     \* call[c]: the call of c under way, or its last one
          merged    \* the pull request is merged

callVars == <<call, merged>>

Post == {"open_pr", "create_release", "deploy", "rollback"}
CallOp == Post \cup {"merge_pr", "read"}

(* What an answer is: a document as expected, another document with a 2xx  *)
(* status, a retryable status, any other status, no answer at all.         *)
AnswerKind == {"done", "other", "busy", "refused", "lost"}

Phase == {"idle", "sent", "answered", "waiting", "ok", "error"}

Idle == [op |-> "read", phase |-> "idle", attempt |-> 0, answer |-> "lost",
         flying |-> FALSE, effects |-> 0]

CallsInit ==
  /\ call = [c \in Caller |-> Idle]
  /\ merged = FALSE

(* Mutant of Attempts: the last attempt is followed by one more.           *)
AttemptsAndOne(op) ==
  IF op \in {"deploy", "rollback"} THEN 1 ELSE MaxAttempts + 1

(* How often a call is sent at most: githublive retries, coolify does not. *)
Attempts(op) == IF op \in {"deploy", "rollback"} THEN 1 ELSE MaxAttempts

(* Mutant of HasBody: every attempt makes a reader of its own.             *)
HasBodyAlways(c) == TRUE

(* The request of c under way carries the document that describes it. *)
HasBody(c) == call[c].attempt = 1

CallInFlight(c) == call[c].phase \in {"sent", "answered", "waiting"}
-----------------------------------------------------------------------------
Call(c, op) ==
  /\ ~CallInFlight(c)
  /\ call' = [call EXCEPT ![c] = [Idle EXCEPT !.op = op, !.phase = "sent",
                                              !.attempt = 1, !.flying = TRUE]]
  /\ UNCHANGED merged

(* The server is done with the request; the caller may have left by then.  *)
Answered(c, did, kinds) ==
  LET r == call[c]
  IN  \E kind \in kinds :
        call' = [call EXCEPT ![c] =
          [r EXCEPT !.flying  = FALSE,
                    !.effects = r.effects + did,
                    !.answer  = kind,
                    !.phase   = IF r.phase = "sent" THEN "answered" ELSE r.phase]]

(* It does what is asked, and then answers, fails to, or is not heard. *)
Executes(c) ==
  /\ call[c].flying
  /\ \/ call[c].op \in Post /\ HasBody(c) /\ UNCHANGED merged
     \/ call[c].op = "merge_pr" /\ ~merged /\ merged' = TRUE
  /\ Answered(c, 1, AnswerKind \ {"refused"})

(* It does nothing: a read, a request it does not understand or cannot     *)
(* carry out, a server that is down or busy.  A pull request that cannot   *)
(* be merged may be answered with 200 and "merged": false.                 *)
Declines(c) ==
  /\ call[c].flying
  /\ Answered(c, 0, IF call[c].op = "read" THEN AnswerKind
                    ELSE AnswerKind \ {"done"})
  /\ UNCHANGED merged
-----------------------------------------------------------------------------
CallEnds(c, phase) == call' = [call EXCEPT ![c].phase = phase]

(* Mutant of Decoded: a 2xx status is believed without its document.       *)
DecodedByStatus(answer) == answer \in {"done", "other"}

(* What OpenPR, MergePR, CreateRelease, Deploy and Rollback require of the *)
(* document: a number and a head, merged and a sha, the tag asked for, an  *)
(* ID and a status.                                                        *)
Decoded(answer) == answer = "done"

Succeeds(c) ==
  /\ call[c].phase = "answered"
  /\ Decoded(call[c].answer)
  /\ CallEnds(c, "ok")
  /\ UNCHANGED merged

MayRetry(c) ==
  call[c].answer = "busy" /\ call[c].attempt < Attempts(call[c].op)

Fails(c) ==
  /\ call[c].phase = "answered"
  /\ ~Decoded(call[c].answer) /\ ~MayRetry(c)
  /\ CallEnds(c, "error")
  /\ UNCHANGED merged

BacksOff(c) ==
  /\ call[c].phase = "answered"
  /\ MayRetry(c)
  /\ CallEnds(c, "waiting")
  /\ UNCHANGED merged

Retries(c) ==
  /\ call[c].phase = "waiting"
  /\ LET r == call[c]
     IN  call' = [call EXCEPT ![c] =
           [r EXCEPT !.phase = "sent", !.attempt = r.attempt + 1, !.flying = TRUE]]
  /\ UNCHANGED merged

(* The 30 seconds of the call, or its caller's context, are over. *)
CallTimesOut(c) ==
  /\ CallInFlight(c)
  /\ CallEnds(c, "error")
  /\ UNCHANGED merged

CallsNext ==
  \E c \in Caller :
    \/ \E op \in CallOp : Call(c, op)
    \/ Executes(c) \/ Declines(c)
    \/ Succeeds(c) \/ Fails(c) \/ BacksOff(c) \/ Retries(c) \/ CallTimesOut(c)

CallsSpec == CallsInit /\ [][CallsNext]_callVars
-----------------------------------------------------------------------------
CallsTypeOK ==
  /\ call \in [Caller -> [op : CallOp, phase : Phase, attempt : 0 .. MaxAttempts,
                          answer : AnswerKind, flying : BOOLEAN, effects : Nat]]
  /\ merged \in BOOLEAN

(* However often a call is sent, and whenever the server fails, it opens   *)
(* one pull request, makes one release, starts one deployment at most.     *)
OneEffectPerCall == \A c \in Caller : call[c].effects <= 1

(* A call that answers without an error, other than a read, was carried    *)
(* out; no two callers are both told that they merged.                     *)
OkMeansDone ==
  /\ \A c \in Caller :
       call[c].phase = "ok" /\ call[c].op # "read" => call[c].effects = 1
  /\ \A c, d \in Caller :
       /\ call[c].phase = "ok" /\ call[c].op = "merge_pr"
       /\ call[d].phase = "ok" /\ call[d].op = "merge_pr"
       => c = d
=============================================================================
