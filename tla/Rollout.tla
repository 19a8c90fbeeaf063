------------------------------ MODULE Rollout -------------------------------
(***************************************************************************)
(* internal/flags: one flag as one user sees it while contributors take it *)
(* through the stages of a rollout.                                        *)
(*                                                                         *)
(* A percentage is a number of thousandths of a percent, so that it can    *)
(* fall between two buckets.  The user's place among the 10000 buckets is  *)
(* an arbitrary number for the flag and another for the rule (fnv of the   *)
(* key and the user's bucket key), fixed once and for all.  percentage*100 *)
(* is a product of floats: for some whole numbers of buckets it comes out a *)
(* little too small and is truncated to one less (0.29*100 is 28, 0.3*100  *)
(* is 30).                                                                 *)
(***************************************************************************)
EXTENDS Naturals, Sequences, FiniteSets

CONSTANTS Percentage,    \* the percentages stages use, in thousandths
          Place          \* the places of the user among the buckets

Full == 100000
Bucket == 0 .. 9999

ASSUME RolloutAssumption == /\ Percentage \subseteq 1 .. Full
                            /\ Place \subseteq Bucket

VARIABLES flag,      \* the flag, or NoFlag
          stages,    \* the stages of the rollout
          stage,     \* how many of them are behind
          user       \* the user's places, and the products that are too small

rolloutVars == <<flag, stages, stage, user>>

NoRule == [matches |-> FALSE, percentage |-> Full, variation |-> TRUE]
NoFlag == [enabled |-> FALSE, defaultOn |-> FALSE, percentage |-> 0,
           rule |-> NoRule]
NoUser == [flagPlace |-> 0, rulePlace |-> 0, rounded |-> {}]

RolloutInit ==
  /\ flag = NoFlag
  /\ stages = <<>>
  /\ stage = 0
  /\ user = NoUser

(* uint64(percentage*100) *)
Buckets(percentage) ==
  IF percentage % 10 = 0 /\ percentage > 0 /\ percentage \in user.rounded
  THEN percentage \div 10 - 1
  ELSE percentage \div 10

InBucket(place, percentage) == place < Buckets(percentage)

(* Evaluate.  Of the rules, the first that matches the user decides. *)
Evaluate(f) ==
  LET rule == f.rule
      byRule == IF rule.percentage >= Full
                   \/ InBucket(user.rulePlace, rule.percentage)
                THEN rule.variation ELSE ~rule.variation
      byDefault == \/ f.percentage >= Full
                   \/ InBucket(user.flagPlace, f.percentage)
                   \/ f.defaultOn
  IN  f.enabled /\ (IF rule.matches THEN byRule ELSE byDefault)

(* Mutant of ValidRollout: stages need not increase.                       *)
ValidRolloutUnordered(s) == Len(s) > 0 /\ s[Len(s)] = Full

(* ValidateRollout *)
ValidRollout(s) ==
  /\ Len(s) > 0
  /\ \A k \in 2 .. Len(s) : s[k - 1] < s[k]
  /\ s[Len(s)] = Full
-----------------------------------------------------------------------------
Rule == {NoRule} \cup
  [matches : {TRUE}, percentage : Percentage, variation : BOOLEAN]

StageSeq == UNION {[1 .. n -> Percentage] : n \in 1 .. Cardinality(Percentage)}

(* A flag is defined, on for nobody but its rule.  The rollout is the      *)
(* flag's own: rules keep their percentage.                                *)
DefineFlag ==
  /\ flag = NoFlag /\ stage = 0
  /\ \E s \in StageSeq : ValidRollout(s) /\ stages' = s
  /\ flag' \in [enabled : {TRUE}, defaultOn : BOOLEAN, percentage : {0}, rule : Rule]
  /\ user' \in [flagPlace : Place, rulePlace : Place, rounded : SUBSET Percentage]
  /\ UNCHANGED stage

(* DecideAcceptance answers accept: the next stage. *)
AcceptStage ==
  /\ flag.enabled
  /\ stage < Len(stages)
  /\ stage' = stage + 1
  /\ flag' = [flag EXCEPT !.percentage = stages[stage + 1]]
  /\ UNCHANGED <<stages, user>>

(* A rule for a group the feature is meant for is rolled out likewise. *)
WidenRule(percentage) ==
  /\ flag.enabled
  /\ flag.rule.matches /\ flag.rule.variation
  /\ ValidRollout(<<flag.rule.percentage, percentage>>)
  /\ flag' = [flag EXCEPT !.rule = [flag.rule EXCEPT !.percentage = percentage]]
  /\ UNCHANGED <<stages, stage, user>>

(* DecideAcceptance answers reject: the flag is disabled. *)
RejectStage ==
  /\ flag.enabled
  /\ flag' = [flag EXCEPT !.enabled = FALSE]
  /\ UNCHANGED <<stages, stage, user>>

RolloutNext ==
  \/ DefineFlag
  \/ AcceptStage
  \/ \E percentage \in Percentage : WidenRule(percentage)
  \/ RejectStage

RolloutSpec == RolloutInit /\ [][RolloutNext]_rolloutVars
-----------------------------------------------------------------------------
RolloutTypeOK ==
  /\ flag \in [enabled : BOOLEAN, defaultOn : BOOLEAN,
               percentage : Percentage \cup {0}, rule : Rule]
  /\ stages \in Seq(Percentage)
  /\ stage \in 0 .. Len(stages)
  /\ user \in [flagPlace : Bucket, rulePlace : Bucket, rounded : SUBSET Percentage]

(* A user who has the feature keeps it while the rollout grows: only       *)
(* disabling the flag takes it away.                                       *)
NeverSwitchedOff ==
  [][Evaluate(flag) /\ flag'.enabled => Evaluate(flag)']_rolloutVars
=============================================================================
