----------------------------- MODULE Knowledge ------------------------------
(***************************************************************************)
(* internal/knowledge: one concept of a bundle, and authors who read it,   *)
(* write a proposal, and have it verified and applied, each in their own   *)
(* time.  A proposal carries the version it would make: one more than the  *)
(* author read.  The authors are external.                                 *)
(***************************************************************************)
EXTENDS Naturals

CONSTANTS Author,       \* authors, with one proposal each at a time
          Blank,        \* the author of no text
          MaxVersions   \* bound

ASSUME KnowledgeAssumption == Blank \notin Author /\ MaxVersions \in Nat

VARIABLES concept,    \* the concept in the bundle; version 0: there is none
          proposal    \* proposal[a]: what a proposes

knowledgeVars == <<concept, proposal>>

Method == {"human", "gate", "test"}
Status == {"active", "deprecated"}

NoConcept == [version |-> 0, status |-> "active", body |-> Blank]

(* read is the concept its author had before their eyes. *)
NoProposal == [version |-> 0, status |-> "unchanged", read |-> NoConcept]

KnowledgeInit ==
  /\ concept = NoConcept
  /\ proposal = [a \in Author |-> NoProposal]

(* An author reads the concept and writes. *)
Propose(a, st) ==
  /\ concept.version < MaxVersions
  /\ proposal' = [proposal EXCEPT ![a] =
       [version |-> concept.version + 1, status |-> st, read |-> concept]]
  /\ UNCHANGED concept

(* Mutant of Advances: the version must not fall.                          *)
AdvancesLoosely(p) == p.version >= concept.version /\ p.version > 0

Advances(p) == p.version = concept.version + 1

StatusAfter(p) ==
  IF p.status # "unchanged" THEN p.status ELSE concept.status

(* Only a human may have a concept deprecated that is not. *)
Verified(p, method) ==
  \/ concept.version = 0
  \/ StatusAfter(p) # "deprecated" \/ concept.status = "deprecated"
  \/ method = "human"

(* Apply.  A refused proposal stays its author's, to be applied again. *)
ApplyProposal(a, method) ==
  LET p == proposal[a]
  IN  /\ p # NoProposal
      /\ Advances(p)
      /\ Verified(p, method)
      /\ concept' = [version |-> p.version, status |-> StatusAfter(p), body |-> a]
      /\ proposal' \in {proposal, [proposal EXCEPT ![a] = NoProposal]}

KnowledgeNext ==
  \E a \in Author :
    \/ \E st \in Status \cup {"unchanged"} : Propose(a, st)
    \/ \E method \in Method : ApplyProposal(a, method)

KnowledgeSpec == KnowledgeInit /\ [][KnowledgeNext]_knowledgeVars
-----------------------------------------------------------------------------
Concept == [version : 0 .. MaxVersions, status : Status, body : Author \cup {Blank}]

KnowledgeTypeOK ==
  /\ concept \in Concept
  /\ proposal \in [Author -> [version : 0 .. MaxVersions, read : Concept,
                              status : Status \cup {"unchanged"}]]

(* A text is replaced only by an author who had read it: of two proposals  *)
(* written against the same version one is refused, whenever they are      *)
(* applied, again or late.                                                 *)
NoLostUpdate ==
  [][concept' # concept => proposal[concept'.body].read = concept]_knowledgeVars
=============================================================================
