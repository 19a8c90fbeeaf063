----------------------------- MODULE WorkItems ------------------------------
(***************************************************************************)
(* What the Workflow core and its journal promise together, with nothing   *)
(* of how they do it: every Work Item is at one place, a command takes     *)
(* effect at most once and in one step, moves follow the transitions       *)
(* table, a blocked item remembers where it was and goes back there.       *)
(* Module Journal implements this (ImplementsWorkItems).                   *)
(***************************************************************************)
EXTENDS Workflow

CONSTANTS Item,        \* Work Item IDs
          CommandId    \* command IDs

VARIABLES place,       \* place[i]: the state of item i
          origin,      \* origin[i]: where a blocked item came from
          applied      \* the commands that took effect

vars == <<place, origin, applied>>

Init ==
  /\ place = [i \in Item |-> NoState]
  /\ origin = [i \in Item |-> NoState]
  /\ applied = {}

Once(id) ==
  /\ id \notin applied
  /\ applied' = applied \cup {id}

Submit(i, id) ==
  /\ Once(id)
  /\ place[i] = NoState
  /\ place' = [place EXCEPT ![i] = "inbox"]
  /\ UNCHANGED origin

Move(i, id) ==
  /\ Once(id)
  /\ \E t \in Transitions :
       /\ place[i] = t[1]
       /\ t[3] # "blocked"
       /\ place' = [place EXCEPT ![i] = t[3]]
  /\ UNCHANGED origin

Block(i, id) ==
  /\ Once(id)
  /\ <<place[i], "block", "blocked">> \in Transitions
  /\ origin' = [origin EXCEPT ![i] = place[i]]
  /\ place' = [place EXCEPT ![i] = "blocked"]

Resolve(i, id) ==
  /\ Once(id)
  /\ place[i] = "blocked"
  /\ place' = [place EXCEPT ![i] = origin[i]]
  /\ origin' = [origin EXCEPT ![i] = NoState]

Next ==
  \E i \in Item, id \in CommandId :
    Submit(i, id) \/ Move(i, id) \/ Block(i, id) \/ Resolve(i, id)

Spec == Init /\ [][Next]_vars
=============================================================================
