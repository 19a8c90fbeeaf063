----------------------------- MODULE MCJournal ------------------------------
(***************************************************************************)
(* Two small instances of Journal, on one item each (what two items could  *)
(* do to each other is left to the theorems of JournalProofs).  Races: two *)
(* calls outstanding at once, four events, so that a call can come back    *)
(* after the item left its state and returned to it.  Gates: a history     *)
(* long enough for the item to be approved, deployed and sent back by the  *)
(* client, one call outstanding at a time.                                 *)
(***************************************************************************)
EXTENDS Journal, TLC

CONSTANT a

MCClients == {DaemonContext("automation"), DaemonContext("operator")}

RacesVersion == (a :> 4)
RacesMenu == {"submit_work", "begin_triage", "block", "resolve_block"}

GatesVersion == (a :> 9)
GatesMenu == {"submit_work", "begin_triage", "authorize_work",
              "begin_implementation", "submit_review", "approve_pr",
              "begin_deploy", "mark_deployment_healthy", "request_changes",
              "block", "resolve_block"}
=============================================================================
