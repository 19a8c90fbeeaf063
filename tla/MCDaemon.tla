----------------------------- MODULE MCDaemon ------------------------------
(***************************************************************************)
(* Daemon on two items, 1 before 2 in the order of sortedIDs.  Own gives   *)
(* each a project, Shared one to both, OneRegistered leaves item 2 without.*)
(***************************************************************************)
EXTENDS Daemon, TLC

CONSTANTS acme, beta, unregistered

Own == (1 :> acme) @@ (2 :> beta)
OneRegistered == (1 :> acme) @@ (2 :> unregistered)
Shared == (1 :> acme) @@ (2 :> acme)

AllRoles == {"product", "implementer", "reviewer"}
=============================================================================
