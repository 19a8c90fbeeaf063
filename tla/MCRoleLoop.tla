---------------------------- MODULE MCRoleLoop -----------------------------
(***************************************************************************)
(* RoleLoop with two failures that can alternate, events that are free or  *)
(* cost 1 or 2 against budgets of 1 and 3, and a deadline one unit away.   *)
(***************************************************************************)
EXTENDS RoleLoop
=============================================================================
