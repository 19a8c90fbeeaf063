---------------------------- MODULE MCFrontEnds -----------------------------
(***************************************************************************)
(* FrontEnds with one item in review at version 5 and one HTTP handler.    *)
(* Operators approve the item or send it back over Telegram, a human lets  *)
(* work begin again on the dashboard, the daemon submits it for review     *)
(* again: a message that is delivered a second time finds the item in the  *)
(* state it was sent for.                                                  *)
(***************************************************************************)
EXTENDS FrontEnds, TLC

CONSTANTS ticker, h1, noOffer

InReview == 1 :> [state |-> "reviewing", resume |-> NoState, version |-> 5]
=============================================================================
