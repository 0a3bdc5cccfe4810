-------------------------- MODULE MCMentionTracking --------------------------
(***************************************************************************)
(* MentionTracking from a Thursday to a Monday, with the wrapper and a     *)
(* second process run by hand.                                             *)
(***************************************************************************)
EXTENDS MentionTracking, TLC

CONSTANTS p, x, cron, hand

NamesX == (p :> {x})
BareNone == (p :> {})
=============================================================================
