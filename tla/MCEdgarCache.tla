----------------------------- MODULE MCEdgarCache -----------------------------
(***************************************************************************)
(* EdgarCache with a registrant and the one it succeeded.                  *)
(***************************************************************************)
EXTENDS EdgarCache, TLC

CONSTANTS new, old

MCPredecessor == (new :> old) @@ (old :> None)
MCEvidence == (new :> 1) @@ (old :> 1)
MCExtracted == {<<new, 1>>}
MCFirst == (new :> 1) @@ (old :> 3)
=============================================================================
