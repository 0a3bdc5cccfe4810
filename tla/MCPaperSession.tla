--------------------------- MODULE MCPaperSession ---------------------------
(***************************************************************************)
(* PaperSession with two trading runs and, beside them, a run of           *)
(* `paper reconcile`.  BUYs are for two lots, so a fill can be partial.    *)
(***************************************************************************)
EXTENDS PaperSession, TLC

CONSTANTS a, b, r1, r2, rec

MCSymbols == {a, b}
MCSymbolsOne == {a}
Wrapper == (r1 :> "rotate") @@ (r2 :> "rotate") @@ (rec :> "reconcile")
Rerun == (r1 :> "trade") @@ (r2 :> "trade")

(* Buy everything, or leave the first symbol. *)
MCSignals == {[s \in MCSymbols |-> "enter"], (a :> "exit") @@ (b :> "enter")}
MCSignalsOne == {(a :> "enter"), (a :> "exit")}
=============================================================================
