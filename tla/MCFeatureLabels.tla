-------------------------- MODULE MCFeatureLabels --------------------------
(* Five days of prices, fetched for two windows; one symbol trades on all    *)
(* of them and one from the fourth day on; every run writes the features of  *)
(* a fold, four days of the first and one day of the second.                 *)
EXTENDS FeatureLabels

CONSTANTS j1

MCBars == [s \in Symbols |-> IF s = 1 THEN 1..LastDay ELSE {4, 5}]
W(from, to) == [from |-> from, to |-> to]
MCFileWindows == {W(2, 3), W(1, 5)}
MCFoldRows == {(1..4) \X {1} \cup {<<4, 2>>}}
=============================================================================
