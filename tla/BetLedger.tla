------------------------------ MODULE BetLedger ------------------------------
(***************************************************************************)
(* What the tables of the mention pipeline promise to the report that      *)
(* reads them: a bet on a key is placed at most once, what was bet never   *)
(* changes, and an outcome belongs to the key it is entered under and is   *)
(* never taken back.  How bets come about and when they settle is left     *)
(* open here.                                                              *)
(***************************************************************************)
CONSTANTS
  Keys,
  Bets,           \* what may be bet
  NoBet,
  OutcomesOf(_),  \* the outcomes that settle a key
  NoOutcome

VARIABLES
  bet,       \* key -> what was bet, or NoBet
  outcome    \* key -> the outcome entered, or NoOutcome

ledgerVars == <<bet, outcome>>

LedgerInit ==
  /\ bet = [k \in Keys |-> NoBet]
  /\ outcome = [k \in Keys |-> NoOutcome]

Place(k) ==
  /\ bet[k] = NoBet
  /\ bet'[k] \in Bets /\ bet' = [bet EXCEPT ![k] = bet'[k]]
  /\ UNCHANGED outcome

(* Entering an outcome again replaces it: later prices are trusted more.   *)
Enter(k) ==
  /\ bet[k] # NoBet
  /\ outcome'[k] \in OutcomesOf(k) /\ outcome' = [outcome EXCEPT ![k] = outcome'[k]]
  /\ UNCHANGED bet

LedgerNext == \E k \in Keys : Place(k) \/ Enter(k)

LedgerSpec == LedgerInit /\ [][LedgerNext]_ledgerVars
=============================================================================
