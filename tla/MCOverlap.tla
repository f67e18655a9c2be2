------------------------------ MODULE MCOverlap ------------------------------
(* Small instances of GameTransactions, and what its code does not ensure. *)
EXTENDS GameTransactions, TLC

Symmetry == Permutations(Requests)

(* start_round is refused with "Round is already active" (constants.py):   *)
(* no game has two active rounds.                                          *)
OneActiveRound == Cardinality(InStatus("ACTIVE")) <= 1

(* A finished game stays finished. *)
FinishedIsFinal == [][game.status = "FINISHED" => game'.status = "FINISHED"]_vars

(* The hands of a game are never counted down. *)
HandsNeverLost == [][game'.hands_played >= game.hands_played]_vars
==============================================================================
