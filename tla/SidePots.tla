------------------------------ MODULE SidePots ------------------------------
(***************************************************************************)
(* Side pots and the validation of submitted payouts (game-service,        *)
(* app/domain/engine/side_pots.py and payout_validation.py, and the checks *)
(* resolve_hand makes before it pays).                                     *)
(*                                                                         *)
(* A payout submission is a sequence of pots, each naming a pot index, the *)
(* amount it distributes and the chips every seat wins from it.            *)
(***************************************************************************)
EXTENDS HandEngine, Sequences, SequencesExt

(* What the request schema lets through. *)
PayoutRequest == Seq([pot_index: Nat, amount: Nat \ {0}, won: [Seats -> Nat]])

(* The members of a finite set of numbers, lowest first: member i is the   *)
(* one with i - 1 members below it.                                        *)
InOrder(S) ==
    [i \in 1..Cardinality(S) |-> CHOOSE x \in S : Cardinality({y \in S : y < x}) = i - 1]

(* Levels of commitment, lowest first, with level 0 in front. *)
CommitmentLevels(h) == InOrder({0} \cup {h.committed_this_hand[s] : s \in Seats})

(* The slice of every commitment between two neighbouring levels. *)
RawPot(h, below, level) ==
    LET contributors == {s \in Seats : h.committed_this_hand[s] > below}
    IN  [amount |-> (level - below) * Cardinality(contributors),
         contributors |-> contributors,
         eligible |-> contributors \cap NotFolded(h)]

RawPots(h) ==
    LET levels == CommitmentLevels(h)
    IN  [i \in 1..(Len(levels) - 1) |-> RawPot(h, levels[i], levels[i + 1])]

NoCarry == [amount |-> 0, contributors |-> {}, eligible |-> {}]

AddPot(pot, carry) ==
    [pot EXCEPT !.amount = @ + carry.amount,
                !.contributors = @ \cup carry.contributors]

(* One step of the merge: a pot nobody can win is carried forward. *)
MergePot(acc, pot) ==
    IF pot.eligible # {}
    THEN [result |-> Append(acc.result, AddPot(pot, acc.carry)), carry |-> NoCarry]
    ELSE [acc EXCEPT !.carry = AddPot(pot, acc.carry)]

(* Mutant: what is still carried at the end is dropped. *)
MergeDeadPotsDropped(raw) ==
    FoldLeft(MergePot, [result |-> <<>>, carry |-> NoCarry], raw).result

(* What is still carried at the end joins the last pot, or stands alone. *)
MergeDeadPots(raw) ==
    LET acc  == FoldLeft(MergePot, [result |-> <<>>, carry |-> NoCarry], raw)
        last == Len(acc.result)
    IN  CASE acc.carry.amount = 0 -> acc.result
          [] acc.carry.amount > 0 /\ last > 0 ->
               [acc.result EXCEPT ![last] = AddPot(@, acc.carry)]
          [] OTHER -> <<acc.carry>>

(* Pot index i of the code is CalculateSidePots(h)[i + 1]. *)
CalculateSidePots(h) == MergeDeadPots(RawPots(h))

PotWinners(pot) == {s \in Seats : pot.won[s] > 0}

(* validate_payouts_against_side_pots: every submitted pot on its own.     *)
ValidatePayoutsAgainstSidePots(h, payouts) ==
    LET pots == CalculateSidePots(h)
    IN  pots # <<>> =>
          \A i \in DOMAIN payouts :
             LET index == payouts[i].pot_index + 1
             IN  /\ index \in DOMAIN pots
                 /\ SumFunction(payouts[i].won) <= pots[index].amount
                 /\ PotWinners(payouts[i]) \subseteq pots[index].eligible

(* What seat s receives from a whole submission. *)
Winnings(payouts, s) ==
    SumFunction([i \in DOMAIN payouts |-> payouts[i].won[s]])

TotalPaid(payouts) ==
    SumFunction([i \in DOMAIN payouts |-> SumFunction(payouts[i].won)])

(* Mutant: the total is not compared with the pot. *)
PayoutsAcceptedAnyTotal(h, payouts) ==
    /\ h.status = "ACTIVE"
    /\ payouts # <<>>
    /\ ValidatePayoutsAgainstSidePots(h, payouts)

(* Every condition resolve_hand checks before it changes anything. *)
PayoutsAccepted(h, payouts) ==
    /\ h.status = "ACTIVE"
    /\ payouts \in PayoutRequest
    /\ payouts # <<>>
    /\ TotalPaid(payouts) <= h.pot_amount
    /\ \A i \in DOMAIN payouts : SumFunction(payouts[i].won) = payouts[i].amount
    /\ ValidatePayoutsAgainstSidePots(h, payouts)

(* Mutant: settling clears the pot. *)
ResolvedHandClearsPot(h, payouts) ==
    [ClosedHand(h) EXCEPT
       !.status = "COMPLETED", !.street = "SHOWDOWN", !.pot_amount = 0,
       !.stack_remaining = [s \in Seats |-> @[s] + Winnings(payouts, s)]]

(* resolve_hand on the round and its players: pay and complete the hand. *)
ResolvedHand(h, payouts) ==
    [ClosedHand(h) EXCEPT
       !.status = "COMPLETED", !.street = "SHOWDOWN",
       !.stack_remaining = [s \in Seats |-> @[s] + Winnings(payouts, s)]]

(* declare_winner: the whole pot, submitted as pot 0, to one player. *)
WinnerTakesAll(h, winner) ==
    <<[pot_index |-> 0, amount |-> h.pot_amount,
       won |-> [s \in Seats |-> IF s = winner THEN h.pot_amount ELSE 0]]>>
=============================================================================
