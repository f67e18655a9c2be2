------------------------------ MODULE ChipBank -------------------------------
(***************************************************************************)
(* What a game promises its players about their chips, whatever is bet,    *)
(* settled or administered: chips leave a stack only when a hand is dealt  *)
(* or when its owner commits them to the open hand, and come back only     *)
(* when that hand is settled, out of its pot and at most as much as it     *)
(* holds.                                                                  *)
(***************************************************************************)
EXTENDS Integers, Functions

CONSTANT Seats

VARIABLES
    stacks,     \* the chips every seat owns
    pot,        \* the chips committed to the open hand
    open        \* a hand is being played

Init ==
    /\ stacks \in [Seats -> Nat]
    /\ pot = 0
    /\ ~open

(* What the seats together hold less than before. *)
TakenFromStacks == SumFunction(stacks) - SumFunction(stacks')

(* A hand opens and the forced bets are posted. *)
Deal ==
    /\ ~open /\ open'
    /\ \A s \in Seats : stacks'[s] <= stacks[s]
    /\ pot' = TakenFromStacks

(* One player commits chips of his own to the open hand. *)
Commit ==
    /\ open /\ open'
    /\ \E s \in Seats : \A q \in Seats \ {s} : stacks'[q] = stacks[q]
    /\ TakenFromStacks >= 0
    /\ pot' = pot + TakenFromStacks

(* The hand closes: nobody loses chips, and together the seats gain at     *)
(* most the pot.                                                           *)
Settle ==
    /\ open /\ ~open'
    /\ \A s \in Seats : stacks'[s] >= stacks[s]
    /\ -TakenFromStacks <= pot
    /\ pot' = 0

Next == stacks' \in [Seats -> Nat] /\ (Deal \/ Commit \/ Settle)

Spec == Init /\ [][Next]_<<stacks, pot, open>>
==============================================================================
