------------------------------ MODULE MCLedger -------------------------------
(* Small instances of HandLedger, and what the repository says of the      *)
(* corrections that the code does not do.                                  *)
EXTENDS HandLedger

MCChips == {[s \in Seats |-> 3]}
MCLevel == [small_blind |-> 1, big_blind |-> 2, ante |-> 0]

(* The main pot to any player or split between the two, or the main pot    *)
(* and the next one to any players.                                        *)
MCSubmissions(h) ==
    LET pots == IF h.status = "ACTIVE" THEN CalculateSidePots(h) ELSE <<>>
        Award(i, winner) ==
          [pot_index |-> i - 1, amount |-> pots[i].amount,
           won |-> [s \in Seats |-> IF s = winner THEN pots[i].amount ELSE 0]]
    IN  IF pots = <<>> THEN {}
        ELSE {<<Award(1, winner)>> : winner \in Seats}
             \cup {<<[Award(1, 1) EXCEPT !.won = [s \in Seats |->
                        IF s = 1 THEN 1 ELSE pots[1].amount - 1]]>>}
             \cup (IF Len(pots) = 1 THEN {}
                   ELSE {<<Award(1, w1), Award(2, w2)>> : w1, w2 \in Seats})

MCAdjustments == {-1, 1}

(* README on verify_consistency: "Compares ledger-rebuilt state to live    *)
(* projection values."  It finds nothing wrong with a hand on which no     *)
(* correction was made.                                                    *)
UncorrectedIsConsistent ==
    (\A i \in DOMAIN ledger : ledger[i].type \notin CorrectionTypes)
       => VerifyConsistency(ledger, hand)

(* README: "Reverse a ledger entry and project it into live state."  A     *)
(* reversed payout does not leave its winner with more chips.              *)
ReversedPayoutIsTakenBack ==
    [][\A i \in DOMAIN ledger :
         (ledger[i].type = "PAYOUT_AWARDED" /\ ReverseAction(i)) =>
            hand'.stack_remaining[ledger[i].player]
               <= hand.stack_remaining[ledger[i].player]]_vars
==============================================================================
