------------------------------ MODULE HandViews ------------------------------
(***************************************************************************)
(* What game-service shows of a hand without changing it: the legal        *)
(* actions of get_table_state (game_query_service.py) and the explanation  *)
(* of a settlement (settlement_explainer.py).  Both recompute what another *)
(* part of the service decides: the first what validate_bet accepts, the   *)
(* second what resolve_hand has paid.                                      *)
(***************************************************************************)
EXTENDS SidePots

Offer(action, low, high) == [action |-> action, min_amount |-> low, max_amount |-> high]

(* Mutant: a raise is offered from one chip above the present bet. *)
SizedOffersOneMore(h, p) ==
    IF h.stack_remaining[p] <= CallAmount(h, p) THEN {}
    ELSE {Offer(IF h.current_highest_bet = 0 THEN "BET" ELSE "RAISE",
                h.current_highest_bet + 1,
                h.committed_this_street[p] + h.stack_remaining[p])}

(* The bet or raise of free size.  The range is empty when the stack does  *)
(* not reach the minimum.                                                  *)
SizedOffers(h, p) ==
    LET stack == h.stack_remaining[p]
    IN  CASE h.current_highest_bet = 0 /\ stack > 0 ->
               {Offer("BET", h.minimum_raise_amount, stack)}
          [] h.current_highest_bet > 0 /\ stack > CallAmount(h, p) ->
               {Offer("RAISE", h.current_highest_bet + h.minimum_raise_amount,
                      h.committed_this_street[p] + stack)}
          [] OTHER -> {}

(* The actions shown to the acting player p. *)
OffersTo(h, p) ==
    LET stack == h.stack_remaining[p]
        call  == Smaller(CallAmount(h, p), stack)
    IN  {Offer("FOLD", 0, 0)}
        \cup (IF CallAmount(h, p) = 0 THEN {Offer("CHECK", 0, 0)}
                                      ELSE {Offer("CALL", call, call)})
        \cup SizedOffers(h, p)
        \cup (IF stack > 0 THEN {Offer("ALL_IN", stack, stack)} ELSE {})

(* legal_actions: nobody is asked once betting is closed.  Whether the     *)
(* acting player can act at all is not looked at.                          *)
LegalActions(h) ==
    IF h.acting_player_id = NoSeat \/ h.is_action_closed THEN {}
    ELSE OffersTo(h, h.acting_player_id)

-----------------------------------------------------------------------------
(* A row of round_payouts, one for every winner of every submitted pot. *)
PayoutRow == [pot_index: Nat, player: Seats, amount: Nat]

PayoutRows(payouts) ==
    LET OfPot(pot) ==
          LET winners == InOrder(PotWinners(pot))
          IN  [k \in DOMAIN winners |->
                 [pot_index |-> pot.pot_index, player |-> winners[k],
                  amount |-> pot.won[winners[k]]]]
    IN  FlattenSeq([i \in DOMAIN payouts |-> OfPot(payouts[i])])

(* Mutant: of several submissions for one pot only the last is explained. *)
AwardedLastOnly(rows, index) ==
    LET last == {i \in DOMAIN rows : rows[i].pot_index = index}
    IN  IF last = {} THEN 0 ELSE rows[Max(last)].amount

(* What the rows award from the pot with this index. *)
Awarded(rows, index) ==
    SumFunction([i \in DOMAIN rows |->
                   IF rows[i].pot_index = index THEN rows[i].amount ELSE 0])

(* explain_settlement: the pots of the present commitments, each with what *)
(* is awarded from it and what nobody has claimed.                         *)
ExplainSettlement(h, rows) ==
    LET pots == CalculateSidePots(h)
    IN  [i \in DOMAIN pots |->
           [amount |-> pots[i].amount,
            eligible |-> pots[i].eligible,
            ineligible |-> pots[i].contributors \ pots[i].eligible,
            awarded_total |-> Awarded(rows, i - 1),
            unclaimed |-> pots[i].amount - Awarded(rows, i - 1)]]

(* total_pot, total_awarded and total_unclaimed of an explanation. *)
Totals(explanation) ==
    LET Total(Of(_)) == SumFunction([i \in DOMAIN explanation |-> Of(explanation[i])])
    IN  [pot |-> Total(LAMBDA e : e.amount),
         awarded |-> Total(LAMBDA e : e.awarded_total),
         unclaimed |-> Total(LAMBDA e : e.unclaimed)]
==============================================================================
