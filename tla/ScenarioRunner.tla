--------------------------- MODULE ScenarioRunner ----------------------------
(***************************************************************************)
(* The scripted hands of game-service's scenario tests (scenario_runner.py)*)
(* A scenario deals a hand with code of its own, plays a script through    *)
(* apply_action and compares the outcome with its expectations; an action  *)
(* that is refused leaves the hand alone and is remembered as the last     *)
(* error.                                                                  *)
(***************************************************************************)
EXTENDS Game

(* players: seat -> stack of the seats that play. *)
SeatLeftOf(seat, seats) == FirstAfter(seats, IF seat \in seats THEN seat ELSE Min(seats))

(* Mutant: the dealer posts the small blind. *)
ScenarioPositionsDealerPosts(seats, dealer) ==
    [dealer |-> dealer, sb |-> dealer, bb |-> SeatLeftOf(dealer, seats)]

(* The blinds are the two seats left of the dealer, also when there are    *)
(* only two.                                                               *)
ScenarioPositions(seats, dealer) ==
    LET sb == SeatLeftOf(dealer, seats)
    IN  [dealer |-> dealer, sb |-> sb, bb |-> SeatLeftOf(sb, seats)]

(* The hand after _post_blinds.  Every listed player is in the hand. *)
ScenarioHand(stacks, dealer, blinds) ==
    LET seats  == {s \in Seats : stacks[s] > 0}
        pos    == ScenarioPositions(seats, dealer)
        posted == [s \in Seats |-> Posted(s, stacks[s], pos, blinds)]
    IN  [status |-> "ACTIVE", street |-> "PRE_FLOP",
         dealer_seat |-> dealer, big_blind_seat |-> pos.bb,
         big_blind_amount |-> blinds.big_blind,
         pot_amount |-> SumFunction(posted),
         current_highest_bet |-> Max({posted[s] : s \in seats}),
         minimum_raise_amount |-> blinds.big_blind,
         acting_player_id |-> SeatLeftOf(pos.bb, seats),
         is_action_closed |-> FALSE, last_aggressor_seat |-> NoSeat,
         state_version |-> 1,
         stack_remaining |-> [s \in Seats |-> stacks[s] - posted[s]],
         committed_this_street |-> posted, committed_this_hand |-> posted,
         has_folded |-> {},
         is_all_in |-> {s \in seats : stacks[s] = posted[s]},
         is_active_in_hand |-> seats]

(* One scripted action. *)
PlayScripted(run, a) ==
    IF ValidateBet(run.hand, a.player, a.action, a.amount)
    THEN [hand |-> ApplyAction(run.hand, a.player, a.action, a.amount),
          last_error |-> FALSE]
    ELSE [hand |-> run.hand, last_error |-> TRUE]

RunScenario(dealt, script) ==
    FoldLeft(PlayScripted, [hand |-> dealt, last_error |-> FALSE], script)

(* The checks of _evaluate. *)
Evaluate(run, expectation) ==
    CASE expectation.check_type = "pot" -> run.hand.pot_amount = expectation.amount
      [] expectation.check_type = "action_closed" -> run.hand.is_action_closed
      [] expectation.check_type = "player_stack" ->
           run.hand.stack_remaining[expectation.player] = expectation.amount
      [] expectation.check_type = "player_folded" ->
           expectation.player \in run.hand.has_folded
      [] expectation.check_type = "error" -> run.last_error

-----------------------------------------------------------------------------
(* With three players or more, a scenario of the tests deals the hand that *)
(* start_round deals, and a bet scripted twice in a row moves its chips    *)
(* once: the turn has passed on when it is repeated.                       *)
ScenarioPlaysTheGame ==
    (hand.status = "ACTIVE" /\ hand.state_version = 1
       /\ Cardinality(ActiveSeats(chips)) > 2) =>
       LET dealt == ScenarioHand(chips, game.positions.dealer, CurrentLevel)
       IN  /\ dealt = hand
           /\ \A p \in Seats, action \in Actions : \A amount \in Amounts(action) :
                 LET bet == [player |-> p, action |-> action, amount |-> amount]
                     run == RunScenario(dealt, <<bet, bet>>)
                     moved == IF ValidateBet(hand, p, action, amount)
                              THEN Chips(hand, p, action, amount) ELSE 0
                 IN  /\ Evaluate(run, [check_type |-> "error"])
                     /\ Evaluate(run, [check_type |-> "pot",
                                       amount |-> hand.pot_amount + moved])
                     /\ Evaluate(run, [check_type |-> "player_stack", player |-> p,
                                       amount |-> hand.stack_remaining[p] - moved])
==============================================================================
