------------------------------ MODULE MCClaims ------------------------------
(***************************************************************************)
(* What the README and the tests of the repository say of a hand and that  *)
(* the code does not do.  Each claim is refuted by a run of its own.       *)
(***************************************************************************)
EXTENDS MCGame

(* A blind structure that set_blind_structure accepts: a level is missing. *)
GappedLevels == 1 :> [small_blind |-> 1, big_blind |-> 2, ante |-> 0]
             @@ 3 :> [small_blind |-> 2, big_blind |-> 3, ante |-> 1]

(* README: next_to_act "closes action when everyone has matched or action  *)
(* returns to aggressor".  While two players contest the pot, betting is   *)
(* closed only when nobody able to act still owes chips.                   *)
ClosesWhenMatched ==
    /\ hand.status = "ACTIVE"
    /\ hand.is_action_closed
    /\ ~AtMostOne(NotFolded(hand))
    => NeedsAction(hand) = {}

(* README: declare_winner is a "shortcut to award full pot to one winner". *)
(* When everybody else has folded, the last player can be declared winner. *)
LastPlayerCanBeDeclaredWinner ==
    hand.status = "ACTIVE" =>
       \A s \in Seats : NotFolded(hand) = {s} =>
          PayoutsAccepted(hand, WinnerTakesAll(hand, s))

(* README: street progression "moves a closed betting street forward".  A  *)
(* street of a round that goes on never changes while betting is open.     *)
OnlyClosedStreetsAdvance ==
    [][hand'.street # hand.street /\ rounds' = rounds /\ hand'.status = "ACTIVE"
         => hand.is_action_closed]_hand

(* README: FOLD is "always allowed for an active actor".  The player whose *)
(* turn it is may fold.                                                    *)
ActorMayFold ==
    (hand.status = "ACTIVE" /\ hand.acting_player_id # NoSeat) =>
       ValidateBet(hand, hand.acting_player_id, "FOLD", 0)

(* test_three_way_call plays CALL, CALL and the big blind's CHECK before   *)
(* it expects the action to be closed: when everybody limps, pre-flop      *)
(* betting is closed by the big blind.                                     *)
BigBlindHasOption ==
    [][/\ hand.street = "PRE_FLOP" /\ ~hand.is_action_closed
       /\ rounds' = rounds /\ hand'.street = "PRE_FLOP" /\ hand'.is_action_closed
       /\ hand'.last_aggressor_seat = NoSeat
       /\ hand'.big_blind_seat \in CanAct(hand') /\ ~AtMostOne(CanAct(hand'))
       => hand.acting_player_id = hand'.big_blind_seat]_hand

(* README: rotate_positions "moves dealer clockwise".  The next dealer is  *)
(* the first seat with chips to the left of the last one, also when the    *)
(* last one has just been eliminated.                                      *)
DealerMovesClockwise ==
    [][/\ hand.status = "ACTIVE" /\ hand'.status = "COMPLETED"
       /\ ~AtMostOne(ActiveSeats(chips'))
       => game'.positions.dealer =
             FirstAfter(ActiveSeats(chips'), game.positions.dealer)]_hand

(* README: advance-blinds moves "to next configured blind level".  While a *)
(* higher level is configured the command succeeds.                        *)
HigherLevelReachable ==
    (game.status = "ACTIVE" /\ \E l \in LevelNumbers : l > game.current_blind_level)
       => ENABLED AdvanceBlinds

(* README: payout validation "verifies pot indices, amounts, total pot,    *)
(* and winner eligibility".  No seat is paid more than the pots it is      *)
(* eligible for hold.                                                      *)
WinningsWithinEligibility ==
    hand.status = "COMPLETED" =>
       LET pots == CalculateSidePots(hand)
       IN  \A s \in Seats :
              paid[s] <= SumFunction([i \in DOMAIN pots |->
                            IF s \in pots[i].eligible THEN pots[i].amount ELSE 0])
=============================================================================
