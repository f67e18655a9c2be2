------------------------------- MODULE MCRound -------------------------------
(* Small instances of RoundTransactions, and what the repository says of   *)
(* concurrent requests that the code does not do.                          *)
EXTENDS RoundTransactions

MCLevel == [small_blind |-> 1, big_blind |-> 2, ante |-> 0]

(* Three players with six chips each, dealer and first to act in seat 1. *)
MCHands == {DealtHand([s \in Seats |-> 6], AssignPositions(Seats, 1), MCLevel)}

Command(player, action, amount, key, version) ==
    [player |-> player, action |-> action, amount |-> amount, key |-> key,
     expected_version |-> version]

(* Calls under a key, also one reused by another player, bets without a    *)
(* key and bets that expect a version.                                     *)
MCCommands ==
    {Command(1, "CALL", 0, "k1", 0), Command(1, "RAISE", 4, "none", 1),
     Command(2, "RAISE", 4, "none", 0), Command(2, "CALL", 0, "k1", 2),
     Command(3, "FOLD", 0, "none", 0), Command(3, "ALL_IN", 0, "k2", 0)}

(* A call that may be valid twice, and the bets that make it so. *)
RetriedCommands ==
    {Command(1, "CALL", 0, "k1", 0), Command(2, "RAISE", 4, "none", 0),
     Command(3, "FOLD", 0, "none", 0)}

(* The main pot of the blinds, to either of the two who posted them. *)
MCSettlements ==
    {<<[pot_index |-> 0, amount |-> 2, won |-> [s \in Seats |-> IF s = w THEN 2 ELSE 0]]>> :
       w \in {2, 3}}

(* README: "Optimistic concurrency through expected_version and            *)
(* state_version".  Every committed change of a round raises its version,  *)
(* so that whoever loaded the round before is told.                        *)
EveryChangeRaisesVersion ==
    [][hand'.state_version > hand.state_version]_hand

(* README: the same claim, for settlement.  Requests that settle the same  *)
(* round at once never hand out more chips than the round holds.           *)
SettledOnce ==
    [][hand.status = "COMPLETED" =>
         SumFunction(hand'.stack_remaining) <= SumFunction(hand.stack_remaining)]_hand

(* bet_command_service.py: a key is refused as "already used in round ...  *)
(* with a different payload".  A retry of the very request that was        *)
(* recorded is not refused.                                                *)
ConflictMeansDifferentPayload ==
    \A r \in Requests : tx[r].at = "conflict" =>
       \E b \in Recorded(tx[r].command.bet) : b.command # tx[r].command.bet
=============================================================================
