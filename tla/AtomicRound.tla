----------------------------- MODULE AtomicRound -----------------------------
(***************************************************************************)
(* What place_bet promises its callers: the bets of a round are applied    *)
(* one after the other, each to the state the one before left, however the *)
(* requests overlap.                                                       *)
(***************************************************************************)
EXTENDS HandEngine

CONSTANT Commands       \* the bets clients may submit

VARIABLES hand, bets    \* the round, and the bets recorded in it

NoKey == "none"

(* The row of `bets` for command c applied to hand h, with the command it  *)
(* was made from and the version it was applied to.                        *)
BetRow(h, c) ==
    [command |-> c, version |-> h.state_version,
     action |-> EffectiveAction(h, c.player, c.action, c.amount),
     amount |-> Chips(h, c.player, c.action, c.amount)]

UsedKeys == {b.command.key : b \in bets} \ {NoKey}

Bet(c) ==
    /\ ValidateBet(hand, c.player, c.action, c.amount)
    /\ c.expected_version \in {0, hand.state_version}
    /\ c.key \notin UsedKeys
    /\ hand' = ApplyAction(hand, c.player, c.action, c.amount)
    /\ bets' = bets \cup {BetRow(hand, c)}

Spec == (bets = {}) /\ [][\E c \in Commands : Bet(c)]_<<hand, bets>>
=============================================================================
