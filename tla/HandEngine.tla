----------------------------- MODULE HandEngine -----------------------------
(***************************************************************************)
(* The pure hold'em engine of game-service (app/domain/engine): positions, *)
(* forced bets, the validator, the turn engine, the action pipeline and    *)
(* street progression.                                                     *)
(*                                                                         *)
(* A hand h is one row of `rounds` joined with its `round_players`.  The   *)
(* unique keys (round_id, player_id) and (round_id, seat_number) make      *)
(* player and seat interchangeable, so a player is named by the seat.  A   *)
(* numeric column of round_players is a function on Seats; a Boolean one   *)
(* is the set of seats where it is true.  A seat that was not dealt in is  *)
(* never active and holds no chips.                                        *)
(***************************************************************************)
EXTENDS Integers, FiniteSets, FiniteSetsExt, Functions

CONSTANT Seats          \* seat numbers of the table

NoSeat == 0             \* None: nobody acts, or nobody has been aggressive

ASSUME SeatsAssumption == Seats \subseteq Nat \ {NoSeat} /\ IsFiniteSet(Seats)

Statuses == {"NONE", "ACTIVE", "COMPLETED"}     \* NONE: no round yet
Streets == {"PRE_FLOP", "FLOP", "TURN", "RIVER", "SHOWDOWN"}

HandState ==
    [status: Statuses, street: Streets, dealer_seat: Nat, big_blind_seat: Nat,
     big_blind_amount: Nat, pot_amount: Nat, current_highest_bet: Nat,
     minimum_raise_amount: Nat, acting_player_id: Seats \cup {NoSeat},
     is_action_closed: BOOLEAN, last_aggressor_seat: Seats \cup {NoSeat},
     state_version: Nat, stack_remaining: [Seats -> Nat],
     committed_this_street: [Seats -> Nat], committed_this_hand: [Seats -> Nat],
     has_folded: SUBSET Seats, is_all_in: SUBSET Seats,
     is_active_in_hand: SUBSET Seats]

Level == [small_blind: Nat \ {0}, big_blind: Nat \ {0}, ante: Nat]
Positions == [dealer: Seats, sb: Seats, bb: Seats]

AtMostOne(S) == \A a, b \in S : a = b

Smaller(a, b) == IF a <= b THEN a ELSE b

(* The first seat of S met going clockwise from seat ref, ref itself last. *)
FirstAfter(S, ref) ==
    LET later == {s \in S : s > ref}
    IN  Min(IF later # {} THEN later ELSE S)

-----------------------------------------------------------------------------
(* positions.py                                                            *)

(* Dealer, small blind and big blind once the dealer is known: heads-up    *)
(* the dealer posts the small blind.                                       *)
PositionsFrom(seats, dealer) ==
    LET left == FirstAfter(seats, dealer)
    IN  IF Cardinality(seats) = 2
        THEN [dealer |-> dealer, sb |-> dealer, bb |-> left]
        ELSE [dealer |-> dealer, sb |-> left, bb |-> FirstAfter(seats, left)]

AssignPositions(seats, starting) ==
    PositionsFrom(seats, IF starting \in seats THEN starting ELSE Min(seats))

RotatePositions(seats, current) ==
    PositionsFrom(seats, IF current \in seats THEN FirstAfter(seats, current)
                                              ELSE Min(seats))

-----------------------------------------------------------------------------
(* blind_posting.py                                                        *)

(* Mutant: the blind is capped by the stack before the ante. *)
PostedBlindUncapped(s, chips, pos, level) ==
    LET blind == IF s = pos.sb THEN level.small_blind
                 ELSE IF s = pos.bb THEN level.big_blind ELSE 0
    IN  Smaller(level.ante, chips) + Smaller(blind, chips)

(* What seat s, holding chips, is forced to commit: the ante first, then   *)
(* its blind out of what is left, each capped by the stack.                *)
Posted(s, chips, pos, level) ==
    LET ante  == Smaller(level.ante, chips)
        blind == CASE s = pos.sb -> level.small_blind
                   [] s # pos.sb /\ s = pos.bb -> level.big_blind
                   [] OTHER -> 0
    IN  ante + Smaller(blind, chips - ante)

(* start_round: the row a new hand is created with.  chips[s] is the       *)
(* snapshot's chip count, zero for a seat that is not dealt in.            *)
DealtHand(chips, pos, level) ==
    LET dealt  == {s \in Seats : chips[s] > 0}
        posted == [s \in Seats |-> Posted(s, chips[s], pos, level)]
    IN  [status |-> "ACTIVE", street |-> "PRE_FLOP",
         dealer_seat |-> pos.dealer, big_blind_seat |-> pos.bb,
         big_blind_amount |-> level.big_blind,
         pot_amount |-> SumFunction(posted),
         current_highest_bet |-> Max({posted[s] : s \in dealt}),
         minimum_raise_amount |-> level.big_blind,
         acting_player_id |-> IF pos.bb \in dealt THEN FirstAfter(dealt, pos.bb)
                                                  ELSE Min(dealt),
         is_action_closed |-> FALSE, last_aggressor_seat |-> NoSeat,
         state_version |-> 1,
         stack_remaining |-> [s \in Seats |-> chips[s] - posted[s]],
         committed_this_street |-> posted, committed_this_hand |-> posted,
         has_folded |-> {},
         is_all_in |-> {s \in Seats : chips[s] = posted[s] /\ posted[s] > 0},
         is_active_in_hand |-> dealt]

-----------------------------------------------------------------------------
(* turn_engine.py                                                          *)

CanAct(h) == (h.is_active_in_hand \ h.has_folded) \ h.is_all_in

(* Mutant: players who are all-in are not skipped. *)
NeedsActionAllIn(h) ==
    {s \in h.is_active_in_hand \ h.has_folded :
        h.committed_this_street[s] < h.current_highest_bet}

NeedsAction(h) ==
    {s \in CanAct(h) : h.committed_this_street[s] < h.current_highest_bet}

(* Mutant: the scan stops at the highest seat instead of wrapping around. *)
NextToActNoWrap(h, current) ==
    LET later == {s \in NeedsAction(h) : s > current}
    IN  IF AtMostOne(CanAct(h)) \/ later = {} THEN NoSeat ELSE Min(later)

(* The seat that acts after seat current, or NoSeat when betting closes:   *)
(* the first seat clockwise that owes chips, unless the scan meets the     *)
(* last aggressor before it.                                               *)
NextToAct(h, current) ==
    LET stops == NeedsAction(h) \cup (CanAct(h) \cap {h.last_aggressor_seat})
        first == FirstAfter(stops, current)
    IN  IF AtMostOne(CanAct(h)) \/ stops = {} \/ first = h.last_aggressor_seat
        THEN NoSeat
        ELSE first

-----------------------------------------------------------------------------
(* validator.py                                                            *)

Actions == {"FOLD", "CHECK", "CALL", "BET", "RAISE", "ALL_IN"}

CallAmount(h, p) ==
    IF h.current_highest_bet > h.committed_this_street[p]
    THEN h.current_highest_bet - h.committed_this_street[p] ELSE 0

(* Mutant: closed betting is not refused. *)
MayActIgnoringClosure(h, p) ==
    /\ h.status = "ACTIVE"
    /\ p \in CanAct(h)
    /\ h.acting_player_id \in {NoSeat, p}

(* Round open, player live, and the turn his (or nobody's in particular).  *)
MayAct(h, p) ==
    /\ h.status = "ACTIVE"
    /\ ~h.is_action_closed
    /\ p \in CanAct(h)
    /\ h.acting_player_id \in {NoSeat, p}

(* The chips a request moves from the stack; for RAISE the requested       *)
(* amount is the total street commitment.                                  *)
Chips(h, p, action, amount) ==
    CASE action = "CALL"   -> Smaller(CallAmount(h, p), h.stack_remaining[p])
      [] action = "BET"    -> amount
      [] action = "RAISE"  -> amount - h.committed_this_street[p]
      [] action = "ALL_IN" -> h.stack_remaining[p]
      [] OTHER             -> 0

(* A sized bet fits the stack and is a full raise unless it is all-in.     *)
SizeAllowed(h, p, chips, increment) ==
    /\ chips > 0
    /\ chips <= h.stack_remaining[p]
    /\ increment >= h.minimum_raise_amount \/ chips = h.stack_remaining[p]

ValidateBet(h, p, action, amount) ==
    /\ MayAct(h, p)
    /\ \/ action = "FOLD"
       \/ action = "CHECK" /\ CallAmount(h, p) = 0
       \/ action = "CALL" /\ CallAmount(h, p) > 0
       \/ /\ action = "BET" /\ h.current_highest_bet = 0
          /\ SizeAllowed(h, p, amount, amount)
       \/ /\ action = "RAISE" /\ h.current_highest_bet > 0 /\ amount > 0
          /\ SizeAllowed(h, p, Chips(h, p, action, amount),
                         amount - h.current_highest_bet)
       \/ action = "ALL_IN" /\ h.stack_remaining[p] > 0

(* A call, bet or raise that takes the whole stack is recorded as ALL_IN.  *)
EffectiveAction(h, p, action, amount) ==
    IF /\ action \in {"CALL", "BET", "RAISE"}
       /\ Chips(h, p, action, amount) = h.stack_remaining[p]
    THEN "ALL_IN" ELSE action

-----------------------------------------------------------------------------
(* action_pipeline.py                                                      *)

(* Mutant: a short all-in lowers the minimum raise. *)
RaisedMinimumShort(minimum, increment) ==
    IF increment > 0 THEN increment ELSE minimum

(* Only a full raise changes the minimum raise. *)
RaisedMinimum(minimum, increment) ==
    IF increment > minimum THEN increment ELSE minimum

(* The hand after a validated action, before the turn moves on.  Every     *)
(* all-in counts as aggression, also one that does not reach the bet.      *)
Committed(h, p, action, amount) ==
    LET effective == EffectiveAction(h, p, action, amount)
        chips     == Chips(h, p, action, amount)
        post      == h.committed_this_street[p] + chips
        increment == post - h.current_highest_bet
        aggressive == effective \in {"BET", "RAISE", "ALL_IN"}
        folds     == IF effective = "FOLD" THEN {p} ELSE {}
    IN  [h EXCEPT
           !.stack_remaining[p] = @ - chips,
           !.committed_this_street[p] = post,
           !.committed_this_hand[p] = @ + chips,
           !.has_folded = @ \cup folds,
           !.is_active_in_hand = @ \ folds,
           !.is_all_in = @ \cup (IF effective = "ALL_IN" THEN {p} ELSE {}),
           !.pot_amount = @ + chips,
           !.current_highest_bet =
               IF aggressive /\ increment > 0 THEN post ELSE @,
           !.minimum_raise_amount =
               IF aggressive THEN RaisedMinimum(@, increment) ELSE @,
           !.last_aggressor_seat = IF aggressive THEN p ELSE @]

PassTurn(h, p) ==
    [h EXCEPT !.acting_player_id = NextToAct(h, p),
              !.is_action_closed = (NextToAct(h, p) = NoSeat),
              !.state_version = @ + 1]

ApplyAction(h, p, action, amount) ==
    PassTurn(Committed(h, p, action, amount), p)

-----------------------------------------------------------------------------
(* street_progression.py and advance_street                                *)

NextStreet == [PRE_FLOP |-> "FLOP", FLOP |-> "TURN", TURN |-> "RIVER",
               RIVER |-> "SHOWDOWN"]

NotFolded(h) == h.is_active_in_hand \ h.has_folded

EvaluateStreetEnd(h) ==
    CASE AtMostOne(NotFolded(h)) -> "SETTLE_HAND"
      [] ~AtMostOne(NotFolded(h))
         /\ (h.street \in {"RIVER", "SHOWDOWN"} \/ AtMostOne(CanAct(h)))
            -> "SHOWDOWN"
      [] OTHER -> "NEXT_STREET"

(* Closes betting without giving the turn to anyone. *)
ClosedHand(h) ==
    [h EXCEPT !.is_action_closed = TRUE, !.acting_player_id = NoSeat,
              !.state_version = @ + 1]

AdvancedHand(h) ==
    CASE EvaluateStreetEnd(h) = "SETTLE_HAND" -> ClosedHand(h)
      [] EvaluateStreetEnd(h) = "SHOWDOWN" ->
           [ClosedHand(h) EXCEPT
              !.street = "SHOWDOWN", !.current_highest_bet = 0,
              !.committed_this_street = [s \in Seats |-> 0]]
      [] EvaluateStreetEnd(h) = "NEXT_STREET" ->
           [h EXCEPT
              !.street = NextStreet[@], !.current_highest_bet = 0,
              !.minimum_raise_amount = h.big_blind_amount,
              !.acting_player_id = FirstAfter(CanAct(h), h.dealer_seat),
              !.is_action_closed = FALSE, !.last_aggressor_seat = NoSeat,
              !.committed_this_street = [s \in Seats |-> 0],
              !.state_version = @ + 1]
=============================================================================
