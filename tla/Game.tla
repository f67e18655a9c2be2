-------------------------------- MODULE Game --------------------------------
(***************************************************************************)
(* One game of game-service: the row of `games`, its room snapshot and the *)
(* rounds played in it, each command of GameCommandService,                *)
(* BetCommandService and TableRuntimeCommandService being one transaction. *)
(* Only the latest round is kept: earlier ones are all COMPLETED and no    *)
(* command below changes them.                                             *)
(***************************************************************************)
EXTENDS HandViews

CONSTANTS
    Levels,         \* configured blind levels: number -> [small_blind, big_blind, ante]
    InitialChips,   \* the chip counts a game may start with
    Submissions(_), \* the payouts a client may submit for a hand, valid or not
    MaxRounds,      \* bound on the rounds of a game
    MaxVersion      \* bound on the state_version of a round

LevelNumbers == DOMAIN Levels

ASSUME LevelsAssumption ==
    /\ LevelNumbers \subseteq Nat \ {0}
    /\ LevelNumbers # {}
    /\ IsFiniteSet(LevelNumbers)
    /\ Levels \in [LevelNumbers -> Level]

(* A room seats at least two players with chips when a game starts. *)
ASSUME InitialChipsAssumption ==
    /\ InitialChips \subseteq [Seats -> Nat]
    /\ \A c \in InitialChips : ~AtMostOne({s \in Seats : c[s] > 0})

ASSUME BoundsAssumption == MaxRounds \in Nat /\ MaxVersion \in Nat

VARIABLES
    game,       \* the games row
    chips,      \* chip_count of the room snapshot's players
    hand,       \* the latest round and its round_players
    rounds,     \* how many rounds the game has
    paid        \* payouts of the latest round, per seat

vars == <<game, chips, hand, rounds, paid>>

MaxLevel == Max(LevelNumbers)

(* blind_level with its fallback: the lowest configured level. *)
CurrentLevel ==
    Levels[IF game.current_blind_level \in LevelNumbers
           THEN game.current_blind_level ELSE Min(LevelNumbers)]

(* Seats of the snapshot that are active, not eliminated and hold chips. *)
ActiveSeats(c) == {s \in Seats : c[s] > 0}

CompletedRounds == IF hand.status = "ACTIVE" THEN rounds - 1 ELSE rounds

NoHand ==
    [status |-> "NONE", street |-> "PRE_FLOP", dealer_seat |-> NoSeat,
     big_blind_seat |-> NoSeat, big_blind_amount |-> 0, pot_amount |-> 0,
     current_highest_bet |-> 0, minimum_raise_amount |-> 0,
     acting_player_id |-> NoSeat, is_action_closed |-> TRUE,
     last_aggressor_seat |-> NoSeat, state_version |-> 0,
     stack_remaining |-> [s \in Seats |-> 0],
     committed_this_street |-> [s \in Seats |-> 0],
     committed_this_hand |-> [s \in Seats |-> 0],
     has_folded |-> {}, is_all_in |-> {}, is_active_in_hand |-> {}]

-----------------------------------------------------------------------------
(* start_game: positions from the room's starting dealer, blind level 1. *)
StartedGame(c, starting) ==
    [status |-> "ACTIVE", current_blind_level |-> 1, hands_played |-> 0,
     hands_at_current_level |-> 0,
     positions |-> AssignPositions(ActiveSeats(c), starting)]

Init ==
    /\ chips \in InitialChips
    /\ \E starting \in Seats : game = StartedGame(chips, starting)
    /\ hand = NoHand
    /\ rounds = 0
    /\ paid = [s \in Seats |-> 0]

(* The round is started by the controller or by the player on the button. *)
StartAuthorized(by) ==
    by = "controller" \/ (by = "button" /\ game.positions.dealer \in ActiveSeats(chips))

StartRound(by) ==
    /\ game.status = "ACTIVE"
    /\ hand.status # "ACTIVE"
    /\ rounds < MaxRounds
    /\ StartAuthorized(by)
    /\ hand' = DealtHand(chips, game.positions, CurrentLevel)
    /\ rounds' = rounds + 1
    /\ paid' = [s \in Seats |-> 0]
    /\ UNCHANGED <<game, chips>>

(* The amounts a client may submit: only BET and RAISE read theirs. *)
Amounts(action) ==
    IF action \in {"BET", "RAISE"}
    THEN 0..Max({hand.stack_remaining[s] + hand.committed_this_street[s] : s \in Seats})
    ELSE {0}

PlaceBet(p, action, amount) ==
    /\ ValidateBet(hand, p, action, amount)
    /\ hand.state_version < MaxVersion
    /\ hand' = ApplyAction(hand, p, action, amount)
    /\ UNCHANGED <<game, chips, rounds, paid>>

AdvanceStreet ==
    /\ hand.status = "ACTIVE"
    /\ hand.street # "SHOWDOWN"
    /\ hand.state_version < MaxVersion
    /\ hand' = AdvancedHand(hand)
    /\ UNCHANGED <<game, chips, rounds, paid>>

(* BlindClock.should_advance: the level has run for its duration; a level  *)
(* that is not configured has none.                                        *)
ShouldAdvance(g, timeIsUp) == timeIsUp /\ g.current_blind_level \in LevelNumbers

(* apply_hand_completion: count the hand and, when the level's time is     *)
(* over, move to the next level number and count its hands from zero.      *)
HandCounted(g, timeIsUp) ==
    LET advance == ShouldAdvance(g, timeIsUp) /\ g.current_blind_level < MaxLevel
    IN  [g EXCEPT
           !.hands_played = @ + 1,
           !.hands_at_current_level = IF advance THEN 0 ELSE @ + 1,
           !.current_blind_level = IF advance THEN @ + 1 ELSE @]

(* Mutant: positions are rotated over the seats of the hand just played. *)
NextPositionsStale(g, c) ==
    IF AtMostOne(ActiveSeats(c))
    THEN [g EXCEPT !.status = "FINISHED"]
    ELSE [g EXCEPT !.positions = RotatePositions(ActiveSeats(chips), @.dealer)]

(* Positions for the next hand, or the end of the game. *)
NextPositions(g, c) ==
    IF AtMostOne(ActiveSeats(c))
    THEN [g EXCEPT !.status = "FINISHED"]
    ELSE [g EXCEPT !.positions = RotatePositions(ActiveSeats(c), @.dealer)]

(* Mutant: the snapshot is synchronised before the payouts are added. *)
ResolveHandStaleSnapshot(payouts) ==
    /\ PayoutsAccepted(hand, payouts)
    /\ hand' = ResolvedHand(hand, payouts)
    /\ paid' = [s \in Seats |-> Winnings(payouts, s)]
    /\ chips' = hand.stack_remaining
    /\ game' = NextPositions(HandCounted(game, FALSE), chips')
    /\ UNCHANGED rounds

(* The hand has no ROUND_COMPLETED ledger entry yet (only reopening a hand *)
(* makes one reappear), so it is counted here.                             *)
ResolveHand(payouts) ==
    /\ PayoutsAccepted(hand, payouts)
    /\ hand' = ResolvedHand(hand, payouts)
    /\ paid' = [s \in Seats |-> Winnings(payouts, s)]
    /\ chips' = [s \in Seats |-> hand'.stack_remaining[s]]
    /\ \E timeIsUp \in BOOLEAN :
          game' = NextPositions(HandCounted(game, timeIsUp), chips')
    /\ UNCHANGED rounds

DeclareWinner(winner) == ResolveHand(WinnerTakesAll(hand, winner))

(* Mutant: the last level is not recognised. *)
AdvanceBlindsAnyLevel ==
    /\ game.status = "ACTIVE"
    /\ game.current_blind_level <= MaxLevel
    /\ game' = [game EXCEPT !.current_blind_level = @ + 1]
    /\ UNCHANGED <<chips, hand, rounds, paid>>

AdvanceBlinds ==
    /\ game.status = "ACTIVE"
    /\ game.current_blind_level < MaxLevel
    /\ game.current_blind_level + 1 \in LevelNumbers
    /\ game' = [game EXCEPT !.current_blind_level = @ + 1]
    /\ UNCHANGED <<chips, hand, rounds, paid>>

(* No status is required; the room is told separately. *)
EndGame ==
    /\ game' = [game EXCEPT !.status = "FINISHED"]
    /\ UNCHANGED <<chips, hand, rounds, paid>>

PauseTable ==
    /\ game.status = "ACTIVE"
    /\ game' = [game EXCEPT !.status = "PAUSED"]
    /\ UNCHANGED <<chips, hand, rounds, paid>>

ResumeTable ==
    /\ game.status = "PAUSED"
    /\ game' = [game EXCEPT !.status = "ACTIVE"]
    /\ UNCHANGED <<chips, hand, rounds, paid>>

(* Mutant: the completed rounds are not consulted. *)
RecordHandCompletedAlways(timeIsUp) ==
    /\ game' = HandCounted(game, timeIsUp)
    /\ UNCHANGED <<chips, hand, rounds, paid>>

(* Counts a completed hand the game has not counted yet; otherwise writes  *)
(* back what it read.                                                      *)
RecordHandCompleted(timeIsUp) ==
    /\ game' = IF game.hands_played < CompletedRounds
               THEN HandCounted(game, timeIsUp) ELSE game
    /\ UNCHANGED <<chips, hand, rounds, paid>>

(* get_session_status: the blinds announced for the table, none when the   *)
(* level is not configured.                                                *)
AnnouncedBlinds ==
    {[small_blind |-> Levels[l].small_blind, big_blind |-> Levels[l].big_blind] :
       l \in LevelNumbers \cap {game.current_blind_level}}

PlayerStep ==
    \E p \in Seats, action \in Actions :
       \E amount \in Amounts(action) : PlaceBet(p, action, amount)

SettleStep ==
    \/ \E payouts \in Submissions(hand) : ResolveHand(payouts)
    \/ \E winner \in Seats : DeclareWinner(winner)

TableStep ==
    \/ AdvanceBlinds
    \/ EndGame
    \/ PauseTable
    \/ ResumeTable
    \/ \E timeIsUp \in BOOLEAN : RecordHandCompleted(timeIsUp)

BettingNext ==
    \/ \E by \in {"controller", "button"} : StartRound(by)
    \/ PlayerStep
    \/ AdvanceStreet

Next == BettingNext \/ SettleStep \/ TableStep

Spec == Init /\ [][Next]_vars

(* The same game up to the settlement of a hand. *)
BettingSpec == Init /\ [][BettingNext]_vars

(* The player whose turn it is eventually acts. *)
FairBettingSpec == BettingSpec /\ WF_vars(PlayerStep)

-----------------------------------------------------------------------------
(* Properties                                                              *)

GameState ==
    [status: {"ACTIVE", "PAUSED", "FINISHED"}, current_blind_level: Nat \ {0},
     hands_played: Nat, hands_at_current_level: Nat,
     positions: Positions]

(* Every column keeps its type; in particular no stack, commitment or pot  *)
(* ever goes negative, so the CHECK constraints of the models never fire.  *)
TypeOK ==
    /\ game \in GameState
    /\ chips \in [Seats -> Nat]
    /\ hand \in HandState
    /\ rounds \in Nat
    /\ paid \in [Seats -> Nat]

(* start_round, apply_action and resolve_hand move chips between stack,    *)
(* commitment and pot on separate columns: while a hand is played every    *)
(* player's stack and commitment still add up to the snapshot he was dealt *)
(* in with, and once it is settled the snapshot equals the stacks.         *)
StacksMatchSnapshot ==
    \A s \in Seats :
       /\ hand.status = "ACTIVE" =>
             hand.stack_remaining[s] + hand.committed_this_hand[s] = chips[s]
       /\ hand.status = "COMPLETED" => hand.stack_remaining[s] = chips[s]

(* pot_amount is kept by increments in three places (posting, betting,     *)
(* settlement leaves it): it is always the sum of all commitments.         *)
PotIsCommitments == hand.pot_amount = SumFunction(hand.committed_this_hand)

(* The street's highest bet bounds every street commitment, across short   *)
(* all-ins, calls and the reset between streets.                           *)
BetsWithinHighest ==
    \A s \in Seats : hand.committed_this_street[s] <= hand.current_highest_bet

(* Only players dealt in take part, and such a player is marked all-in     *)
(* exactly when the stack is empty, whichever of posting, call, bet, raise *)
(* or all-in emptied it.                                                   *)
AllInMeansEmptyStack ==
    hand.status = "ACTIVE" =>
       /\ hand.is_active_in_hand \subseteq ActiveSeats(chips)
       /\ \A s \in ActiveSeats(chips) :
             s \in hand.is_all_in <=> hand.stack_remaining[s] = 0

(* next_to_act never closes betting over a player who still owes chips     *)
(* while two or more can act: the scan stops at the last aggressor only    *)
(* after everybody behind him has answered.                                *)
ClosedMeansMatched ==
    (hand.status = "ACTIVE" /\ hand.is_action_closed) =>
       AtMostOne(CanAct(hand)) \/ NeedsAction(hand) = {}

(* Folding closes the betting before the last player can fold: an open     *)
(* hand is contested by two players at least, and a hand waiting to be     *)
(* settled has somebody left to win it.                                    *)
PotHasContender ==
    hand.status = "ACTIVE" =>
       /\ NotFolded(hand) # {}
       /\ ~hand.is_action_closed => ~AtMostOne(NotFolded(hand))

(* What a contender may win by the rules of the game: from everybody as    *)
(* much as he put in himself, and whoever committed most among those who   *)
(* contest the pot also what the folded players put in above that.         *)
Winnable(h, s) ==
    LET mine == h.committed_this_hand[s]
        top  == \A q \in NotFolded(h) : h.committed_this_hand[q] <= mine
    IN  IF top THEN h.pot_amount
        ELSE SumFunction([q \in Seats |-> Smaller(h.committed_this_hand[q], mine)])

(* The layered pots of calculate_side_pots, with the dead ones merged,     *)
(* hold the whole pot, each can be won by somebody, and every contender is *)
(* eligible for pots that add up to exactly what he may win.  (Advancing a *)
(* street whose betting is open can leave contenders who have put in       *)
(* nothing; then nobody is eligible.)                                      *)
SidePotsAreFair ==
    (\E s \in NotFolded(hand) : hand.committed_this_hand[s] > 0) =>
       LET pots == CalculateSidePots(hand)
           Sum(Counts(_)) == SumFunction([i \in DOMAIN pots |->
                                IF Counts(pots[i]) THEN pots[i].amount ELSE 0])
       IN  /\ Sum(LAMBDA pot : TRUE) = hand.pot_amount
           /\ \A i \in DOMAIN pots : pots[i].eligible # {}
           /\ \A s \in NotFolded(hand) :
                 Sum(LAMBDA pot : s \in pot.eligible) = Winnable(hand, s)

(* The minimum raise never falls below the hand's big blind. *)
MinRaiseAtLeastBigBlind ==
    hand.status = "ACTIVE" => hand.minimum_raise_amount >= hand.big_blind_amount

(* Between hands the button and both blinds sit on seats that hold chips,  *)
(* and the blinds on two different ones, through every elimination.        *)
PositionsSeated ==
    (game.status \in {"ACTIVE", "PAUSED"} /\ hand.status # "ACTIVE") =>
       /\ {game.positions.dealer, game.positions.sb, game.positions.bb}
             \subseteq ActiveSeats(chips)
       /\ game.positions.sb # game.positions.bb

(* Each completed hand is counted exactly once, whether resolve_hand or    *)
(* record_hand_completed counts it.                                        *)
HandsCountedOnce == game.hands_played = CompletedRounds

(* get_table_state computes the legal actions apart from validate_bet: to  *)
(* a player able to act it shows nothing that would be refused, at any     *)
(* amount of the range shown, and it leaves out nothing that would be      *)
(* accepted unless that takes the whole stack and so is the ALL_IN shown.  *)
OffersAreExact ==
    LET p == hand.acting_player_id
        Shown(action, amount) ==
          \E o \in LegalActions(hand) :
             /\ o.action = action
             /\ action \in {"BET", "RAISE"} => amount \in o.min_amount..o.max_amount
    IN  (hand.status = "ACTIVE" /\ p \in CanAct(hand)) =>
           \A action \in Actions : \A amount \in Amounts(action) :
              /\ Shown(action, amount) => ValidateBet(hand, p, action, amount)
              /\ ValidateBet(hand, p, action, amount) =>
                    \/ Shown(action, amount)
                    \/ /\ EffectiveAction(hand, p, action, amount) = "ALL_IN"
                       /\ Shown("ALL_IN", 0)

(* Whoever a bet or a new street hands the turn to is able to act. *)
TurnPassesToPlayer ==
    [][hand'.acting_player_id # NoSeat /\ rounds' = rounds
         => hand'.acting_player_id \in CanAct(hand')]_hand

(* No command creates chips: the total never grows. *)
ChipsNeverCreated == [][SumFunction(chips') <= SumFunction(chips)]_vars

(* Whether advance_blinds or the clock of a completed hand moved the level *)
(* on, it never leaves the configured levels, where start_round would fall *)
(* back to the lowest one: every hand is dealt with the big blind that     *)
(* get_session_status announces, and never with a lower one than the hand  *)
(* before.  (The levels of the instances are numbered without a gap.)      *)
BlindsAsAnnounced ==
    [][rounds' > rounds =>
         /\ \E b \in AnnouncedBlinds : hand'.big_blind_amount = b.big_blind
         /\ hand'.big_blind_amount >= hand.big_blind_amount]_vars

(* The chips of the seats and the pot of the open hand, as one account. *)
HandOpen == hand.status = "ACTIVE"
OwnedChips == IF HandOpen THEN hand.stack_remaining ELSE chips
OpenPot == IF HandOpen THEN hand.pot_amount ELSE 0

Bank == INSTANCE ChipBank WITH stacks <- OwnedChips, pot <- OpenPot, open <- HandOpen

(* Although stacks, snapshot and pot are columns of different tables that  *)
(* every command updates separately, the game keeps its players' chips as  *)
(* ChipBank does.                                                          *)
ImplementsChipBank == Bank!Spec

(* Once a player able to act has the turn, the street's betting closes:    *)
(* the turn goes round, but neither raises nor checks keep it going for    *)
(* ever.                                                                   *)
BettingCloses ==
    (hand.status = "ACTIVE" /\ hand.acting_player_id \in CanAct(hand))
       ~> hand.is_action_closed
=============================================================================
