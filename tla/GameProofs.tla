----------------------------- MODULE GameProofs -----------------------------
(***************************************************************************)
(* Theorems about one game, for every table, every blind structure, every  *)
(* starting stack and any number of hands; that the scenario tests play    *)
(* the hands the game plays.                                               *)
(***************************************************************************)
EXTENDS ScenarioRunner, HandEngineProofs

(* The inductive invariant: no conjunct is inductive without the others.   *)
(* Dealing needs PositionsSeated, betting needs AllInMeansEmptyStack, and  *)
(* settling needs StacksMatchSnapshot and PotIsCommitments.                *)
Inv ==
    /\ TypeOK
    /\ StacksMatchSnapshot
    /\ PotIsCommitments
    /\ BetsWithinHighest
    /\ AllInMeansEmptyStack
    /\ MinRaiseAtLeastBigBlind
    /\ PositionsSeated
    /\ HandsCountedOnce

(* The blind level a round is dealt with is always a configured one. *)
LEMMA CurrentLevelConfigured == ASSUME game \in GameState  PROVE CurrentLevel \in Level
<1>1. Min(LevelNumbers) \in LevelNumbers
  BY LevelsAssumption, MinNat
<1> QED
  BY <1>1, LevelsAssumption DEF CurrentLevel

(* start_game establishes the invariant: no hand yet, positions on seats   *)
(* that hold chips.                                                        *)
LEMMA InitInv == Init => Inv
<1> SUFFICES ASSUME Init  PROVE Inv
  OBVIOUS
<1> DEFINE S == ActiveSeats(chips)
<1>1. chips \in [Seats -> Nat] /\ ~AtMostOne(S)
  BY InitialChipsAssumption DEF Init, ActiveSeats
<1>2. S \in SUBSET Seats /\ S \in SUBSET Nat
  BY SeatsAssumption DEF ActiveSeats
<1>3. PICK starting \in Seats : game = StartedGame(chips, starting)
  BY DEF Init
<1>4. /\ AssignPositions(S, starting) \in [dealer: S, sb: S, bb: S]
      /\ AssignPositions(S, starting).sb # AssignPositions(S, starting).bb
  <2>1. starting \in Nat
    BY SeatsAssumption
  <2> HIDE DEF S
  <2> QED
    BY <1>1, <1>2, <2>1, NextPositionsAreSeats
<1>5. game.positions = AssignPositions(S, starting)
  BY <1>3 DEF StartedGame
<1>6. game \in GameState
  BY <1>2, <1>3, <1>4 DEF StartedGame, GameState, Positions
<1>7. PICK zero \in [Seats -> Nat] : zero = [s \in Seats |-> 0]
  OBVIOUS
<1>8. /\ hand.committed_this_hand = zero /\ hand.committed_this_street = zero
      /\ hand.pot_amount = 0 /\ hand.current_highest_bet = 0
      /\ hand.status = "NONE"
  BY <1>7 DEF Init, NoHand
<1>9. hand \in HandState
  <2>1. PICK closed \in BOOLEAN, none \in Nat, nobody \in Seats \cup {NoSeat} :
           closed = TRUE /\ none = 0 /\ nobody = NoSeat
    OBVIOUS
  <2>2. hand = [status |-> "NONE", street |-> "PRE_FLOP", dealer_seat |-> none,
                big_blind_seat |-> none, big_blind_amount |-> none, pot_amount |-> none,
                current_highest_bet |-> none, minimum_raise_amount |-> none,
                acting_player_id |-> nobody, is_action_closed |-> closed,
                last_aggressor_seat |-> nobody, state_version |-> none,
                stack_remaining |-> zero, committed_this_street |-> zero,
                committed_this_hand |-> zero,
                has_folded |-> {}, is_all_in |-> {}, is_active_in_hand |-> {}]
    BY <1>7, <2>1 DEF Init, NoHand, NoSeat
  <2> QED
    BY <2>2 DEF HandState, Statuses, Streets
<1>10. TypeOK
  BY <1>1, <1>6, <1>9 DEF Init, TypeOK
<1>11. PotIsCommitments
  BY <1>7, <1>8, SeatsAssumption, SumFunctionZero DEF PotIsCommitments
<1>12. BetsWithinHighest
  BY <1>7, <1>8 DEF BetsWithinHighest
<1>13. PositionsSeated
  BY <1>4, <1>5 DEF PositionsSeated
<1>14. HandsCountedOnce
  BY <1>3, <1>8 DEF HandsCountedOnce, CompletedRounds, Init, StartedGame
<1>15. StacksMatchSnapshot /\ AllInMeansEmptyStack /\ MinRaiseAtLeastBigBlind
  BY <1>8 DEF StacksMatchSnapshot, AllInMeansEmptyStack, MinRaiseAtLeastBigBlind
<1> QED
  BY <1>10, <1>11, <1>12, <1>13, <1>14, <1>15 DEF Inv

(* start_round keeps it: the dealt hand splits the snapshot into stacks    *)
(* and postings.                                                           *)
LEMMA StartRoundInv == ASSUME Inv, NEW by, StartRound(by)  PROVE Inv'
<1>1. /\ game \in GameState /\ chips \in [Seats -> Nat] /\ game.positions \in Positions
      /\ rounds \in Nat
  BY DEF Inv, TypeOK, GameState
<1>2. {s \in Seats : chips[s] > 0} # {}
  BY DEF Inv, PositionsSeated, StartRound, ActiveSeats
<1>3. CurrentLevel \in Level
  BY <1>1, CurrentLevelConfigured
<1>4. PICK h : h = DealtHand(chips, game.positions, CurrentLevel)
  OBVIOUS
<1>5. hand' = h /\ UNCHANGED <<game, chips>> /\ rounds' = rounds + 1
  BY <1>4 DEF StartRound
<1>6. /\ h \in HandState
      /\ h.status = "ACTIVE"
      /\ \A s \in Seats : h.stack_remaining[s] + h.committed_this_hand[s] = chips[s]
      /\ h.pot_amount = SumFunction(h.committed_this_hand)
      /\ \A s \in Seats : h.committed_this_street[s] <= h.current_highest_bet
      /\ h.minimum_raise_amount = h.big_blind_amount
      /\ h.is_active_in_hand = {s \in Seats : chips[s] > 0}
      /\ \A s \in h.is_active_in_hand :
            s \in h.is_all_in <=> h.stack_remaining[s] = 0
  BY <1>1, <1>2, <1>3, <1>4, DealtHandSound
<1>7. TypeOK'
  BY <1>1, <1>5, <1>6 DEF TypeOK, StartRound
<1>8. StacksMatchSnapshot'
  BY <1>5, <1>6 DEF StacksMatchSnapshot
<1>9. PotIsCommitments' /\ BetsWithinHighest'
  BY <1>5, <1>6 DEF PotIsCommitments, BetsWithinHighest
<1>10. AllInMeansEmptyStack'
  BY <1>5, <1>6 DEF AllInMeansEmptyStack, ActiveSeats
<1>11. MinRaiseAtLeastBigBlind'
  BY <1>5, <1>6, HandColumns DEF MinRaiseAtLeastBigBlind
<1>12. PositionsSeated'
  BY <1>5, <1>6 DEF PositionsSeated
<1>13. HandsCountedOnce'
  BY <1>1, <1>5, <1>6 DEF Inv, HandsCountedOnce, CompletedRounds, StartRound
<1> QED
  BY <1>7, <1>8, <1>9, <1>10, <1>11, <1>12, <1>13 DEF Inv

(* A player able to act has chips left, on a hand whose bets add up. *)
LEMMA LivePlayerReady ==
    ASSUME Inv, hand.status = "ACTIVE", NEW p \in CanAct(hand)
    PROVE  ReadyToAct(hand, p)
<1>1. hand \in HandState /\ p \in Seats
  BY HandColumns DEF CanAct, Inv, TypeOK
<1>2. p \in ActiveSeats(chips) /\ p \notin hand.is_all_in
  BY DEF Inv, AllInMeansEmptyStack, CanAct
<1>3. hand.stack_remaining[p] # 0
  BY <1>2 DEF Inv, AllInMeansEmptyStack
<1>4. hand.stack_remaining[p] > 0
  BY <1>1, <1>3, HandColumns
<1> QED
  BY <1>4 DEF Inv, PotIsCommitments, BetsWithinHighest, ReadyToAct

(* A bet is made on a hand that is ready for it. *)
LEMMA PlaceBetSound ==
    ASSUME Inv, NEW p \in Seats, NEW action \in Actions, NEW amount \in Nat,
           PlaceBet(p, action, amount)
    PROVE  ActedSoundly(hand, p, hand')
<1>1. hand \in HandState /\ ValidateBet(hand, p, action, amount)
  BY DEF Inv, TypeOK, PlaceBet
<1>2. ReadyToAct(hand, p)
  BY <1>1, LivePlayerReady DEF ValidateBet, MayAct
<1>3. ActedSoundly(hand, p, ApplyAction(hand, p, action, amount))
  BY <1>1, <1>2, ApplyActionSound
<1> QED
  BY <1>3 DEF PlaceBet

(* place_bet keeps it: chips move from a stack to a commitment and the pot. *)
LEMMA PlaceBetInv ==
    ASSUME Inv, NEW p \in Seats, NEW action \in Actions, NEW amount \in Nat,
           PlaceBet(p, action, amount)
    PROVE  Inv'
<1>1. hand \in HandState
  BY DEF Inv, TypeOK
<1>2. hand.status = "ACTIVE"
  BY DEF PlaceBet, ValidateBet, MayAct
<1>3. PICK m : m = hand'
  OBVIOUS
<1>4. hand' = m /\ UNCHANGED <<game, chips, rounds, paid>>
  BY <1>3 DEF PlaceBet
<1>5. ActedSoundly(hand, p, m)
  BY <1>3, PlaceBetSound
<1> USE DEF ActedSoundly
<1>6. TypeOK'
  BY <1>4, <1>5 DEF Inv, TypeOK
<1>7. StacksMatchSnapshot'
  BY <1>2, <1>4, <1>5 DEF Inv, StacksMatchSnapshot
<1>8. PotIsCommitments'
  BY <1>4, <1>5 DEF Inv, PotIsCommitments
<1>9. BetsWithinHighest'
  BY <1>4, <1>5 DEF Inv, BetsWithinHighest
<1>10. AllInMeansEmptyStack'
  <2>4. \A s \in ActiveSeats(chips) : s \in m.is_all_in <=> m.stack_remaining[s] = 0
    BY <1>2, <1>5 DEF Inv, AllInMeansEmptyStack, ActiveSeats
  <2>5. m.is_active_in_hand \subseteq ActiveSeats(chips)
    BY <1>2, <1>5 DEF Inv, AllInMeansEmptyStack
  <2>6. ActiveSeats(chips)' = ActiveSeats(chips)
    BY <1>4 DEF ActiveSeats
  <2> QED
    BY <1>4, <2>4, <2>5, <2>6 DEF AllInMeansEmptyStack
<1>11. MinRaiseAtLeastBigBlind'
  BY <1>1, <1>2, <1>4, <1>5, HandColumns DEF Inv, MinRaiseAtLeastBigBlind
<1>12. PositionsSeated'
  BY <1>4, <1>5 DEF PositionsSeated
<1>13. HandsCountedOnce'
  BY <1>2, <1>4, <1>5 DEF Inv, HandsCountedOnce, CompletedRounds
<1> QED
  BY <1>6, <1>7, <1>8, <1>9, <1>10, <1>11, <1>12, <1>13 DEF Inv

(* The seat a bet hands the turn to. *)
LEMMA ActingSeat ==
    ASSUME Inv, NEW p \in Seats, NEW action \in Actions, NEW amount \in Nat,
           PlaceBet(p, action, amount)
    PROVE  hand'.acting_player_id \in CanAct(hand') \cup {NoSeat}
<1>1. ActedSoundly(hand, p, hand')
  BY PlaceBetSound
<1> QED
  BY <1>1 DEF ActedSoundly

(* advance_street keeps it: the street columns are reset, no chips move.   *)
LEMMA AdvanceStreetInv == ASSUME Inv, AdvanceStreet  PROVE Inv'
<1>1. /\ hand \in HandState /\ hand.street # "SHOWDOWN" /\ hand.status = "ACTIVE"
      /\ \A s \in Seats : hand.committed_this_street[s] <= hand.current_highest_bet
  BY DEF Inv, TypeOK, BetsWithinHighest, AdvanceStreet
<1>2. PICK m : m = AdvancedHand(hand)
  OBVIOUS
<1>3. hand' = m /\ UNCHANGED <<game, chips, rounds, paid>>
  BY <1>2 DEF AdvanceStreet
<1>4. /\ m \in HandState
      /\ m.status = hand.status
      /\ m.big_blind_amount = hand.big_blind_amount
      /\ m.stack_remaining = hand.stack_remaining
      /\ m.committed_this_hand = hand.committed_this_hand
      /\ m.pot_amount = hand.pot_amount
      /\ \A s \in Seats : m.committed_this_street[s] <= m.current_highest_bet
      /\ m.minimum_raise_amount \in {hand.minimum_raise_amount, hand.big_blind_amount}
      /\ m.is_active_in_hand = hand.is_active_in_hand
      /\ m.is_all_in = hand.is_all_in
  BY <1>1, <1>2, AdvancedHandSound
<1>5. TypeOK'
  BY <1>3, <1>4 DEF Inv, TypeOK
<1>6. StacksMatchSnapshot' /\ PotIsCommitments'
  BY <1>3, <1>4 DEF Inv, StacksMatchSnapshot, PotIsCommitments
<1>7. BetsWithinHighest'
  BY <1>3, <1>4 DEF BetsWithinHighest
<1>8. AllInMeansEmptyStack'
  BY <1>3, <1>4 DEF Inv, AllInMeansEmptyStack, ActiveSeats
<1>9. MinRaiseAtLeastBigBlind'
  BY <1>1, <1>3, <1>4, HandColumns DEF Inv, MinRaiseAtLeastBigBlind
<1>10. PositionsSeated' /\ HandsCountedOnce'
  BY <1>1, <1>3, <1>4 DEF Inv, PositionsSeated, HandsCountedOnce, CompletedRounds
<1> QED
  BY <1>5, <1>6, <1>7, <1>8, <1>9, <1>10 DEF Inv

(* What a settled hand leaves in the game: the snapshot is the stacks, the *)
(* total has not grown, the game is well formed.                           *)
LEMMA SettledSoundly ==
    ASSUME Inv, NEW payouts, ResolveHand(payouts)
    PROVE  /\ hand' \in HandState
           /\ hand'.status = "COMPLETED"
           /\ hand'.committed_this_street = hand.committed_this_street
           /\ hand'.committed_this_hand = hand.committed_this_hand
           /\ hand'.pot_amount = hand.pot_amount
           /\ hand'.current_highest_bet = hand.current_highest_bet
           /\ chips' = hand'.stack_remaining
           /\ chips' \in [Seats -> Nat]
           /\ paid' \in [Seats -> Nat]
           /\ SumFunction(chips') <= SumFunction(chips)
<1>1. /\ hand \in HandState /\ hand.status = "ACTIVE" /\ payouts \in PayoutRequest
      /\ TotalPaid(payouts) <= hand.pot_amount
  BY DEF Inv, TypeOK, ResolveHand, PayoutsAccepted
<1>2. PICK w : w = [s \in Seats |-> Winnings(payouts, s)]
  OBVIOUS
<1>3. w \in [Seats -> Nat] /\ SumFunction(w) = TotalPaid(payouts)
  BY <1>1, <1>2, SubmissionSums
<1>4. hand' = ResolvedHand(hand, payouts) /\ paid' = w
      /\ chips' = [s \in Seats |-> hand'.stack_remaining[s]]
  BY <1>2 DEF ResolveHand
<1>5. PICK m : m = ResolvedHand(hand, payouts)
  OBVIOUS
<1>6. /\ m \in HandState
      /\ m.status = "COMPLETED"
      /\ m.stack_remaining = [s \in Seats |-> hand.stack_remaining[s] + w[s]]
      /\ m.committed_this_street = hand.committed_this_street
      /\ m.committed_this_hand = hand.committed_this_hand
      /\ m.pot_amount = hand.pot_amount
      /\ m.current_highest_bet = hand.current_highest_bet
  BY <1>1, <1>2, <1>3, <1>5, ResolvedHandSound
<1>7. m.stack_remaining \in [Seats -> Nat]
  BY <1>6, HandColumns
<1>8. chips' = m.stack_remaining
  BY <1>4, <1>5, <1>7
<1>9. SumFunction(chips') <= SumFunction(chips)
  <2>1. PICK a, c, stacks : /\ a = hand.stack_remaining
                            /\ c = hand.committed_this_hand
                            /\ stacks = m.stack_remaining
    OBVIOUS
  <2>2. /\ a \in [Seats -> Nat] /\ c \in [Seats -> Nat]
        /\ stacks \in [Seats -> Nat] /\ chips \in [Seats -> Nat]
    BY <1>1, <1>7, <2>1, HandColumns DEF Inv, TypeOK
  <2>3. \A s \in Seats : chips[s] = a[s] + c[s]
    BY <1>1, <2>1 DEF Inv, StacksMatchSnapshot
  <2>a. \A s \in Seats : stacks[s] = a[s] + w[s]
    BY <1>6, <2>1
  <2>b. IsFiniteSet(Seats)
    BY SeatsAssumption
  <2>4. SumFunction(chips) = SumFunction(a) + SumFunction(c)
    BY <2>2, <2>3, <2>b, SumFunctionPlus
  <2>5. SumFunction(stacks) = SumFunction(a) + SumFunction(w)
    BY <1>3, <2>2, <2>a, <2>b, SumFunctionPlus
  <2>6. SumFunction(w) <= SumFunction(c)
    BY <1>1, <1>3, <2>1 DEF Inv, PotIsCommitments
  <2>7. SumFunction(a) \in Nat /\ SumFunction(c) \in Nat /\ SumFunction(w) \in Nat
    BY <1>3, <2>2, SeatsAssumption, SumFunctionNat
  <2> QED
    BY <1>8, <2>1, <2>4, <2>5, <2>6, <2>7
<1> QED
  BY <1>3, <1>4, <1>5, <1>6, <1>7, <1>8, <1>9

(* resolve_hand keeps it: stacks and snapshot agree again, the hand is     *)
(* counted and the button moves to a seat with chips, or the game ends.    *)
LEMMA ResolveHandInv == ASSUME Inv, NEW payouts, ResolveHand(payouts)  PROVE Inv'
<1>1. /\ hand' \in HandState
      /\ hand'.status = "COMPLETED"
      /\ hand'.committed_this_street = hand.committed_this_street
      /\ hand'.committed_this_hand = hand.committed_this_hand
      /\ hand'.pot_amount = hand.pot_amount
      /\ hand'.current_highest_bet = hand.current_highest_bet
      /\ chips' = hand'.stack_remaining
      /\ chips' \in [Seats -> Nat]
      /\ paid' \in [Seats -> Nat]
  BY SettledSoundly
<1>2. game \in GameState /\ hand.status = "ACTIVE" /\ rounds \in Nat
  BY DEF Inv, TypeOK, ResolveHand, PayoutsAccepted
<1>3. PICK timeIsUp \in BOOLEAN :
         game' = NextPositions(HandCounted(game, timeIsUp), chips')
  BY DEF ResolveHand
<1>4. PICK g : g = HandCounted(game, timeIsUp)
  OBVIOUS
<1>5. /\ g \in GameState /\ g.hands_played = game.hands_played + 1
      /\ g.positions = game.positions /\ g.status = game.status
  <2> DEFINE advance == /\ ShouldAdvance(game, timeIsUp)
                        /\ game.current_blind_level < MaxLevel
  <2>1. /\ game.hands_at_current_level \in Nat /\ game.current_blind_level \in Nat \ {0}
        /\ game.hands_played \in Nat
    BY <1>2 DEF GameState
  <2>2. PICK hands \in Nat :
           hands = IF advance THEN 0 ELSE game.hands_at_current_level + 1
    BY <2>1
  <2>3. PICK level \in Nat \ {0} :
           level = IF advance THEN game.current_blind_level + 1
                   ELSE game.current_blind_level
    BY <2>1
  <2>4. PICK n \in Nat : n = game.hands_played + 1
    BY <2>1
  <2>5. g = [game EXCEPT !.hands_played = n, !.hands_at_current_level = hands,
                         !.current_blind_level = level]
    BY <1>4, <2>2, <2>3, <2>4, Zenon DEF HandCounted
  <2> QED
    BY <1>2, <2>4, <2>5 DEF GameState
<1>6. PICK S : S = ActiveSeats(chips)'
  OBVIOUS
<1>7. S \in SUBSET Seats /\ S \in SUBSET Nat /\ ActiveSeats(chips') = S
  BY <1>6, SeatsAssumption DEF ActiveSeats
<1>8. CASE AtMostOne(S)
  <2>1. game' = [g EXCEPT !.status = "FINISHED"]
    BY <1>3, <1>4, <1>7, <1>8 DEF NextPositions
  <2>2. game' \in GameState /\ game'.status = "FINISHED"
        /\ game'.hands_played = g.hands_played
    BY <1>5, <2>1 DEF GameState
  <2>3. PositionsSeated'
    BY <2>2 DEF PositionsSeated
  <2> QED
    BY <1>1, <1>2, <1>5, <2>2, <2>3
       DEF ResolveHand, Inv, TypeOK, StacksMatchSnapshot, PotIsCommitments,
           BetsWithinHighest, AllInMeansEmptyStack, MinRaiseAtLeastBigBlind,
           HandsCountedOnce, CompletedRounds
<1>9. CASE ~AtMostOne(S)
  <2>1. PICK pos : pos = RotatePositions(S, game.positions.dealer)
    OBVIOUS
  <2>2. pos \in [dealer: S, sb: S, bb: S] /\ pos.sb # pos.bb
    <3>1. game.positions.dealer \in Nat
      BY <1>2, SeatsAssumption DEF GameState, Positions
    <3> QED
      BY <1>7, <1>9, <2>1, <3>1, NextPositionsAreSeats
  <2>3. game' = [g EXCEPT !.positions = pos]
    BY <1>3, <1>4, <1>5, <1>7, <1>9, <2>1 DEF NextPositions
  <2>4. game' \in GameState /\ game'.positions = pos
        /\ game'.hands_played = g.hands_played
    BY <1>5, <1>7, <2>2, <2>3 DEF GameState, Positions
  <2>5. PositionsSeated'
    BY <1>6, <2>2, <2>4 DEF PositionsSeated
  <2> QED
    BY <1>1, <1>2, <1>5, <2>4, <2>5
       DEF ResolveHand, Inv, TypeOK, StacksMatchSnapshot, PotIsCommitments,
           BetsWithinHighest, AllInMeansEmptyStack, MinRaiseAtLeastBigBlind,
           HandsCountedOnce, CompletedRounds
<1> QED
  BY <1>8, <1>9

(* The table commands write the games row and nothing else. *)
LEMMA TableStepInv == ASSUME Inv, TableStep  PROVE Inv'
<1>1. game \in GameState
  BY DEF Inv, TypeOK
<1>2. /\ game' \in GameState
      /\ game'.hands_played = game.hands_played
      /\ game'.positions = game.positions
      /\ game'.status \in {"ACTIVE", "PAUSED"} => game.status \in {"ACTIVE", "PAUSED"}
      /\ UNCHANGED <<chips, hand, rounds, paid>>
  <2>1. CASE AdvanceBlinds
    BY <1>1, <2>1 DEF AdvanceBlinds, GameState
  <2>2. CASE EndGame
    BY <1>1, <2>2 DEF EndGame, GameState
  <2>3. CASE PauseTable
    BY <1>1, <2>3 DEF PauseTable, GameState
  <2>4. CASE ResumeTable
    BY <1>1, <2>4 DEF ResumeTable, GameState
  <2>5. CASE \E timeIsUp \in BOOLEAN : RecordHandCompleted(timeIsUp)
    <3>1. ~(game.hands_played < CompletedRounds)
      BY <1>1 DEF Inv, HandsCountedOnce, GameState
    <3> QED
      BY <1>1, <2>5, <3>1 DEF RecordHandCompleted
  <2> QED
    BY <2>1, <2>2, <2>3, <2>4, <2>5 DEF TableStep
<1>3. TypeOK'
  BY <1>2 DEF Inv, TypeOK
<1>4. StacksMatchSnapshot' /\ PotIsCommitments' /\ BetsWithinHighest'
  BY <1>2 DEF Inv, StacksMatchSnapshot, PotIsCommitments, BetsWithinHighest
<1>5. AllInMeansEmptyStack' /\ MinRaiseAtLeastBigBlind'
  BY <1>2 DEF Inv, AllInMeansEmptyStack, MinRaiseAtLeastBigBlind, ActiveSeats
<1>6. PositionsSeated'
  BY <1>2 DEF Inv, PositionsSeated, ActiveSeats
<1>7. HandsCountedOnce'
  BY <1>2 DEF Inv, HandsCountedOnce, CompletedRounds
<1> QED
  BY <1>3, <1>4, <1>5, <1>6, <1>7 DEF Inv

(* Nothing changes when no command runs. *)
LEMMA StutterInv == ASSUME Inv, UNCHANGED vars  PROVE Inv'
BY DEF Inv, vars, TypeOK, StacksMatchSnapshot, PotIsCommitments, BetsWithinHighest,
       AllInMeansEmptyStack, MinRaiseAtLeastBigBlind, PositionsSeated,
       HandsCountedOnce, CompletedRounds, ActiveSeats

(* Which command a step is. *)
LEMMA NextCases ==
    ASSUME Next
    PROVE  \/ \E by : StartRound(by)
           \/ \E p \in Seats, action \in Actions, amount \in Nat :
                 PlaceBet(p, action, amount)
           \/ AdvanceStreet
           \/ \E payouts : ResolveHand(payouts)
           \/ TableStep
<1>1. CASE PlayerStep
  <2>1. PICK p \in Seats, action \in Actions :
           \E amount \in Amounts(action) : PlaceBet(p, action, amount)
    BY <1>1 DEF PlayerStep
  <2>2. PICK amount \in Amounts(action) : PlaceBet(p, action, amount)
    BY <2>1
  <2>3. amount \in Nat
    BY DEF Amounts
  <2> QED
    BY <2>2, <2>3
<1>2. CASE SettleStep
  BY <1>2 DEF SettleStep, DeclareWinner
<1> QED
  BY <1>1, <1>2 DEF Next, BettingNext

(* The invariant is inductive. *)
LEMMA NextInv == ASSUME Inv, [Next]_vars  PROVE Inv'
BY NextCases, StutterInv, StartRoundInv, PlaceBetInv, AdvanceStreetInv,
   ResolveHandInv, TableStepInv

(* Every reachable state of a game satisfies the inductive invariant. *)
THEOREM Safety == Spec => []Inv
<1>1. Init => Inv
  BY InitInv
<1>2. Inv /\ [Next]_vars => Inv'
  BY NextInv
<1> QED
  BY <1>1, <1>2, PTL DEF Spec

(* Every column keeps its type through every command; in particular no     *)
(* stack, commitment or pot goes negative.                                 *)
THEOREM TypeCorrect == Spec => []TypeOK
BY Safety, PTL DEF Inv

(* Every stack and commitment of a hand add up to the snapshot, through    *)
(* posting, betting and settlement.                                        *)
THEOREM ChipsAccountedFor == Spec => []StacksMatchSnapshot
BY Safety, PTL DEF Inv

(* pot_amount, kept by increments on its own row, is the sum of what every *)
(* player's row says was committed.                                        *)
THEOREM PotMatchesCommitments == Spec => []PotIsCommitments
BY Safety, PTL DEF Inv

(* No commitment exceeds the highest bet, an all-in is an empty stack and  *)
(* the minimum raise stays a big blind at least.                           *)
THEOREM BettingBounded ==
    Spec => [](BetsWithinHighest /\ AllInMeansEmptyStack /\ MinRaiseAtLeastBigBlind)
BY Safety, PTL DEF Inv

(* Through every elimination button and blinds stay on seats with chips.   *)
THEOREM ButtonStaysSeated == Spec => []PositionsSeated
BY Safety, PTL DEF Inv

(* Every completed hand is counted exactly once. *)
THEOREM EveryHandCountedOnce == Spec => []HandsCountedOnce
BY Safety, PTL DEF Inv

(* The layered pots of calculate_side_pots hold the whole pot, can all be  *)
(* won, and are open to every contender for exactly what he may win,       *)
(* however often players went all-in or folded on the way.                 *)
THEOREM SidePotsFair == Spec => []SidePotsAreFair
<1>1. Inv => SidePotsAreFair
  <2> SUFFICES ASSUME Inv, \E s \in NotFolded(hand) : hand.committed_this_hand[s] > 0
               PROVE  SidePotsAreFair
    BY DEF SidePotsAreFair
  <2>0. hand \in HandState /\ hand.pot_amount = SumFunction(hand.committed_this_hand)
    BY DEF Inv, TypeOK, PotIsCommitments
  <2>1. PICK c, pots : c = hand.committed_this_hand /\ pots = CalculateSidePots(hand)
    OBVIOUS
  <2>2. SumFunction(PotAmounts(pots)) = hand.pot_amount
    BY <2>0, <2>1, SidePotsHoldAll
  <2>3. [i \in DOMAIN pots |-> IF TRUE THEN pots[i].amount ELSE 0] = PotAmounts(pots)
    BY DEF PotAmounts
  <2>4. /\ \A i \in DOMAIN pots : pots[i].eligible # {}
        /\ \A s \in NotFolded(hand) :
              OpenTo(pots, s)
                 = IF \A q \in NotFolded(hand) : c[q] <= c[s] THEN SumFunction(c)
                   ELSE SumFunction([q \in Seats |-> Smaller(c[q], c[s])])
    <3>1. \E s \in NotFolded(hand) : c[s] > 0
      BY <2>1
    <3> QED
      BY ONLY <2>0, <2>1, <3>1, SidePotsShared
  <2>5. \A s \in NotFolded(hand) : OpenTo(pots, s) = Winnable(hand, s)
    BY ONLY <2>0, <2>1, <2>4 DEF Winnable
  <2> QED
    BY ONLY <2>1, <2>2, <2>3, <2>4, <2>5 DEF SidePotsAreFair, OpenTo
<1> QED
  BY <1>1, Safety, PTL

(* No command, whatever payouts are submitted to it, creates chips. *)
THEOREM NoChipsCreated == Spec => ChipsNeverCreated
<1>1. Inv /\ [Next]_vars => [SumFunction(chips') <= SumFunction(chips)]_vars
  <2> SUFFICES ASSUME Inv, Next  PROVE SumFunction(chips') <= SumFunction(chips)
    OBVIOUS
  <2>1. SumFunction(chips) \in Nat
    <3>1. chips \in [Seats -> Nat] /\ IsFiniteSet(Seats)
      BY SeatsAssumption DEF Inv, TypeOK
    <3> QED
      BY <3>1, SumFunctionNat
  <2>2. CASE \E payouts : ResolveHand(payouts)
    BY <2>2, SettledSoundly
  <2>3. ASSUME chips' = chips
        PROVE  SumFunction(chips') <= SumFunction(chips)
    BY <2>1, <2>3
  <2> QED
    BY <2>2, <2>3, NextCases
       DEF StartRound, PlaceBet, AdvanceStreet, TableStep, AdvanceBlinds, EndGame,
           PauseTable, ResumeTable, RecordHandCompleted
<1> QED
  BY <1>1, Safety, PTL DEF Spec, ChipsNeverCreated

(* Whoever a bet or a new street hands the turn to is able to act. *)
THEOREM TurnGoesToPlayer == Spec => TurnPassesToPlayer
<1> DEFINE Passed == hand'.acting_player_id # NoSeat /\ rounds' = rounds
                        => hand'.acting_player_id \in CanAct(hand')
<1>1. Inv /\ [Next]_vars => [Passed]_hand
  <2> SUFFICES ASSUME Inv, Next, hand' # hand, rounds' = rounds
               PROVE  hand'.acting_player_id \in CanAct(hand') \cup {NoSeat}
    BY DEF vars
  <2>0. hand \in HandState
    BY DEF Inv, TypeOK
  <2>1. CASE \E by : StartRound(by)
    BY <2>1 DEF StartRound, Inv, TypeOK
  <2>2. CASE \E p \in Seats, action \in Actions, amount \in Nat : PlaceBet(p, action, amount)
    <3>1. PICK p \in Seats, action \in Actions, amount \in Nat : PlaceBet(p, action, amount)
      BY <2>2
    <3> QED
      BY <3>1, ActingSeat
  <2>3. CASE AdvanceStreet
    <3>1. PICK m : m = AdvancedHand(hand) /\ hand' = m
      BY <2>3 DEF AdvanceStreet
    <3>2. hand.street # "SHOWDOWN"
          /\ \A s \in Seats : hand.committed_this_street[s] <= hand.current_highest_bet
      BY <2>3 DEF AdvanceStreet, Inv, BetsWithinHighest
    <3>3. m.acting_player_id \in CanAct(m) \cup {NoSeat}
      BY <2>0, <3>1, <3>2, AdvancedHandSound
    <3> QED
      BY <3>1, <3>3
  <2>4. CASE \E payouts : ResolveHand(payouts)
    <3>1. PICK payouts : hand' = ResolvedHand(hand, payouts)
      BY <2>4 DEF ResolveHand
    <3>2. PICK k : k = ClosedHand(hand)
      OBVIOUS
    <3>3. k \in HandState /\ k.acting_player_id = NoSeat
      BY <2>0, <3>2, ClosedHandSound
    <3>4. ResolvedHand(hand, payouts).acting_player_id = k.acting_player_id
      BY <3>2, <3>3 DEF ResolvedHand, HandState
    <3> QED
      BY <3>1, <3>3, <3>4
  <2>5. CASE TableStep
    BY <2>5 DEF TableStep, AdvanceBlinds, EndGame, PauseTable, ResumeTable,
                RecordHandCompleted
  <2> QED
    BY <2>1, <2>2, <2>3, <2>4, <2>5, NextCases
<1> QED
  BY <1>1, Safety, PTL DEF Spec, TurnPassesToPlayer

-----------------------------------------------------------------------------
(* The turn and the contest.  That betting closes on matched bets needs    *)
(* the way the turn has taken since the last aggressor (TurnKept).         *)

OpenHandContested == hand.status = "ACTIVE" => Contested(hand)

(* Every command keeps an unsettled hand contested. *)
LEMMA ContestKept == ASSUME Inv, OpenHandContested, [Next]_vars  PROVE OpenHandContested'
<1>1. hand \in HandState
  BY DEF Inv, TypeOK
<1>2. ASSUME NEW by, StartRound(by) PROVE OpenHandContested'
  <2>1. /\ chips \in [Seats -> Nat] /\ game \in GameState /\ game.positions \in Positions
    BY DEF Inv, TypeOK, GameState
  <2>2. CurrentLevel \in Level
    BY <2>1, CurrentLevelConfigured
  <2>3. ~AtMostOne({s \in Seats : chips[s] > 0})
    BY <1>2 DEF StartRound, Inv, PositionsSeated, ActiveSeats, AtMostOne
  <2>4. PICK m : m = DealtHand(chips, game.positions, CurrentLevel)
    OBVIOUS
  <2>5. Contested(m)
    BY <2>1, <2>2, <2>3, <2>4, DealtHandContested
  <2>6. hand' = m
    BY <1>2, <2>4 DEF StartRound
  <2> QED
    BY <2>5, <2>6 DEF OpenHandContested
<1>3. ASSUME NEW p \in Seats, NEW action \in Actions, NEW amount \in Nat,
             PlaceBet(p, action, amount)
      PROVE  OpenHandContested'
  <2>1. ValidateBet(hand, p, action, amount) /\ hand.status = "ACTIVE"
    BY <1>3 DEF PlaceBet, ValidateBet, MayAct
  <2>2. ReadyToAct(hand, p)
    BY <2>1, LivePlayerReady DEF ValidateBet, MayAct
  <2>3. Contested(hand)
    BY <2>1 DEF OpenHandContested
  <2>4. PICK m : m = ApplyAction(hand, p, action, amount)
    OBVIOUS
  <2>5. Contested(m)
    BY <1>1, <2>1, <2>2, <2>3, <2>4, ActionKeepsContest
  <2>6. hand' = m
    BY <1>3, <2>4 DEF PlaceBet
  <2> QED
    BY <2>5, <2>6 DEF OpenHandContested
<1>4. CASE AdvanceStreet
  <2>1. PICK m : m = AdvancedHand(hand)
    OBVIOUS
  <2>2. hand' = m /\ hand.status = "ACTIVE" /\ hand.street # "SHOWDOWN"
    BY <1>4, <2>1 DEF AdvanceStreet
  <2>3. Contested(m)
    BY <1>1, <2>1, <2>2, StreetKeepsContest DEF OpenHandContested
  <2> QED
    BY <2>2, <2>3 DEF OpenHandContested
<1>5. ASSUME NEW payouts, ResolveHand(payouts) PROVE OpenHandContested'
  <2>1. hand' = ResolvedHand(hand, payouts)
    BY <1>5 DEF ResolveHand
  <2>2. PICK k \in HandState : k = ClosedHand(hand)
    BY <1>1, ClosedHandSound
  <2>3. ResolvedHand(hand, payouts).status = "COMPLETED"
    BY <2>2 DEF ResolvedHand, HandState
  <2> QED
    BY <2>1, <2>3 DEF OpenHandContested
<1>6. CASE UNCHANGED hand
  BY <1>6 DEF OpenHandContested
<1>7. TableStep => UNCHANGED hand
  BY DEF TableStep, AdvanceBlinds, EndGame, PauseTable, ResumeTable, RecordHandCompleted
<1> QED
  BY <1>2, <1>3, <1>4, <1>5, <1>6, <1>7, NextCases DEF vars

(* An unsettled hand is contested, in every reachable state. *)
LEMMA AlwaysContested == Spec => []OpenHandContested
<1>1. Init => OpenHandContested
  BY DEF Init, NoHand, OpenHandContested
<1>2. Inv /\ OpenHandContested /\ [Next]_vars => OpenHandContested'
  BY ContestKept
<1> QED
  BY <1>1, <1>2, Safety, PTL DEF Spec

(* next_to_act stops its scan at the last aggressor without looking at the *)
(* seats behind him: no player who can act and owes chips is left out by   *)
(* it, whatever folds, short all-ins and raises came before.               *)
THEOREM ClosedBettingIsMatched == Spec => []ClosedMeansMatched
<1>1. OpenHandContested => ClosedMeansMatched
  BY DEF OpenHandContested, Contested, ClosedMeansMatched
<1> QED
  BY <1>1, AlwaysContested, PTL

(* FOLD removes a player and next_to_act closes the betting: the last      *)
(* player left in a hand is never asked, so no pot is left without one.    *)
THEOREM SomebodyCanWin == Spec => []PotHasContender
<1>1. Inv /\ OpenHandContested => PotHasContender
  <2>1. hand \in HandState => hand.is_action_closed \in BOOLEAN
    BY DEF HandState
  <2> QED
    BY <2>1 DEF Inv, TypeOK, OpenHandContested, Contested, PotHasContender
<1> QED
  BY <1>1, AlwaysContested, Safety, PTL

-----------------------------------------------------------------------------
(* The legal actions shown are the ones accepted.                          *)

Offered(h, action, amount) ==
    \E o \in LegalActions(h) :
       /\ o.action = action
       /\ action \in {"BET", "RAISE"} => amount \in o.min_amount..o.max_amount

(* The columns of an offer. *)
LEMMA OfferColumns ==
    ASSUME NEW action, NEW low, NEW high
    PROVE  /\ Offer(action, low, high).action = action
           /\ Offer(action, low, high).min_amount = low
           /\ Offer(action, low, high).max_amount = high
BY DEF Offer

(* What an acting player is shown, action by action. *)
LEMMA OfferedActions ==
    ASSUME NEW h \in HandState, NEW p \in Seats, h.acting_player_id = p,
           h.is_action_closed = FALSE, NEW amount \in Nat
    PROVE  /\ Offered(h, "FOLD", amount)
           /\ Offered(h, "CHECK", amount) <=> CallAmount(h, p) = 0
           /\ Offered(h, "CALL", amount) <=> CallAmount(h, p) # 0
           /\ Offered(h, "ALL_IN", amount) <=> h.stack_remaining[p] > 0
           /\ Offered(h, "BET", amount) <=>
                 /\ h.current_highest_bet = 0 /\ h.stack_remaining[p] > 0
                 /\ amount \in h.minimum_raise_amount..h.stack_remaining[p]
           /\ Offered(h, "RAISE", amount) <=>
                 /\ h.current_highest_bet > 0 /\ h.stack_remaining[p] > CallAmount(h, p)
                 /\ amount \in h.current_highest_bet + h.minimum_raise_amount
                                 ..h.committed_this_street[p] + h.stack_remaining[p]
<1>1. PICK stack, call, bet, minimum, committed :
         /\ stack = h.stack_remaining[p] /\ call = CallAmount(h, p)
         /\ bet = h.current_highest_bet /\ minimum = h.minimum_raise_amount
         /\ committed = h.committed_this_street[p]
  OBVIOUS
<1>2. bet \in Nat
  BY <1>1, HandColumns
<1>3. LegalActions(h) = OffersTo(h, p)
  BY SeatsAssumption DEF LegalActions
<1>4. PICK sized : sized = SizedOffers(h, p)
  OBVIOUS
<1>5. /\ bet = 0 /\ stack > 0 => sized = {Offer("BET", minimum, stack)}
      /\ bet > 0 /\ stack > call => sized = {Offer("RAISE", bet + minimum, committed + stack)}
      /\ ~(bet = 0 /\ stack > 0) /\ ~(bet > 0 /\ stack > call) => sized = {}
  BY <1>1, <1>2, <1>4 DEF SizedOffers
<1>6. PICK asked : asked = Offer("CALL", Smaller(call, stack), Smaller(call, stack))
  OBVIOUS
<1>7. asked.action = "CALL"
  BY <1>6, OfferColumns
<1>8. LegalActions(h) = {Offer("FOLD", 0, 0)}
                        \cup (IF call = 0 THEN {Offer("CHECK", 0, 0)} ELSE {asked})
                        \cup sized
                        \cup (IF stack > 0 THEN {Offer("ALL_IN", stack, stack)} ELSE {})
  BY <1>1, <1>3, <1>4, <1>6 DEF OffersTo
<1>9. \A o \in sized : o.action \in {"BET", "RAISE"}
  BY <1>5, OfferColumns
<1>10. Offered(h, "FOLD", amount)
  BY <1>8, OfferColumns DEF Offered
<1>11. Offered(h, "CHECK", amount) <=> call = 0
  BY <1>7, <1>8, <1>9, OfferColumns DEF Offered
<1>12. Offered(h, "CALL", amount) <=> call # 0
  BY <1>7, <1>8, <1>9, OfferColumns DEF Offered
<1>13. Offered(h, "ALL_IN", amount) <=> stack > 0
  BY <1>7, <1>8, <1>9, OfferColumns DEF Offered
<1>14. ASSUME NEW action \in {"BET", "RAISE"}
       PROVE  Offered(h, action, amount) <=>
                 \E o \in sized : o.action = action /\ amount \in o.min_amount..o.max_amount
  BY <1>7, <1>8, <1>14, OfferColumns DEF Offered
<1>15. Offered(h, "BET", amount) <=> bet = 0 /\ stack > 0 /\ amount \in minimum..stack
  BY <1>2, <1>5, <1>14, OfferColumns
<1>16. Offered(h, "RAISE", amount) <=>
          bet > 0 /\ stack > call /\ amount \in bet + minimum..committed + stack
  BY <1>2, <1>5, <1>14, OfferColumns
<1> QED
  BY <1>1, <1>10, <1>11, <1>12, <1>13, <1>15, <1>16

(* The validator and the view agree on a hand whose bets add up and whose  *)
(* minimum raise is not zero.                                              *)
LEMMA OffersAgree ==
    ASSUME NEW h \in HandState, NEW p \in Seats, h.acting_player_id = p,
           h.status = "ACTIVE", p \in CanAct(h), ReadyToAct(h, p),
           h.minimum_raise_amount > 0,
           NEW action \in Actions, NEW amount \in Nat
    PROVE  /\ Offered(h, action, amount) => ValidateBet(h, p, action, amount)
           /\ ValidateBet(h, p, action, amount) =>
                 \/ Offered(h, action, amount)
                 \/ EffectiveAction(h, p, action, amount) = "ALL_IN" /\ Offered(h, "ALL_IN", 0)
<1>1. /\ h.stack_remaining[p] \in Nat /\ h.stack_remaining[p] > 0
      /\ h.current_highest_bet \in Nat /\ h.minimum_raise_amount \in Nat
      /\ h.committed_this_street[p] \in Nat
      /\ h.committed_this_street[p] <= h.current_highest_bet
  BY HandColumns DEF ReadyToAct
<1>2. CallAmount(h, p) = h.current_highest_bet - h.committed_this_street[p]
  BY <1>1 DEF CallAmount
<1>3. CASE h.is_action_closed # FALSE
  <2>1. h.is_action_closed = TRUE
    BY <1>3 DEF HandState
  <2>2. LegalActions(h) = {} /\ ~ValidateBet(h, p, action, amount)
    BY <2>1 DEF LegalActions, ValidateBet, MayAct
  <2> QED
    BY <2>2 DEF Offered
<1>4. CASE h.is_action_closed = FALSE
  <2>1. MayAct(h, p)
    BY <1>4 DEF MayAct
  <2>2. Offered(h, "ALL_IN", 0)
    BY <1>1, <1>4, OfferedActions
  <2>3. CASE action \in {"FOLD", "CHECK", "CALL", "ALL_IN"}
    <3>1. CallAmount(h, p) \in Nat
      BY <1>1, <1>2
    <3>2. CASE action = "FOLD"
      BY <1>4, <2>1, <3>2, OfferedActions DEF ValidateBet
    <3>3. CASE action = "CHECK"
      BY <1>4, <2>1, <3>3, OfferedActions DEF ValidateBet
    <3>4. CASE action = "CALL"
      <4>1. Offered(h, "CALL", amount) <=> CallAmount(h, p) # 0
        BY <1>4, OfferedActions
      <4>2. ValidateBet(h, p, "CALL", amount) <=> CallAmount(h, p) > 0
        BY <2>1 DEF ValidateBet
      <4>3. CallAmount(h, p) # 0 <=> CallAmount(h, p) > 0
        BY <3>1
      <4> QED
        BY <3>4, <4>1, <4>2, <4>3
    <3>5. CASE action = "ALL_IN"
      BY <1>4, <2>1, <3>5, OfferedActions DEF ValidateBet
    <3> QED
      BY <2>3, <3>2, <3>3, <3>4, <3>5
  <2>4. CASE action = "BET"
    <3>1. Offered(h, "BET", amount) <=>
             h.current_highest_bet = 0 /\ amount \in h.minimum_raise_amount..h.stack_remaining[p]
      BY <1>1, <1>4, OfferedActions
    <3>2. ValidateBet(h, p, "BET", amount) <=>
             h.current_highest_bet = 0 /\ SizeAllowed(h, p, amount, amount)
      BY <2>1 DEF ValidateBet
    <3>3. EffectiveAction(h, p, "BET", amount) = "ALL_IN" <=> amount = h.stack_remaining[p]
      BY DEF EffectiveAction, Chips
    <3> QED
      BY <1>1, <2>2, <2>4, <3>1, <3>2, <3>3 DEF SizeAllowed
  <2>5. CASE action = "RAISE"
    <3>1. PICK moved : moved = amount - h.committed_this_street[p]
      OBVIOUS
    <3>2. Chips(h, p, "RAISE", amount) = moved
      BY <3>1 DEF Chips
    <3>3. Offered(h, "RAISE", amount) <=>
             /\ h.current_highest_bet > 0 /\ h.stack_remaining[p] > CallAmount(h, p)
             /\ amount \in h.current_highest_bet + h.minimum_raise_amount
                             ..h.committed_this_street[p] + h.stack_remaining[p]
      BY <1>4, OfferedActions
    <3>4. ValidateBet(h, p, "RAISE", amount) <=>
             /\ h.current_highest_bet > 0 /\ amount > 0
             /\ SizeAllowed(h, p, moved, amount - h.current_highest_bet)
      BY <2>1, <3>2 DEF ValidateBet
    <3>5. EffectiveAction(h, p, "RAISE", amount) = "ALL_IN" <=> moved = h.stack_remaining[p]
      BY <3>2 DEF EffectiveAction
    <3> QED
      BY <1>1, <1>2, <2>2, <2>5, <3>1, <3>3, <3>4, <3>5 DEF SizeAllowed
  <2> QED
    BY <2>3, <2>4, <2>5 DEF Actions
<1> QED
  BY <1>3, <1>4

BlindPositive == hand.status = "ACTIVE" => hand.big_blind_amount > 0

(* A hand is dealt with a big blind, and keeps it. *)
LEMMA BlindKept == ASSUME Inv, BlindPositive, [Next]_vars  PROVE BlindPositive'
<1>1. hand \in HandState
  BY DEF Inv, TypeOK
<1>2. ASSUME NEW by, StartRound(by) PROVE BlindPositive'
  <2>1. CurrentLevel \in Level
    BY CurrentLevelConfigured DEF Inv, TypeOK
  <2>2. hand'.big_blind_amount = CurrentLevel.big_blind
    BY <1>2 DEF StartRound, DealtHand
  <2> QED
    BY <2>1, <2>2 DEF Level, BlindPositive
<1>3. ASSUME NEW p \in Seats, NEW action \in Actions, NEW amount \in Nat,
             PlaceBet(p, action, amount)
      PROVE  BlindPositive'
  <2>1. ActedSoundly(hand, p, hand') /\ hand.status = "ACTIVE"
    BY <1>3, PlaceBetSound DEF PlaceBet, ValidateBet, MayAct
  <2> QED
    BY <2>1 DEF ActedSoundly, BlindPositive
<1>4. CASE AdvanceStreet
  <2>1. PICK m : m = AdvancedHand(hand)
    OBVIOUS
  <2>2. hand' = m /\ hand.status = "ACTIVE" /\ hand.street # "SHOWDOWN"
    BY <1>4, <2>1 DEF AdvanceStreet
  <2>3. m.big_blind_amount = hand.big_blind_amount
    BY <1>1, <2>1, <2>2, AdvancedHandSound
  <2> QED
    BY <2>2, <2>3 DEF BlindPositive
<1>5. ASSUME NEW payouts, ResolveHand(payouts) PROVE BlindPositive'
  <2>1. hand' = ResolvedHand(hand, payouts)
    BY <1>5 DEF ResolveHand
  <2>2. PICK k \in HandState : k = ClosedHand(hand)
    BY <1>1, ClosedHandSound
  <2>3. ResolvedHand(hand, payouts).status = "COMPLETED"
    BY <2>2 DEF ResolvedHand, HandState
  <2> QED
    BY <2>1, <2>3 DEF BlindPositive
<1>6. CASE UNCHANGED hand
  BY <1>6 DEF BlindPositive
<1>7. TableStep => UNCHANGED hand
  BY DEF TableStep, AdvanceBlinds, EndGame, PauseTable, ResumeTable, RecordHandCompleted
<1> QED
  BY <1>2, <1>3, <1>4, <1>5, <1>6, <1>7, NextCases DEF vars

(* get_table_state computes the legal actions on its own: it shows the     *)
(* acting player nothing that validate_bet would refuse, at any amount of  *)
(* the range shown, and leaves out only what is an ALL_IN by another name. *)
THEOREM LegalActionsAreExact == Spec => []OffersAreExact
<1>1. Init => BlindPositive
  BY DEF Init, NoHand, BlindPositive
<1>2. Inv /\ BlindPositive /\ [Next]_vars => BlindPositive'
  BY BlindKept
<1>3. Inv /\ BlindPositive => OffersAreExact
  <2> SUFFICES ASSUME Inv, BlindPositive, hand.status = "ACTIVE",
                      hand.acting_player_id \in CanAct(hand),
                      NEW action \in Actions, NEW amount \in Amounts(action)
               PROVE  /\ Offered(hand, action, amount)
                            => ValidateBet(hand, hand.acting_player_id, action, amount)
                      /\ ValidateBet(hand, hand.acting_player_id, action, amount) =>
                            \/ Offered(hand, action, amount)
                            \/ /\ EffectiveAction(hand, hand.acting_player_id, action, amount)
                                     = "ALL_IN"
                               /\ Offered(hand, "ALL_IN", 0)
    BY DEF OffersAreExact, Offered
  <2>1. PICK p \in Seats : p = hand.acting_player_id
    BY CanActSubset DEF Inv, TypeOK
  <2>2. amount \in Nat
    BY DEF Amounts
  <2>3. ReadyToAct(hand, p)
    BY <2>1, LivePlayerReady
  <2>4. hand.minimum_raise_amount > 0 /\ hand \in HandState
    <3>1. hand \in HandState /\ hand.minimum_raise_amount >= hand.big_blind_amount
          /\ hand.big_blind_amount > 0
      BY DEF Inv, TypeOK, MinRaiseAtLeastBigBlind, BlindPositive
    <3> QED
      BY <3>1, HandColumns
  <2> QED
    BY <2>1, <2>2, <2>3, <2>4, OffersAgree
<1> QED
  BY <1>1, <1>2, <1>3, Safety, PTL DEF Spec

-----------------------------------------------------------------------------
(* The game keeps its players' chips as ChipBank does.                     *)

(* The bank adds up chips the way the game does. *)
LEMMA BankSum == ASSUME NEW f  PROVE Bank!SumFunction(f) = SumFunction(f)
BY Zenon DEF SumFunction, SumFunctionOnSet, FoldFunctionOnSet, MapThenFoldSet,
             Bank!SumFunction, Bank!SumFunctionOnSet, Bank!FoldFunctionOnSet,
             Bank!MapThenFoldSet

(* While a hand is played, the snapshot of the room is what the seats own  *)
(* together with the pot.                                                  *)
LEMMA SnapshotIsStacksAndPot ==
    ASSUME Inv, HandOpen
    PROVE  /\ OwnedChips \in [Seats -> Nat]
           /\ SumFunction(OwnedChips) \in Nat /\ OpenPot \in Nat
           /\ SumFunction(chips) = SumFunction(OwnedChips) + OpenPot
<1>1. PICK a, c : a = hand.stack_remaining /\ c = hand.committed_this_hand
  OBVIOUS
<1>2. /\ a \in [Seats -> Nat] /\ c \in [Seats -> Nat] /\ chips \in [Seats -> Nat]
      /\ IsFiniteSet(Seats)
  BY <1>1, HandColumns, SeatsAssumption DEF Inv, TypeOK
<1>3. \A s \in Seats : chips[s] = a[s] + c[s]
  BY <1>1 DEF Inv, StacksMatchSnapshot, HandOpen
<1>4. SumFunction(chips) = SumFunction(a) + SumFunction(c)
  BY <1>2, <1>3, SumFunctionPlus
<1>5. SumFunction(a) \in Nat /\ SumFunction(c) \in Nat
  BY <1>2, SumFunctionNat
<1>6. OwnedChips = a /\ OpenPot = SumFunction(c)
  BY <1>1 DEF OwnedChips, OpenPot, Inv, PotIsCommitments
<1> QED
  BY <1>2, <1>4, <1>5, <1>6

(* The same after a step. *)
LEMMA SnapshotIsStacksAndPotNext ==
    ASSUME Inv', HandOpen'
    PROVE  /\ OwnedChips' \in [Seats -> Nat]
           /\ SumFunction(OwnedChips') \in Nat /\ OpenPot' \in Nat
           /\ SumFunction(chips') = SumFunction(OwnedChips') + OpenPot'
<1>1. PICK a, c : a = hand'.stack_remaining /\ c = hand'.committed_this_hand
  OBVIOUS
<1>2. /\ a \in [Seats -> Nat] /\ c \in [Seats -> Nat] /\ chips' \in [Seats -> Nat]
      /\ IsFiniteSet(Seats)
  BY <1>1, HandColumns, SeatsAssumption DEF Inv, TypeOK
<1>3. \A s \in Seats : chips'[s] = a[s] + c[s]
  BY <1>1 DEF Inv, StacksMatchSnapshot, HandOpen
<1>4. SumFunction(chips') = SumFunction(a) + SumFunction(c)
  BY <1>2, <1>3, SumFunctionPlus
<1>5. SumFunction(a) \in Nat /\ SumFunction(c) \in Nat
  BY <1>2, SumFunctionNat
<1>6. OwnedChips' = a /\ OpenPot' = SumFunction(c)
  BY <1>1 DEF OwnedChips, OpenPot, Inv, PotIsCommitments
<1> QED
  BY <1>2, <1>4, <1>5, <1>6

(* A new game is a bank without an open hand. *)
LEMMA BankOpensEmpty == ASSUME Init  PROVE Bank!Init
<1>1. ~HandOpen /\ chips \in [Seats -> Nat]
  BY InitialChipsAssumption DEF Init, NoHand, HandOpen
<1> QED
  BY <1>1 DEF Bank!Init, OwnedChips, OpenPot

(* start_round opens a hand with what it posts from the stacks. *)
LEMMA StartRoundDeals == ASSUME Inv, Inv', NEW by, StartRound(by)  PROVE Bank!Next
<1>1. ~HandOpen /\ chips' = chips /\ chips \in [Seats -> Nat]
  BY DEF StartRound, HandOpen, Inv, TypeOK
<1>2. HandOpen'
  BY DEF StartRound, DealtHand, HandOpen
<1>3. /\ OwnedChips' \in [Seats -> Nat]
      /\ SumFunction(OwnedChips') \in Nat /\ OpenPot' \in Nat
      /\ SumFunction(chips') = SumFunction(OwnedChips') + OpenPot'
  BY <1>2, SnapshotIsStacksAndPotNext
<1>4. OwnedChips = chips
  BY <1>1 DEF OwnedChips
<1>5. OpenPot' = SumFunction(OwnedChips) - SumFunction(OwnedChips')
  BY <1>1, <1>3, <1>4
<1>6. ASSUME NEW s \in Seats  PROVE OwnedChips'[s] <= OwnedChips[s]
  <2>1. OwnedChips'[s] + hand'.committed_this_hand[s] = chips'[s]
    BY <1>2 DEF Inv, StacksMatchSnapshot, HandOpen, OwnedChips
  <2>2. OwnedChips'[s] \in Nat /\ hand'.committed_this_hand[s] \in Nat
    BY <1>3, HandColumns DEF Inv, TypeOK
  <2> QED
    BY <1>1, <1>4, <2>1, <2>2
<1>7. Bank!Deal
  BY <1>1, <1>2, <1>5, <1>6, BankSum
     DEF Bank!Deal, Bank!TakenFromStacks
<1> QED
  BY <1>3, <1>7 DEF Bank!Next

(* place_bet commits chips of the player who bets, and of nobody else. *)
LEMMA PlaceBetCommits ==
    ASSUME Inv, Inv', NEW p \in Seats, NEW action \in Actions, NEW amount \in Nat,
           PlaceBet(p, action, amount)
    PROVE  Bank!Next
<1>1. ActedSoundly(hand, p, hand') /\ chips' = chips /\ HandOpen
  BY PlaceBetSound DEF PlaceBet, ValidateBet, MayAct, HandOpen
<1>2. HandOpen'
  BY <1>1 DEF ActedSoundly, HandOpen
<1>3. /\ OwnedChips \in [Seats -> Nat]
      /\ SumFunction(OwnedChips) \in Nat /\ OpenPot \in Nat
      /\ SumFunction(chips) = SumFunction(OwnedChips) + OpenPot
  BY <1>1, SnapshotIsStacksAndPot
<1>4. /\ OwnedChips' \in [Seats -> Nat]
      /\ SumFunction(OwnedChips') \in Nat /\ OpenPot' \in Nat
      /\ SumFunction(chips') = SumFunction(OwnedChips') + OpenPot'
  BY <1>2, SnapshotIsStacksAndPotNext
<1>5. OwnedChips = hand.stack_remaining /\ OwnedChips' = hand'.stack_remaining
  BY <1>1, <1>2 DEF OwnedChips
<1>6. \A q \in Seats \ {p} : OwnedChips'[q] = OwnedChips[q]
  BY <1>1, <1>5 DEF ActedSoundly
<1>7. SumFunction(OwnedChips') <= SumFunction(OwnedChips)
  <2>1. ASSUME NEW s \in Seats  PROVE OwnedChips'[s] <= OwnedChips[s]
    <3>1. OwnedChips'[s] <= OwnedChips[s] \/ OwnedChips'[s] = OwnedChips[s]
      BY <1>1, <1>5 DEF ActedSoundly
    <3> QED
      BY <1>3, <3>1
  <2> QED
    BY <1>3, <1>4, <2>1, SeatsAssumption, SumFunctionMonotonic
<1>8. Bank!Commit
  BY <1>1, <1>2, <1>3, <1>4, <1>6, <1>7, BankSum
     DEF Bank!Commit, Bank!TakenFromStacks
<1> QED
  BY <1>4, <1>8 DEF Bank!Next

(* advance_street moves no chips. *)
LEMMA AdvanceStreetKeepsBank ==
    ASSUME Inv, AdvanceStreet  PROVE UNCHANGED <<OwnedChips, OpenPot, HandOpen>>
<1>1. /\ hand \in HandState /\ hand.street # "SHOWDOWN" /\ hand.status = "ACTIVE"
      /\ \A s \in Seats : hand.committed_this_street[s] <= hand.current_highest_bet
  BY DEF Inv, TypeOK, BetsWithinHighest, AdvanceStreet
<1>2. PICK m : m = AdvancedHand(hand)
  OBVIOUS
<1>3. /\ m.status = hand.status /\ m.stack_remaining = hand.stack_remaining
      /\ m.pot_amount = hand.pot_amount
  BY <1>1, <1>2, AdvancedHandSound
<1> QED
  BY <1>1, <1>2, <1>3 DEF AdvanceStreet, OwnedChips, OpenPot, HandOpen

(* resolve_hand closes the hand and pays out of the pot. *)
LEMMA ResolveHandSettles ==
    ASSUME Inv, NEW payouts, ResolveHand(payouts)  PROVE Bank!Next
<1>1. /\ hand \in HandState /\ HandOpen /\ payouts \in PayoutRequest
  BY DEF Inv, TypeOK, ResolveHand, PayoutsAccepted, HandOpen
<1>2. /\ hand'.status = "COMPLETED" /\ chips' = hand'.stack_remaining
      /\ chips' \in [Seats -> Nat] /\ SumFunction(chips') <= SumFunction(chips)
  BY SettledSoundly
<1>3. ~HandOpen' /\ OwnedChips' = chips' /\ OpenPot' = 0
  BY <1>2 DEF HandOpen, OwnedChips, OpenPot
<1>4. /\ OwnedChips \in [Seats -> Nat]
      /\ SumFunction(OwnedChips) \in Nat /\ OpenPot \in Nat
      /\ SumFunction(chips) = SumFunction(OwnedChips) + OpenPot
  BY <1>1, SnapshotIsStacksAndPot
<1>5. SumFunction(chips') \in Nat
  BY <1>2, SumFunctionNat, SeatsAssumption
<1>6. \A s \in Seats : OwnedChips'[s] >= OwnedChips[s]
  <2>1. PICK w : w = [s \in Seats |-> Winnings(payouts, s)]
    OBVIOUS
  <2>2. w \in [Seats -> Nat]
    BY <1>1, <2>1, SubmissionSums
  <2>3. PICK m : m = ResolvedHand(hand, payouts)
    OBVIOUS
  <2>4. m.stack_remaining = [s \in Seats |-> hand.stack_remaining[s] + w[s]]
    BY <1>1, <2>1, <2>2, <2>3, ResolvedHandSound
  <2>5. OwnedChips' = m.stack_remaining /\ OwnedChips = hand.stack_remaining
    BY <1>1, <1>2, <1>3, <2>3 DEF ResolveHand, OwnedChips
  <2> QED
    BY <1>4, <2>2, <2>4, <2>5
<1>7. Bank!Settle
  BY <1>1, <1>2, <1>3, <1>4, <1>5, <1>6, BankSum
     DEF Bank!Settle, Bank!TakenFromStacks
<1> QED
  BY <1>2, <1>3, <1>7 DEF Bank!Next

(* The table commands leave the bank alone. *)
LEMMA TableStepKeepsBank ==
    ASSUME TableStep  PROVE UNCHANGED <<OwnedChips, OpenPot, HandOpen>>
<1>1. UNCHANGED <<chips, hand>>
  BY DEF TableStep, AdvanceBlinds, EndGame, PauseTable, ResumeTable, RecordHandCompleted
<1> QED
  BY <1>1 DEF OwnedChips, OpenPot, HandOpen

(* Every command of a game is a step of the bank, or leaves it unchanged.  *)
THEOREM GameImplementsChipBank == Spec => ImplementsChipBank
<1>1. Init => Bank!Init
  BY BankOpensEmpty
<1>2. Inv /\ Inv' /\ [Next]_vars => [Bank!Next]_<<OwnedChips, OpenPot, HandOpen>>
  <2>1. ASSUME Inv, Inv', Next
        PROVE  Bank!Next \/ UNCHANGED <<OwnedChips, OpenPot, HandOpen>>
    BY <2>1, NextCases, StartRoundDeals, PlaceBetCommits, AdvanceStreetKeepsBank,
       ResolveHandSettles, TableStepKeepsBank
  <2>2. ASSUME UNCHANGED vars  PROVE UNCHANGED <<OwnedChips, OpenPot, HandOpen>>
    BY <2>2 DEF vars, OwnedChips, OpenPot, HandOpen
  <2> QED
    BY <2>1, <2>2
<1> QED
  BY <1>1, <1>2, Safety, PTL DEF Spec, ImplementsChipBank, Bank!Spec
-----------------------------------------------------------------------------
(* The blinds of a structure a host would configure: its levels are        *)
(* numbered 1, 2, 3, ... and the big blind never falls from one to a later *)
(* one.  Neither is checked by the code, and without the first the game    *)
(* can leave the configured levels (apply_hand_completion adds one to the  *)
(* number) and be dealt with the lowest one again.                         *)
LevelsWithoutGap == LevelNumbers = 1..MaxLevel

BlindsEscalate ==
    \A l, m \in LevelNumbers : l <= m => Levels[l].big_blind <= Levels[m].big_blind

(* The present level is a configured one, and the latest hand was dealt    *)
(* with a big blind of at most that level's.                               *)
BlindLevelSound ==
    /\ game.current_blind_level \in LevelNumbers
    /\ hand.big_blind_amount <= Levels[game.current_blind_level].big_blind

(* A command that moves the level on moves it to the next configured one,  *)
(* whose big blind is at least the present one's.                          *)
LEMMA NextLevelSound ==
    ASSUME LevelsWithoutGap, BlindsEscalate, hand \in HandState, BlindLevelSound,
           hand'.big_blind_amount = hand.big_blind_amount,
           \/ game'.current_blind_level = game.current_blind_level
           \/ /\ game'.current_blind_level = game.current_blind_level + 1
              /\ game.current_blind_level < MaxLevel
    PROVE  BlindLevelSound'
<1>1. LevelNumbers \subseteq Nat /\ Levels \in [LevelNumbers -> Level]
  BY LevelsAssumption
<1>2. PICK l \in LevelNumbers : l = game.current_blind_level
  BY DEF BlindLevelSound
<1>3. PICK m : m = game'.current_blind_level
  OBVIOUS
<1>4. MaxLevel \in Nat
  BY <1>1, LevelsAssumption, MaxNat DEF MaxLevel
<1>5. m \in LevelNumbers /\ l <= m
  BY <1>1, <1>2, <1>3, <1>4 DEF LevelsWithoutGap
<1>6. Levels[l].big_blind <= Levels[m].big_blind
  BY <1>5 DEF BlindsEscalate
<1>7. /\ Levels[l].big_blind \in Nat
      /\ Levels[m].big_blind \in Nat
      /\ hand.big_blind_amount \in Nat
  BY <1>1, <1>5 DEF Level, HandState
<1>8. hand.big_blind_amount <= Levels[m].big_blind
  BY <1>2, <1>6, <1>7 DEF BlindLevelSound
<1> QED
  BY <1>3, <1>5, <1>8 DEF BlindLevelSound

(* Counting a hand leaves the level or moves it to the next number below   *)
(* the last.                                                               *)
LEMMA CountedLevel ==
    ASSUME game \in GameState, NEW timeIsUp, NEW c
    PROVE  LET g == HandCounted(game, timeIsUp)
           IN  /\ \/ g.current_blind_level = game.current_blind_level
                  \/ /\ g.current_blind_level = game.current_blind_level + 1
                     /\ game.current_blind_level < MaxLevel
               /\ NextPositions(g, c).current_blind_level = g.current_blind_level
<1>1. PICK g : g = HandCounted(game, timeIsUp)
  OBVIOUS
<1>2. \/ g.current_blind_level = game.current_blind_level
      \/ /\ g.current_blind_level = game.current_blind_level + 1
         /\ game.current_blind_level < MaxLevel
  BY <1>1 DEF HandCounted, ShouldAdvance, GameState
<1>3. NextPositions(g, c).current_blind_level = g.current_blind_level
  <2>1. g = [g EXCEPT !.hands_played = g.hands_played]
    BY <1>1 DEF HandCounted, GameState
  <2>2. "current_blind_level" \in DOMAIN g
    BY <1>1 DEF HandCounted, GameState
  <2> QED
    BY <2>1, <2>2 DEF NextPositions
<1> QED
  BY <1>1, <1>2, <1>3

(* Every command keeps the level configured and the latest hand's big      *)
(* blind at most the level's.                                              *)
LEMMA BlindLevelKept ==
    ASSUME LevelsWithoutGap, BlindsEscalate, Inv, BlindLevelSound, [Next]_vars
    PROVE  BlindLevelSound'
<1>1. hand \in HandState /\ game \in GameState
  BY DEF Inv, TypeOK
<1>2. ASSUME NEW by, StartRound(by) PROVE BlindLevelSound'
  <2>1. hand'.big_blind_amount = CurrentLevel.big_blind /\ game' = game
    BY <1>2 DEF StartRound, DealtHand
  <2>2. CurrentLevel = Levels[game.current_blind_level]
    BY DEF CurrentLevel, BlindLevelSound
  <2>3. CurrentLevel.big_blind \in Nat
    BY <1>1, CurrentLevelConfigured DEF Level
  <2>4. hand'.big_blind_amount <= Levels[game.current_blind_level].big_blind
    BY <2>1, <2>2, <2>3
  <2> QED
    BY <2>1, <2>4 DEF BlindLevelSound
<1>3. ASSUME NEW p \in Seats, NEW action \in Actions, NEW amount \in Nat,
             PlaceBet(p, action, amount)
      PROVE  BlindLevelSound'
  <2>1. ActedSoundly(hand, p, hand') /\ game' = game
    BY <1>3, PlaceBetSound DEF PlaceBet
  <2> QED
    BY <2>1 DEF ActedSoundly, BlindLevelSound
<1>4. CASE AdvanceStreet
  <2>1. PICK m : m = AdvancedHand(hand)
    OBVIOUS
  <2>2. /\ hand' = m /\ game' = game
        /\ hand.status = "ACTIVE" /\ hand.street # "SHOWDOWN"
    BY <1>4, <2>1 DEF AdvanceStreet
  <2>3. m.big_blind_amount = hand.big_blind_amount
    BY <1>1, <2>1, <2>2, AdvancedHandSound
  <2> QED
    BY <2>2, <2>3 DEF BlindLevelSound
<1>5. ASSUME NEW payouts, ResolveHand(payouts) PROVE BlindLevelSound'
  <2>1. PICK k \in HandState : k = ClosedHand(hand) /\ k.big_blind_amount = hand.big_blind_amount
    BY <1>1, ClosedHandSound
  <2>2. ResolvedHand(hand, payouts).big_blind_amount = k.big_blind_amount
    BY <2>1 DEF ResolvedHand, HandState
  <2>3. hand'.big_blind_amount = hand.big_blind_amount
    BY <1>5, <2>1, <2>2 DEF ResolveHand
  <2>4. PICK timeIsUp \in BOOLEAN : game' = NextPositions(HandCounted(game, timeIsUp), chips')
    BY <1>5 DEF ResolveHand
  <2> QED
    BY <1>1, <2>3, <2>4, CountedLevel, NextLevelSound
<1>6. CASE TableStep
  <2>1. hand'.big_blind_amount = hand.big_blind_amount
    BY <1>6 DEF TableStep, AdvanceBlinds, EndGame, PauseTable, ResumeTable,
                RecordHandCompleted
  <2>2. \/ game'.current_blind_level = game.current_blind_level
        \/ /\ game'.current_blind_level = game.current_blind_level + 1
           /\ game.current_blind_level < MaxLevel
    <3>1. CASE \E timeIsUp \in BOOLEAN : RecordHandCompleted(timeIsUp)
      BY <1>1, <3>1, CountedLevel DEF RecordHandCompleted
    <3>2. CASE AdvanceBlinds \/ EndGame \/ PauseTable \/ ResumeTable
      BY <1>1, <3>2 DEF AdvanceBlinds, EndGame, PauseTable, ResumeTable, GameState
    <3> QED
      BY <1>6, <3>1, <3>2 DEF TableStep
  <2> QED
    BY <1>1, <2>1, <2>2, NextLevelSound
<1>7. CASE UNCHANGED vars
  BY <1>7 DEF vars, BlindLevelSound
<1> QED
  BY <1>2, <1>3, <1>4, <1>5, <1>6, <1>7, NextCases

(* Through advance_blinds and the clock, every hand is dealt with the big  *)
(* blind that get_session_status announces and never a lower one than the  *)
(* hand before, at any table and under any blind structure numbered        *)
(* without a gap whose big blinds do not fall.                             *)
THEOREM HandsUseAnnouncedBlinds ==
    (LevelsWithoutGap /\ BlindsEscalate) => (Spec => BlindsAsAnnounced)
<1> SUFFICES ASSUME LevelsWithoutGap, BlindsEscalate  PROVE Spec => BlindsAsAnnounced
  OBVIOUS
<1> DEFINE Announced ==
             rounds' > rounds =>
               /\ \E b \in AnnouncedBlinds : hand'.big_blind_amount = b.big_blind
               /\ hand'.big_blind_amount >= hand.big_blind_amount
<1>1. Init => BlindLevelSound
  <2> SUFFICES ASSUME Init  PROVE BlindLevelSound
    OBVIOUS
  <2>1. game.current_blind_level = 1 /\ hand.big_blind_amount = 0
    BY DEF Init, StartedGame, NoHand
  <2>2. MaxLevel \in LevelNumbers /\ MaxLevel \in Nat \ {0}
    BY LevelsAssumption, MaxNat DEF MaxLevel
  <2>3. 1 \in LevelNumbers
    BY <2>2 DEF LevelsWithoutGap
  <2>4. Levels[1].big_blind \in Nat
    BY <2>3, LevelsAssumption DEF Level
  <2> QED
    BY <2>1, <2>3, <2>4 DEF BlindLevelSound
<1>2. Inv /\ BlindLevelSound /\ [Next]_vars => BlindLevelSound'
  BY BlindLevelKept
<1>3. Inv /\ BlindLevelSound /\ [Next]_vars => [Announced]_vars
  <2> SUFFICES ASSUME Inv, BlindLevelSound, Next, rounds' > rounds
               PROVE  /\ \E b \in AnnouncedBlinds : hand'.big_blind_amount = b.big_blind
                      /\ hand'.big_blind_amount >= hand.big_blind_amount
    OBVIOUS
  <2>1. PICK by : StartRound(by)
    BY NextCases DEF Inv, TypeOK, PlaceBet, AdvanceStreet, ResolveHand, TableStep,
                     AdvanceBlinds, EndGame, PauseTable, ResumeTable, RecordHandCompleted
  <2>2. PICK l \in LevelNumbers : l = game.current_blind_level
    BY DEF BlindLevelSound
  <2>3. hand'.big_blind_amount = Levels[l].big_blind
    BY <2>1, <2>2 DEF StartRound, DealtHand, CurrentLevel
  <2>4. [small_blind |-> Levels[l].small_blind, big_blind |-> Levels[l].big_blind]
           \in AnnouncedBlinds
    BY <2>2 DEF AnnouncedBlinds
  <2>5. hand.big_blind_amount <= Levels[l].big_blind
    BY <2>2 DEF BlindLevelSound
  <2>6. Levels[l].big_blind \in Nat /\ hand.big_blind_amount \in Nat
    BY <2>2, LevelsAssumption DEF Level, Inv, TypeOK, HandState
  <2> QED
    BY <2>3, <2>4, <2>5, <2>6
<1> QED
  BY <1>1, <1>2, <1>3, Safety, PTL DEF Spec, BlindsAsAnnounced
-----------------------------------------------------------------------------
(* Scenarios and the game                                                  *)

(* A scenario deals what start_round deals, when the table's positions are *)
(* those of its dealer and there are more than two players.                *)
LEMMA ScenarioDealsAlike ==
    ASSUME NEW c \in [Seats -> Nat], NEW level \in Level,
           NEW dealer \in ActiveSeats(c), Cardinality(ActiveSeats(c)) # 2,
           NEW pos, pos = PositionsFrom(ActiveSeats(c), dealer)
    PROVE  ScenarioHand(c, dealer, level) = DealtHand(c, pos, level)
<1>1. PICK S : S = {s \in Seats : c[s] > 0}
  OBVIOUS
<1>2. S \in SUBSET Nat /\ dealer \in S /\ S = ActiveSeats(c)
  BY <1>1, SeatsAssumption DEF ActiveSeats
<1>3. FirstAfter(S, dealer) \in S
  BY <1>2, FirstAfterFound
<1>4. ScenarioPositions(S, dealer) = pos /\ pos.bb \in S /\ pos.dealer = dealer
  <2>1. SeatLeftOf(dealer, S) = FirstAfter(S, dealer)
    BY <1>2 DEF SeatLeftOf
  <2>2. PICK sb \in S : sb = FirstAfter(S, dealer)
    BY <1>3
  <2>3. SeatLeftOf(sb, S) = FirstAfter(S, sb) /\ FirstAfter(S, sb) \in S
    BY <1>2, <2>2, FirstAfterFound DEF SeatLeftOf
  <2>4. pos = [dealer |-> dealer, sb |-> sb, bb |-> FirstAfter(S, sb)]
    BY <1>2, <2>2 DEF PositionsFrom
  <2> QED
    BY <2>1, <2>2, <2>3, <2>4 DEF ScenarioPositions
<1>5. PICK posted : posted = [s \in Seats |-> Posted(s, c[s], pos, level)]
  OBVIOUS
<1>6. {s \in Seats : c[s] = posted[s] /\ posted[s] > 0} = {s \in S : c[s] = posted[s]}
  BY <1>1
<1>7. SeatLeftOf(pos.bb, S) = FirstAfter(S, pos.bb)
  BY <1>4 DEF SeatLeftOf
<1> QED
  BY ONLY <1>1, <1>4, <1>5, <1>6, <1>7 DEF ScenarioHand, DealtHand

(* g[t] is the outcome of the scripted actions at the places t, in order. *)
IsPlayed(g, base, script, S) ==
    g = [t \in SUBSET S |-> IF t = {} THEN base
                            ELSE PlayScripted(g[t \ {Max(t)}], script[Max(t)])]

(* A script of two actions plays the first and then the second. *)
LEMMA ScriptOfTwo ==
    ASSUME NEW h, NEW a, NEW b
    PROVE  RunScenario(h, <<a, b>>) =
              PlayScripted(PlayScripted([hand |-> h, last_error |-> FALSE], a), b)
<1>1. PICK script, S : script = <<a, b>> /\ S = DOMAIN script
  OBVIOUS
<1>2. S = 1..2 /\ script[1] = a /\ script[2] = b
  BY <1>1
<1>3. PICK base : base = [hand |-> h, last_error |-> FALSE]
  OBVIOUS
<1>4. PICK one : one = PlayScripted(base, a)
  OBVIOUS
<1>5. PICK g : g = [t \in SUBSET S |->
                      IF t = {} THEN base
                      ELSE IF t = S THEN PlayScripted(one, b)
                      ELSE PlayScripted(base, script[Max(t)])]
  OBVIOUS
<1>6. {} \in SUBSET S /\ {1} \in SUBSET S /\ S \in SUBSET S /\ {1} # {} /\ {1} # S /\ S # {}
  BY <1>2
<1>7. Max({1}) = 1 /\ Max(S) = 2
  <2>1. IsFiniteSet({1}) /\ IsFiniteSet(1..2)
    <3>1. IsFiniteSet({1})
      BY FS_Singleton
    <3>2. PICK n \in Nat : n = 2
      OBVIOUS
    <3>3. IsFiniteSet(1..n)
      BY FS_Interval
    <3> QED
      BY <3>1, <3>2, <3>3
  <2>2. Max({1}) \in {1}
    BY <2>1, MaxNat
  <2>3. /\ Max(1..2) \in 1..2
        /\ \A y \in 1..2 : Max(1..2) >= y
    BY <2>1, MaxNat
  <2> QED
    BY <1>2, <2>2, <2>3
<1>8. g[{}] = base /\ g[{1}] = one /\ g[S] = PlayScripted(one, b)
  <2>1. g[{}] = base
    BY ONLY <1>5, <1>6
  <2>2. g[{1}] = PlayScripted(base, script[Max({1})])
    BY ONLY <1>5, <1>6
  <2>3. g[S] = PlayScripted(one, b)
    BY ONLY <1>5, <1>6
  <2> QED
    BY ONLY <1>2, <1>4, <1>7, <2>1, <2>2, <2>3
<1>9. IsPlayed(g, base, script, S)
  <2>1. ASSUME NEW t \in SUBSET S, t # {}
        PROVE  g[t] = PlayScripted(g[t \ {Max(t)}], script[Max(t)])
    <3>1. CASE t = S
      <4>1. t \ {Max(t)} = {1}
        BY ONLY <1>2, <1>7, <3>1
      <4> QED
        BY ONLY <1>2, <1>7, <1>8, <3>1, <4>1
    <3>2. CASE t # S
      <4>1. \E x \in S : t = {x}
        <5>1. S = {1, 2}
          BY ONLY <1>2
        <5>2. 1 \in t => 2 \notin t
          BY ONLY <2>1, <3>2, <5>1
        <5> QED
          BY ONLY <2>1, <5>1, <5>2
      <4>2. PICK x \in S : t = {x}
        BY ONLY <4>1
      <4>3. Max(t) = x
        <5>1. x \in Nat
          BY <1>2
        <5>2. IsFiniteSet({x})
          BY FS_Singleton
        <5>3. Max({x}) \in {x}
          BY <5>1, <5>2, MaxNat
        <5> QED
          BY <4>2, <5>3
      <4>4. t \ {Max(t)} = {}
        BY ONLY <4>2, <4>3
      <4>5. g[t] = PlayScripted(base, script[Max(t)])
        BY ONLY <1>5, <2>1, <3>2
      <4> QED
        BY ONLY <1>8, <4>4, <4>5
    <3> QED
      BY <3>1, <3>2
  <2>2. ASSUME NEW t \in SUBSET S
        PROVE  g[t] = IF t = {} THEN base
                      ELSE PlayScripted(g[t \ {Max(t)}], script[Max(t)])
    BY <1>8, <2>1
  <2>3. g = [t \in SUBSET S |-> g[t]]
    BY ONLY <1>5
  <2> QED
    BY ONLY <2>2, <2>3 DEF IsPlayed
<1> DEFINE iter == CHOOSE k : IsPlayed(k, base, script, S)
<1>10. IsPlayed(iter, base, script, S)
  BY <1>9
<1>11. RunScenario(h, script) = iter[S]
  BY ONLY <1>1, <1>3, Zenon DEF RunScenario, FoldLeft, MapThenFoldSet, IsPlayed
<1> HIDE DEF iter
<1>12. iter[{}] = base
  BY ONLY <1>6, <1>10 DEF IsPlayed
<1>13. iter[{1}] = one
  <2>1. {1} \ {Max({1})} = {}
    BY <1>7
  <2>2. iter[{1}] = PlayScripted(iter[{1} \ {Max({1})}], script[Max({1})])
    BY ONLY <1>6, <1>10 DEF IsPlayed
  <2> QED
    BY ONLY <1>2, <1>4, <1>7, <1>12, <2>1, <2>2
<1>14. iter[S] = PlayScripted(one, b)
  <2>1. S \ {Max(S)} = {1}
    BY <1>2, <1>7
  <2>2. iter[S] = PlayScripted(iter[S \ {Max(S)}], script[Max(S)])
    BY ONLY <1>6, <1>10 DEF IsPlayed
  <2> QED
    BY ONLY <1>2, <1>7, <1>13, <2>1, <2>2
<1> QED
  BY ONLY <1>1, <1>3, <1>4, <1>11, <1>14

(* After his action it is not the same player's turn: either betting is    *)
(* closed or the turn has passed to somebody else.                         *)
LEMMA TurnIsOver ==
    ASSUME NEW h \in HandState, NEW p \in Seats, NEW action \in Actions,
           NEW amount \in Nat, ValidateBet(h, p, action, amount), ReadyToAct(h, p),
           NEW m, m = ApplyAction(h, p, action, amount)
    PROVE  ~MayAct(m, p)
<1>1. PICK k : k = Committed(h, p, action, amount)
  OBVIOUS
<1>2. PICK next : next = NextToAct(k, p)
  OBVIOUS
<1>3. \/ k.last_aggressor_seat = p
      \/ p \notin NeedsAction(k)
  BY <1>1, ActionAnswers
<1>4. CanAct(k) \cup {p} = CanAct(h)
  BY <1>1, ActionAnswers
<1>5. next # p
  <2>1. PICK stops : stops = NeedsAction(k) \cup (CanAct(k) \cap {k.last_aggressor_seat})
    OBVIOUS
  <2>2. stops \in SUBSET Nat /\ p \in Nat /\ p # NoSeat
    BY <1>4, <2>1, CanActSubset, SeatsAssumption DEF NeedsAction
  <2>3. stops # {} => FirstAfter(stops, p) \in stops
    BY <2>2, FirstAfterFound
  <2>4. next = IF AtMostOne(CanAct(k)) \/ stops = {}
                    \/ FirstAfter(stops, p) = k.last_aggressor_seat
               THEN NoSeat ELSE FirstAfter(stops, p)
    BY <1>2, <2>1 DEF NextToAct
  <2> QED
    BY ONLY <1>3, <2>1, <2>2, <2>3, <2>4
<1>6. m = PassTurn(k, p)
  BY <1>1 DEF ApplyAction
<1>7. /\ "acting_player_id" \in DOMAIN k
      /\ "is_action_closed" \in DOMAIN k
      /\ "state_version" \in DOMAIN k
  BY <1>1 DEF Committed, HandState
<1>8. m.acting_player_id = next /\ m.is_action_closed = (next = NoSeat)
  BY ONLY <1>2, <1>6, <1>7 DEF PassTurn
<1> QED
  BY <1>5, <1>8 DEF MayAct

(* A refused action leaves the hand alone and is remembered. *)
LEMMA RefusalRemembered ==
    ASSUME NEW h, NEW a, ~ValidateBet(h, a.player, a.action, a.amount),
           NEW run, run.hand = h
    PROVE  /\ PlayScripted(run, a).hand = h
           /\ PlayScripted(run, a).last_error = TRUE
<1>1. PlayScripted(run, a) = [hand |-> h, last_error |-> TRUE]
  BY DEF PlayScripted
<1> QED
  BY ONLY <1>1

(* The chips an action moves when it is played, none when it is refused. *)
ChipsPlayed(h, p, action, amount) ==
    IF ValidateBet(h, p, action, amount) THEN Chips(h, p, action, amount) ELSE 0

(* The outcome of an action scripted twice. *)
PlayedTwice(h, a) == RunScenario(h, <<a, a>>)

(* An action scripted twice moves its chips once and ends in an error. *)
PlayedOnce(h, p, action, amount, run) ==
    /\ run.last_error = TRUE
    /\ run.hand.pot_amount = h.pot_amount + ChipsPlayed(h, p, action, amount)
    /\ run.hand.stack_remaining[p] =
          h.stack_remaining[p] - ChipsPlayed(h, p, action, amount)

(* A bet scripted twice is made at most once, and the second time refused. *)
LEMMA BetScriptedTwice ==
    ASSUME NEW h \in HandState, NEW p \in Seats, NEW action \in Actions, NEW amount \in Nat,
           ValidateBet(h, p, action, amount) => ReadyToAct(h, p),
           NEW a, a = [player |-> p, action |-> action, amount |-> amount]
    PROVE  PlayedOnce(h, p, action, amount, PlayedTwice(h, a))
<1>0. PICK moved, run :
         moved = ChipsPlayed(h, p, action, amount) /\ run = PlayedTwice(h, a)
  OBVIOUS
<1>1. PICK base : base = [hand |-> h, last_error |-> FALSE]
  OBVIOUS
<1>2. run = PlayScripted(PlayScripted(base, a), a)
  BY <1>0, <1>1, ScriptOfTwo DEF PlayedTwice
<1>3. h.pot_amount \in Nat /\ h.stack_remaining \in [Seats -> Nat]
  BY HandColumns
<1>4. CASE ValidateBet(h, p, action, amount)
  <2>1. PICK m : m = ApplyAction(h, p, action, amount)
    OBVIOUS
  <2>2. PICK one : one = [hand |-> m, last_error |-> FALSE]
    OBVIOUS
  <2>3. PlayScripted(base, a) = one
    BY <1>1, <1>4, <2>1, <2>2 DEF PlayScripted
  <2>4. ~ValidateBet(m, p, action, amount)
    BY <1>4, <2>1, TurnIsOver DEF ValidateBet
  <2>5. a.player = p /\ a.action = action /\ a.amount = amount
    OBVIOUS
  <2>8. one.hand = m
    BY <2>2
  <2>6. run.hand = m /\ run.last_error = TRUE
    BY ONLY <1>2, <2>3, <2>4, <2>5, <2>8, RefusalRemembered
  <2>7. /\ m.pot_amount = h.pot_amount + Chips(h, p, action, amount)
        /\ m.stack_remaining[p] = h.stack_remaining[p] - Chips(h, p, action, amount)
    BY <2>1, ActionMovesChips
  <2> QED
    BY <1>0, <1>4, <2>6, <2>7 DEF ChipsPlayed, PlayedOnce
<1>5. CASE ~ValidateBet(h, p, action, amount)
  <2>1. a.player = p /\ a.action = action /\ a.amount = amount
    OBVIOUS
  <2>2. PICK one : one = PlayScripted(base, a)
    OBVIOUS
  <2>3. base.hand = h /\ one.hand = h
    <3>1. base.hand = h
      BY <1>1
    <3> QED
      BY ONLY <1>5, <2>1, <2>2, <3>1, RefusalRemembered
  <2>4. run.hand = h /\ run.last_error = TRUE
    BY ONLY <1>2, <1>5, <2>1, <2>2, <2>3, RefusalRemembered, ZenonT(60)
  <2>5. moved = 0
    BY <1>0, <1>5 DEF ChipsPlayed
  <2>6. h.stack_remaining[p] \in Nat
    BY <1>3
  <2> QED
    BY ONLY <1>0, <1>3, <2>4, <2>5, <2>6 DEF PlayedOnce
<1> QED
  BY <1>4, <1>5

(* Until the first bet the hand is the one that was dealt, and the table's *)
(* positions are those of its dealer: no command of a hand's betting moves *)
(* button, level or snapshot.                                              *)
FreshHand ==
    /\ game.positions.dealer \in ActiveSeats(chips)
    /\ game.positions = PositionsFrom(ActiveSeats(chips), game.positions.dealer)
    /\ hand.status = "ACTIVE" => hand.state_version > 0
    /\ (hand.status = "ACTIVE" /\ hand.state_version = 1) =>
          hand = DealtHand(chips, game.positions, CurrentLevel)

(* A bet or a new street makes the version greater than one. *)
LEMMA FreshHandKept ==
    ASSUME Inv, FreshHand, [BettingNext]_vars
    PROVE  FreshHand'
<1>1. hand \in HandState /\ hand.state_version \in Nat
  BY HandColumns DEF Inv, TypeOK
<1>2. ASSUME NEW v, v = hand'.state_version, v = hand.state_version + 1,
             hand.status = "ACTIVE", UNCHANGED <<game, chips>>
      PROVE  FreshHand'
  BY <1>1, <1>2 DEF FreshHand, ActiveSeats
<1>3. ASSUME NEW by, StartRound(by) PROVE FreshHand'
  <2>1. /\ hand' = DealtHand(chips, game.positions, CurrentLevel)
        /\ UNCHANGED <<game, chips>>
    BY <1>3 DEF StartRound
  <2>2. DealtHand(chips, game.positions, CurrentLevel).state_version = 1
    BY DEF DealtHand
  <2> QED
    BY <2>1, <2>2 DEF FreshHand, ActiveSeats, CurrentLevel
<1>4. CASE PlayerStep
  <2>1. PICK p \in Seats, action \in Actions : \E amount \in Amounts(action) :
           PlaceBet(p, action, amount)
    BY <1>4 DEF PlayerStep
  <2>2. PICK amount \in Amounts(action) : PlaceBet(p, action, amount)
    BY <2>1
  <2>3. PICK k : k = Committed(hand, p, action, amount)
    OBVIOUS
  <2>4. hand' = PassTurn(k, p) /\ hand.status = "ACTIVE" /\ UNCHANGED <<game, chips>>
    BY <2>2, <2>3 DEF PlaceBet, ApplyAction, ValidateBet, MayAct
  <2>5. k.state_version = hand.state_version /\ "state_version" \in DOMAIN k
    BY <1>1, <2>3 DEF Committed, HandState
  <2>6. hand'.state_version = hand.state_version + 1
    BY ONLY <2>4, <2>5 DEF PassTurn
  <2> QED
    BY <1>2, <2>4, <2>6
<1>5. CASE AdvanceStreet
  <2>1. hand' = AdvancedHand(hand) /\ hand.status = "ACTIVE" /\ UNCHANGED <<game, chips>>
    BY <1>5 DEF AdvanceStreet
  <2>2. AdvancedHand(hand).state_version = hand.state_version + 1
    BY <1>1 DEF AdvancedHand, ClosedHand, EvaluateStreetEnd, HandState
  <2> QED
    BY <1>2, <2>1, <2>2
<1>6. CASE UNCHANGED vars
  BY <1>6 DEF vars, FreshHand, ActiveSeats, CurrentLevel
<1> QED
  BY <1>3, <1>4, <1>5, <1>6 DEF BettingNext

(* The scenario tests deal with code of their own and script their actions *)
(* outside of any round: with more than two players they deal the hand     *)
(* start_round deals, and their script makes a bet once, as a table would. *)
THEOREM ScenariosPlayTheGame == BettingSpec => []ScenarioPlaysTheGame
<1>1. Init => FreshHand
  <2> SUFFICES ASSUME Init  PROVE FreshHand
    OBVIOUS
  <2>1. PICK starting \in Seats : game = StartedGame(chips, starting)
    BY DEF Init
  <2>2. PICK S : S = ActiveSeats(chips)
    OBVIOUS
  <2>3. S \in SUBSET Nat /\ S # {}
    BY <2>2, InitialChipsAssumption, SeatsAssumption DEF Init, ActiveSeats, AtMostOne
  <2>4. PICK dealer \in S : dealer = IF starting \in S THEN starting ELSE Min(S)
    BY <2>3, MinNat
  <2>5. game.positions = PositionsFrom(S, dealer)
    BY <2>1, <2>2, <2>4 DEF StartedGame, AssignPositions
  <2>6. game.positions.dealer = dealer
    BY <2>5 DEF PositionsFrom
  <2>7. hand.status = "NONE"
    BY DEF Init, NoHand
  <2> QED
    BY <2>2, <2>4, <2>5, <2>6, <2>7 DEF FreshHand
<1>2. Inv /\ FreshHand /\ [BettingNext]_vars => FreshHand'
  BY FreshHandKept
<1>3. Inv /\ FreshHand => ScenarioPlaysTheGame
  <2> SUFFICES ASSUME Inv, FreshHand, hand.status = "ACTIVE", hand.state_version = 1,
                      Cardinality(ActiveSeats(chips)) > 2
               PROVE  ScenarioPlaysTheGame
    BY DEF ScenarioPlaysTheGame
  <2>1. hand \in HandState /\ chips \in [Seats -> Nat] /\ CurrentLevel \in Level
    BY CurrentLevelConfigured DEF Inv, TypeOK
  <2>2. PICK level \in Level : level = CurrentLevel
    BY <2>1
  <2>3. PICK dealer \in ActiveSeats(chips) : dealer = game.positions.dealer
    BY DEF FreshHand
  <2>4. Cardinality(ActiveSeats(chips)) # 2
    OBVIOUS
  <2>5. PICK pos : pos = PositionsFrom(ActiveSeats(chips), dealer)
    OBVIOUS
  <2>6. ScenarioHand(chips, dealer, level) = DealtHand(chips, pos, level)
    BY <2>1, <2>4, <2>5, ScenarioDealsAlike
  <2>7. hand = DealtHand(chips, pos, level)
    BY <2>2, <2>3, <2>5 DEF FreshHand
  <2>8. ScenarioHand(chips, game.positions.dealer, CurrentLevel) = hand
    BY ONLY <2>2, <2>3, <2>6, <2>7
  <2>9. ASSUME NEW p \in Seats, NEW action \in Actions, NEW amount \in Amounts(action),
               NEW a, a = [player |-> p, action |-> action, amount |-> amount],
               NEW moved, moved = ChipsPlayed(hand, p, action, amount),
               NEW run, run = RunScenario(hand, <<a, a>>)
        PROVE  /\ Evaluate(run, [check_type |-> "error"])
               /\ Evaluate(run, [check_type |-> "pot", amount |-> hand.pot_amount + moved])
               /\ Evaluate(run, [check_type |-> "player_stack", player |-> p,
                                 amount |-> hand.stack_remaining[p] - moved])
    <3>1. amount \in Nat
      BY DEF Amounts
    <3>2. ValidateBet(hand, p, action, amount) => ReadyToAct(hand, p)
      BY LivePlayerReady DEF ValidateBet, MayAct
    <3>3. /\ run.last_error = TRUE
          /\ run.hand.pot_amount = hand.pot_amount + moved
          /\ run.hand.stack_remaining[p] = hand.stack_remaining[p] - moved
      <4>1. PlayedOnce(hand, p, action, amount, PlayedTwice(hand, a))
        BY <2>1, <2>9, <3>1, <3>2, BetScriptedTwice
      <4> QED
        BY ONLY <2>9, <4>1 DEF PlayedOnce, PlayedTwice
    <3>4. Evaluate(run, [check_type |-> "error"])
      BY ONLY <3>3 DEF Evaluate
    <3>5. Evaluate(run, [check_type |-> "pot", amount |-> hand.pot_amount + moved])
      BY ONLY <3>3 DEF Evaluate
    <3>6. Evaluate(run, [check_type |-> "player_stack", player |-> p,
                         amount |-> hand.stack_remaining[p] - moved])
      BY ONLY <3>3 DEF Evaluate
    <3> QED
      BY <3>4, <3>5, <3>6
  <2> QED
    BY ONLY <2>8, <2>9 DEF ScenarioPlaysTheGame, ChipsPlayed
<1>4. BettingNext => Next
  BY DEF Next
<1> QED
  BY <1>1, <1>2, <1>3, <1>4, InitInv, NextInv, PTL DEF BettingSpec
=============================================================================
