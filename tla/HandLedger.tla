----------------------------- MODULE HandLedger ------------------------------
(***************************************************************************)
(* The append-only ledger of one hand beside its live projection (rounds   *)
(* and round_players), and the dealer's corrections, which write both.     *)
(* An entry is known by its place in the ledger.  Commands do not overlap  *)
(* here; RoundTransactions has those that do.                              *)
(***************************************************************************)
EXTENDS HandViews

CONSTANTS
    FirstChips,     \* the stacks a hand may be dealt with
    BlindLevel,     \* the blind level it is played at
    Submissions(_), \* the payouts a client may submit for a hand
    Adjustments,    \* the amounts the dealer may adjust a stack by
    PayoutAmounts,  \* the amounts the dealer may correct payouts by
    MaxEntries,     \* bound on the ledger
    MaxVersion      \* bound on state_version when a street is advanced

ASSUME LedgerAssumption ==
    /\ FirstChips \subseteq [Seats -> Nat \ {0}]
    /\ BlindLevel \in Level
    /\ Adjustments \subseteq Int /\ PayoutAmounts \subseteq Nat
    /\ MaxEntries \in Nat /\ MaxVersion \in Nat

VARIABLES
    hand,       \* the live projection
    dealt,      \* the stacks the hand was dealt with
    ledger,     \* hand_ledger_entries of the round
    payout_rows,\* round_payouts of the round; corrections leave them alone
    counted     \* how often the game has counted the hand

vars == <<hand, dealt, ledger, payout_rows, counted>>

CommitTypes == {"BLIND_POSTED", "ANTE_POSTED", "BET_PLACED"}
CorrectionTypes == {"ACTION_REVERSED", "STACK_ADJUSTED", "HAND_REOPENED", "PAYOUT_CORRECTED"}
EntryTypes == CommitTypes \cup {"PAYOUT_AWARDED", "ROUND_COMPLETED"} \cup CorrectionTypes

NoEntry == 0
Entry(type, player, amount) ==
    [type |-> type, player |-> player, amount |-> amount, original |-> NoEntry,
     old_player |-> NoSeat, old_amount |-> 0]

-----------------------------------------------------------------------------
(* hand_ledger.py: what the ledger says of the hand                        *)

Replayed == [players: SUBSET Seats, committed: [Seats -> Int], won: [Seats -> Int],
             adjusted: [Seats -> Int], pot: Int,
             is_completed: BOOLEAN, is_reopened: BOOLEAN]

NothingReplayed ==
    [players |-> {}, committed |-> [s \in Seats |-> 0], won |-> [s \in Seats |-> 0],
     adjusted |-> [s \in Seats |-> 0], pot |-> 0,
     is_completed |-> FALSE, is_reopened |-> FALSE]

(* The amounts f with x more for seat p; NoSeat changes nothing. *)
Plus(f, p, x) == [s \in Seats |-> IF s = p THEN f[s] + x ELSE f[s]]

ApplyEntry(state, e) ==
    LET seen == [state EXCEPT !.players = @ \cup ({e.player, e.old_player} \ {NoSeat})]
    IN  CASE e.type \in CommitTypes ->
               [seen EXCEPT !.committed = Plus(@, e.player, e.amount), !.pot = @ + e.amount]
          [] e.type = "ACTION_REVERSED" ->
               [seen EXCEPT !.committed = Plus(@, e.player, -e.amount), !.pot = @ - e.amount]
          [] e.type = "PAYOUT_AWARDED" ->
               [seen EXCEPT !.won = Plus(@, e.player, e.amount)]
          [] e.type = "PAYOUT_CORRECTED" ->
               [seen EXCEPT !.won = Plus(Plus(@, e.old_player, -e.old_amount),
                                         e.player, e.amount)]
          [] e.type = "STACK_ADJUSTED" ->
               [seen EXCEPT !.adjusted = Plus(@, e.player, e.amount)]
          [] e.type = "ROUND_COMPLETED" -> [seen EXCEPT !.is_completed = TRUE]
          [] e.type = "HAND_REOPENED" ->
               [seen EXCEPT !.is_completed = FALSE, !.is_reopened = TRUE]

RebuildHandState(entries) == FoldLeft(ApplyEntry, NothingReplayed, entries)

(* verify_consistency finds no discrepancy between ledger and projection. *)
VerifyConsistency(entries, h) ==
    LET state == RebuildHandState(entries)
    IN  /\ state.pot = h.pot_amount
        /\ state.players = Seats
        /\ \A s \in Seats : state.committed[s] = h.committed_this_hand[s]

(* replay_hand: the state after every entry. *)
ReplayHand(entries) ==
    [i \in DOMAIN entries |-> RebuildHandState(SubSeq(entries, 1, i))]

(* hand_history.py.  No command writes STREET_DEALT, so every action is    *)
(* listed under the first street.                                          *)
EmptyTimeline ==
    [pot |-> 0, actions |-> <<>>, payouts |-> <<>>, corrections |-> <<>>,
     is_completed |-> FALSE, is_reopened |-> FALSE]

(* Mutant: a reversal is listed without being taken off the running pot. *)
TimelineEntryKeepsPot(timeline, e) ==
    CASE e.type \in CommitTypes ->
           [timeline EXCEPT !.pot = @ + e.amount, !.actions = Append(@, timeline.pot + e.amount)]
      [] e.type = "PAYOUT_AWARDED" -> [timeline EXCEPT !.payouts = Append(@, e)]
      [] e.type = "ROUND_COMPLETED" -> [timeline EXCEPT !.is_completed = TRUE]
      [] e.type = "HAND_REOPENED" ->
           [timeline EXCEPT !.corrections = Append(@, e), !.is_reopened = TRUE,
                            !.is_completed = FALSE]
      [] OTHER -> [timeline EXCEPT !.corrections = Append(@, e)]

(* One entry of build_hand_timeline: an action is listed with the running  *)
(* pot, a reversal takes its amount off it.                                *)
TimelineEntry(timeline, e) ==
    CASE e.type \in CommitTypes ->
           [timeline EXCEPT !.pot = @ + e.amount, !.actions = Append(@, timeline.pot + e.amount)]
      [] e.type = "PAYOUT_AWARDED" -> [timeline EXCEPT !.payouts = Append(@, e)]
      [] e.type = "ROUND_COMPLETED" -> [timeline EXCEPT !.is_completed = TRUE]
      [] e.type = "HAND_REOPENED" ->
           [timeline EXCEPT !.corrections = Append(@, e), !.is_reopened = TRUE,
                            !.is_completed = FALSE]
      [] e.type = "ACTION_REVERSED" ->
           [timeline EXCEPT !.corrections = Append(@, e), !.pot = @ - e.amount]
      [] OTHER -> [timeline EXCEPT !.corrections = Append(@, e)]

BuildHandTimeline(entries) == FoldLeft(TimelineEntry, EmptyTimeline, entries)

-----------------------------------------------------------------------------
(* The commands of a hand and the entries they append                      *)

(* start_round: one entry for every player who posted, in seat order. *)
PostingEntries(h, pos) ==
    LET posters == InOrder({s \in Seats : h.committed_this_hand[s] > 0})
        Type(s) == IF s \in {pos.sb, pos.bb} THEN "BLIND_POSTED" ELSE "ANTE_POSTED"
    IN  [i \in DOMAIN posters |->
           Entry(Type(posters[i]), posters[i], h.committed_this_hand[posters[i]])]

Init ==
    /\ dealt \in FirstChips
    /\ \E starting \in Seats :
          LET pos == AssignPositions(Seats, starting)
          IN  /\ hand = DealtHand(dealt, pos, BlindLevel)
              /\ ledger = PostingEntries(hand, pos)
    /\ payout_rows = <<>>
    /\ counted = 0

(* Mutant: the entry records the requested amount. *)
BetEntryAsRequested(h, p, action, amount) == Entry("BET_PLACED", p, amount)

(* record_bet_action *)
BetEntry(h, p, action, amount) == Entry("BET_PLACED", p, Chips(h, p, action, amount))

PlaceBet(p, action, amount) ==
    /\ ValidateBet(hand, p, action, amount)
    /\ Len(ledger) < MaxEntries
    /\ hand' = ApplyAction(hand, p, action, amount)
    /\ ledger' = Append(ledger, BetEntry(hand, p, action, amount))
    /\ UNCHANGED <<dealt, payout_rows, counted>>

AdvanceStreet ==
    /\ hand.status = "ACTIVE" /\ hand.street # "SHOWDOWN"
    /\ hand.state_version < MaxVersion
    /\ hand' = AdvancedHand(hand)
    /\ UNCHANGED <<dealt, ledger, payout_rows, counted>>

(* One PAYOUT_AWARDED for every winner of every pot, then ROUND_COMPLETED. *)
PayoutEntries(h, payouts) ==
    LET rows == PayoutRows(payouts)
    IN  Append([i \in DOMAIN rows |->
                  Entry("PAYOUT_AWARDED", rows[i].player, rows[i].amount)],
               Entry("ROUND_COMPLETED", NoSeat, h.pot_amount))

Completions == {i \in DOMAIN ledger : ledger[i].type = "ROUND_COMPLETED"}

(* Mutant: a hand is counted whenever it is settled. *)
CountHandAlways == counted + 1

(* has_round_completed_entry: a hand settled again is not counted again. *)
CountHand == IF Completions = {} THEN counted + 1 ELSE counted

ResolveHand(payouts) ==
    /\ PayoutsAccepted(hand, payouts)
    /\ Len(ledger) < MaxEntries
    /\ hand' = ResolvedHand(hand, payouts)
    /\ ledger' = ledger \o PayoutEntries(hand, payouts)
    /\ payout_rows' = payout_rows \o PayoutRows(payouts)
    /\ counted' = CountHand
    /\ UNCHANGED dealt

-----------------------------------------------------------------------------
(* correction_command_service.py.  None of the corrections raises          *)
(* state_version; one that would make a stack negative violates a CHECK    *)
(* constraint and is rolled back.                                          *)

AtLeastZero(n) == IF n > 0 THEN n ELSE 0

(* Mutant: only a bet of the present street goes back to the stack. *)
ReversedThisStreet(h, e) ==
    IF e.player = NoSeat \/ e.amount <= 0 THEN h
    ELSE [h EXCEPT
            !.stack_remaining[e.player] =
                @ + Smaller(e.amount, h.committed_this_street[e.player]),
            !.committed_this_street[e.player] = AtLeastZero(@ - e.amount),
            !.committed_this_hand[e.player] = AtLeastZero(@ - e.amount),
            !.pot_amount = AtLeastZero(@ - e.amount)]

(* The projection of a reversal, the same for every type of entry. *)
Reversed(h, e) ==
    IF e.player = NoSeat \/ e.amount <= 0 THEN h
    ELSE [h EXCEPT
            !.stack_remaining[e.player] = @ + e.amount,
            !.committed_this_street[e.player] = AtLeastZero(@ - e.amount),
            !.committed_this_hand[e.player] = AtLeastZero(@ - e.amount),
            !.pot_amount = AtLeastZero(@ - e.amount)]

ReversedEntries ==
    {ledger[i].original : i \in {k \in DOMAIN ledger : ledger[k].type = "ACTION_REVERSED"}}

ReverseAction(i) ==
    /\ ledger[i].type \notin CorrectionTypes
    /\ i \notin ReversedEntries
    /\ Len(ledger) < MaxEntries
    /\ hand' = Reversed(hand, ledger[i])
    /\ ledger' = Append(ledger,
                   [Entry("ACTION_REVERSED", ledger[i].player, ledger[i].amount)
                      EXCEPT !.original = i])
    /\ UNCHANGED <<dealt, payout_rows, counted>>

(* The stacks become these, unless one would be negative. *)
SetStacks(stacks) ==
    /\ \A s \in Seats : stacks[s] >= 0
    /\ hand' = [hand EXCEPT !.stack_remaining = stacks]

AdjustStack(p, amount) ==
    /\ Len(ledger) < MaxEntries
    /\ SetStacks(Plus(hand.stack_remaining, p, amount))
    /\ ledger' = Append(ledger, Entry("STACK_ADJUSTED", p, amount))
    /\ UNCHANGED <<dealt, payout_rows, counted>>

ReopenHand ==
    /\ hand.status = "COMPLETED"
    /\ Len(ledger) < MaxEntries
    /\ hand' = [hand EXCEPT !.status = "ACTIVE", !.is_action_closed = FALSE]
    /\ ledger' = Append(ledger, Entry("HAND_REOPENED", NoSeat, 0))
    /\ UNCHANGED <<dealt, payout_rows, counted>>

CorrectPayout(old, old_amount, new, new_amount) ==
    /\ Len(ledger) < MaxEntries
    /\ SetStacks(Plus(Plus(hand.stack_remaining, old, -old_amount), new, new_amount))
    /\ ledger' = Append(ledger,
                   [Entry("PAYOUT_CORRECTED", new, new_amount)
                      EXCEPT !.old_player = old, !.old_amount = old_amount])
    /\ UNCHANGED <<dealt, payout_rows, counted>>

(* The amounts a client may submit: only BET and RAISE read theirs. *)
Amounts(action) ==
    IF action \in {"BET", "RAISE"}
    THEN 0..Max({hand.stack_remaining[s] + hand.committed_this_street[s] : s \in Seats})
    ELSE {0}

HandStep ==
    \/ \E p \in Seats, action \in Actions :
          \E amount \in Amounts(action) : PlaceBet(p, action, amount)
    \/ AdvanceStreet
    \/ \E payouts \in Submissions(hand) : ResolveHand(payouts)

CorrectionStep ==
    \/ \E i \in DOMAIN ledger : ReverseAction(i)
    \/ \E p \in Seats, amount \in Adjustments : AdjustStack(p, amount)
    \/ ReopenHand
    \/ \E old, new \in Seats, old_amount, new_amount \in PayoutAmounts :
          CorrectPayout(old, old_amount, new, new_amount)

Spec == Init /\ [][HandStep \/ CorrectionStep]_vars

-----------------------------------------------------------------------------
(* Properties                                                              *)

TypeOK ==
    /\ hand \in HandState
    /\ dealt \in [Seats -> Nat]
    /\ \A i \in DOMAIN ledger :
          /\ ledger[i].type \in EntryTypes
          /\ ledger[i].player \in Seats \cup {NoSeat}
          /\ ledger[i].amount \in Int
          /\ ledger[i].original \in 0..(i - 1)
    /\ payout_rows \in Seq(PayoutRow)
    /\ counted \in Nat

(* Whatever is bet, settled, reversed, adjusted, reopened and corrected,   *)
(* in any order, the ledger accounts for every chip of every stack: what   *)
(* the player was dealt, less what the ledger says he committed, plus what *)
(* it says he won and was given.                                           *)
LedgerExplainsStacks ==
    LET state == RebuildHandState(ledger)
    IN  \A s \in Seats :
           hand.stack_remaining[s] =
              dealt[s] - state.committed[s] + state.won[s] + state.adjusted[s]

(* As long as the dealer reverses only posts and bets, the live pot and    *)
(* commitments are the replayed ones: the clamps of reverse_action at zero *)
(* never hide chips.                                                       *)
LedgerExplainsPot ==
    (\A i \in ReversedEntries : ledger[i].type \in CommitTypes) =>
       LET state == RebuildHandState(ledger)
       IN  /\ state.pot = hand.pot_amount
           /\ \A s \in Seats : state.committed[s] = hand.committed_this_hand[s]

(* The replay and the timeline read the same ledger with separate code:    *)
(* through settlements, reversals and reopenings both know whether the     *)
(* hand is completed at present and was ever reopened, and the running pot *)
(* of the timeline is the replayed one after every action.                 *)
HistoriesAgree ==
    LET steps    == ReplayHand(ledger)
        last     == steps[Len(ledger)]
        timeline == BuildHandTimeline(ledger)
        commits  == InOrder({i \in DOMAIN ledger : ledger[i].type \in CommitTypes})
    IN  /\ last.is_completed = (hand.status = "COMPLETED")
        /\ timeline.is_completed = last.is_completed
        /\ timeline.is_reopened = last.is_reopened
        /\ timeline.pot = last.pot
        /\ timeline.actions = [k \in DOMAIN commits |-> steps[commits[k]].pot]

(* Until a hand is reopened or one of its entries reversed, the settlement *)
(* explanation, which pairs the rows of round_payouts with pots it         *)
(* computes anew, leaves no payout out and adds up: what it calls awarded  *)
(* is what the ledger paid, and what it calls unclaimed is what is left of *)
(* the pot.                                                                *)
PayoutsAreExplained ==
    (\A i \in DOMAIN ledger : ledger[i].type \notin {"ACTION_REVERSED", "HAND_REOPENED"}) =>
       LET totals == Totals(ExplainSettlement(hand, payout_rows))
           awards == {i \in DOMAIN ledger : ledger[i].type = "PAYOUT_AWARDED"}
       IN  /\ totals.awarded = SumFunction([i \in awards |-> ledger[i].amount])
           /\ totals.unclaimed = hand.pot_amount - totals.awarded
           /\ totals.unclaimed >= 0

(* However often a hand is reopened and settled again, the game counts it  *)
(* once.                                                                   *)
ReopenedHandCountedOnce == counted = IF Completions = {} THEN 0 ELSE 1
=============================================================================
