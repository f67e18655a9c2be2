----------------------- MODULE RoundTransactionsProofs -----------------------
(***************************************************************************)
(* What overlapping requests on one round never break, for every table,    *)
(* every set of bets and any number of requests.                           *)
(***************************************************************************)
EXTENDS RoundTransactions, HandEngineProofs

-----------------------------------------------------------------------------
(* Rows written and read                                                   *)

(* The players of one hand under the round columns of another: well formed *)
(* and at the version of the round columns.                                *)
LEMMA WithPlayersTyped ==
    ASSUME NEW h1 \in HandState, NEW h2 \in HandState
    PROVE  /\ WithPlayers(h1, h2) \in HandState
           /\ WithPlayers(h1, h2).state_version = h1.state_version
BY DEF WithPlayers, HandState

(* Round and players of one hand are that hand. *)
LEMMA WithPlayersSame ==
    ASSUME NEW h \in HandState
    PROVE  WithPlayers(h, h) = h
BY DEF WithPlayers, HandState

(* A flush writes, column by column, a value that was computed or leaves   *)
(* one that is committed.                                                  *)
LEMMA DirtyRowsTyped ==
    ASSUME NEW db \in [Seats -> Nat], NEW loaded, NEW updated \in [Seats -> Nat]
    PROVE  DirtyRows(db, loaded, updated) \in [Seats -> Nat]
BY DEF DirtyRows, Dirty

LEMMA DirtyFlagsTyped ==
    ASSUME NEW db, NEW loaded, NEW updated
    PROVE  DirtyFlags(db, loaded, updated) \in SUBSET Seats
BY DEF DirtyFlags

(* Over the rows that were loaded, a flush writes the computed rows. *)
LEMMA DirtyRowsSame ==
    ASSUME NEW db \in [Seats -> Nat], NEW updated \in [Seats -> Nat]
    PROVE  DirtyRows(db, db, updated) = updated
BY DEF DirtyRows, Dirty

LEMMA DirtyFlagsSame ==
    ASSUME NEW db \in SUBSET Seats, NEW updated \in SUBSET Seats
    PROVE  DirtyFlags(db, db, updated) = updated
BY DEF DirtyFlags, Dirty

LEMMA FlushPlayersTyped ==
    ASSUME NEW db \in HandState, NEW loaded, NEW updated \in HandState
    PROVE  /\ FlushPlayers(db, loaded, updated) \in HandState
           /\ FlushPlayers(db, loaded, updated).state_version = updated.state_version
<1>1. PICK a, b, c :
         /\ a = DirtyRows(db.stack_remaining, loaded.stack_remaining,
                          updated.stack_remaining)
         /\ b = DirtyRows(db.committed_this_street, loaded.committed_this_street,
                          updated.committed_this_street)
         /\ c = DirtyRows(db.committed_this_hand, loaded.committed_this_hand,
                          updated.committed_this_hand)
  OBVIOUS
<1>2. PICK d, e, f :
         /\ d = DirtyFlags(db.has_folded, loaded.has_folded, updated.has_folded)
         /\ e = DirtyFlags(db.is_all_in, loaded.is_all_in, updated.is_all_in)
         /\ f = DirtyFlags(db.is_active_in_hand, loaded.is_active_in_hand,
                           updated.is_active_in_hand)
  OBVIOUS
<1>3. a \in [Seats -> Nat] /\ b \in [Seats -> Nat] /\ c \in [Seats -> Nat]
  BY <1>1, DirtyRowsTyped, HandColumns
<1>4. d \in SUBSET Seats /\ e \in SUBSET Seats /\ f \in SUBSET Seats
  BY <1>2, DirtyFlagsTyped
<1>5. FlushPlayers(db, loaded, updated) =
        [updated EXCEPT
           !.stack_remaining = a, !.committed_this_street = b, !.committed_this_hand = c,
           !.has_folded = d, !.is_all_in = e, !.is_active_in_hand = f]
  BY <1>1, <1>2 DEF FlushPlayers
<1> QED
  BY <1>3, <1>4, <1>5, ZenonT(60) DEF HandState

LEMMA FlushPlayersSame ==
    ASSUME NEW db \in HandState, NEW updated \in HandState
    PROVE  FlushPlayers(db, db, updated) = updated
<1>1. /\ DirtyRows(db.stack_remaining, db.stack_remaining, updated.stack_remaining)
           = updated.stack_remaining
      /\ DirtyRows(db.committed_this_street, db.committed_this_street,
                   updated.committed_this_street) = updated.committed_this_street
      /\ DirtyRows(db.committed_this_hand, db.committed_this_hand,
                   updated.committed_this_hand) = updated.committed_this_hand
  BY DirtyRowsSame, HandColumns
<1>2. /\ DirtyFlags(db.has_folded, db.has_folded, updated.has_folded)
           = updated.has_folded
      /\ DirtyFlags(db.is_all_in, db.is_all_in, updated.is_all_in) = updated.is_all_in
      /\ DirtyFlags(db.is_active_in_hand, db.is_active_in_hand,
                    updated.is_active_in_hand) = updated.is_active_in_hand
  BY DirtyFlagsSame, HandColumns
<1>3. FlushPlayers(db, db, updated) =
        [updated EXCEPT
           !.stack_remaining = updated.stack_remaining,
           !.committed_this_street = updated.committed_this_street,
           !.committed_this_hand = updated.committed_this_hand,
           !.has_folded = updated.has_folded, !.is_all_in = updated.is_all_in,
           !.is_active_in_hand = updated.is_active_in_hand]
  BY <1>1, <1>2 DEF FlushPlayers
<1> QED
  BY <1>3 DEF HandState

LEMMA FlushTyped ==
    ASSUME NEW db \in HandState, NEW loaded, NEW updated \in HandState
    PROVE  Flush(db, loaded, updated) \in HandState
<1>1. PICK g : g = [c \in DOMAIN updated |-> Dirty(db[c], loaded[c], updated[c])]
  OBVIOUS
<1>2. DOMAIN g = DOMAIN updated /\ \A c \in DOMAIN updated : g[c] \in {db[c], updated[c]}
  BY <1>1 DEF Dirty
<1>3. g \in HandState
  BY <1>1, <1>2 DEF HandState
<1>4. FlushPlayers(db, loaded, updated) \in HandState
  BY FlushPlayersTyped
<1> QED
  BY <1>1, <1>3, <1>4, WithPlayersTyped DEF Flush
-----------------------------------------------------------------------------
(* The invariants                                                          *)

AnyCommand ==
    {NoCommand, [kind |-> "table_state"], [kind |-> "advance"]}
      \cup {BetCommand(c) : c \in Commands}
      \cup [kind: {"resolve"}, payouts: Settlements]

Transaction == [at: At, command: AnyCommand, loaded: HandState \cup {<<>>}]
Reading == {"read_round", "read_players"}

(* Rows are well formed, and no key is recorded twice. *)
Inv ==
    /\ hand \in HandState
    /\ bets \subseteq [command: Commands, version: Nat, action: Actions, amount: Nat]
    /\ tx \in [Requests -> Transaction]
    /\ \A r \in Requests : tx[r].at \in Reading => tx[r].loaded \in HandState
    /\ KeyAppliedOnce

(* What a request has loaded is the committed hand, or older by its        *)
(* version: the version rises with every bet.                              *)
LoadedFresh(loaded) ==
    /\ loaded.state_version <= hand.state_version
    /\ loaded.state_version = hand.state_version => loaded = hand

(* Among bets alone, every request that has read is in that situation,     *)
(* also between its two reads, where CurrentVersionMeansCurrentRows says   *)
(* nothing yet.                                                            *)
BetInv ==
    /\ Inv
    /\ \A r \in Requests : tx[r].at \in Reading => LoadedFresh(tx[r].loaded)

LEMMA InitInv == ASSUME Init  PROVE BetInv
<1>1. hand \in HandState /\ bets = {}
  BY HandsAssumption DEF Init
<1>2. Idle \in Transaction /\ Idle.at \notin Reading
  BY DEF Idle, Transaction, At, AnyCommand, Reading
<1>3. tx \in [Requests -> Transaction] /\ \A r \in Requests : tx[r].at \notin Reading
  BY <1>2 DEF Init
<1> QED
  BY <1>1, <1>3 DEF BetInv, Inv, KeyAppliedOnce

(* One request moves on and nothing is committed. *)
LEMMA MovesInv ==
    ASSUME Inv, NEW r \in Requests, NEW t \in Transaction, Moves(r, t),
           UNCHANGED <<hand, bets>>, t.at \in Reading => t.loaded \in HandState
    PROVE  /\ Inv'
           /\ BetInv /\ (t.at \in Reading => LoadedFresh(t.loaded)) => BetInv'
<1>1. tx' = [tx EXCEPT ![r] = t] /\ tx \in [Requests -> Transaction]
  BY DEF Moves, Inv
<1>2. \A q \in Requests : tx'[q] = IF q = r THEN t ELSE tx[q]
  BY <1>1
<1>3. tx' \in [Requests -> Transaction]
  BY <1>1
<1>4. \A q \in Requests : tx'[q].at \in Reading => tx'[q].loaded \in HandState
  BY <1>2 DEF Inv
<1>5. KeyAppliedOnce'
  BY DEF Inv, KeyAppliedOnce, Atomic!NoKey
<1>6. Inv'
  BY <1>3, <1>4, <1>5 DEF Inv
<1>7. ASSUME BetInv, t.at \in Reading => LoadedFresh(t.loaded)
      PROVE  BetInv'
  <2>1. \A q \in Requests : tx'[q].at \in Reading => LoadedFresh(tx'[q].loaded)
    BY <1>2, <1>7 DEF BetInv
  <2>2. \A q \in Requests : tx'[q].at \in Reading => LoadedFresh(tx[q].loaded)'
    BY <2>1 DEF LoadedFresh
  <2> QED
    BY <1>6, <2>2 DEF BetInv
<1> QED
  BY <1>6, <1>7

(* Submitting, replaying, refusing and leaving commit nothing and load     *)
(* nothing.                                                                *)
LEMMA SubmitBetInv ==
    ASSUME Inv, NEW r \in Requests, NEW c \in Commands, SubmitBet(r, c)
    PROVE  Inv' /\ (BetInv => BetInv')
<1>1. PICK at \in {"looked_up", "conflict", "replayed"} :
         Moves(r, [Idle EXCEPT !.command = BetCommand(c), !.at = at])
  BY DEF SubmitBet
<1>2. PICK t : t = [Idle EXCEPT !.command = BetCommand(c), !.at = at]
  OBVIOUS
<1>3. t \in Transaction /\ t.at \notin Reading
  BY <1>2 DEF Idle, Transaction, At, AnyCommand, Reading
<1> QED
  BY <1>1, <1>2, <1>3, MovesInv DEF SubmitBet

LEMMA SubmitOtherInv ==
    ASSUME Inv, NEW r \in Requests, NEW command \in AnyCommand, SubmitOther(r, command)
    PROVE  Inv' /\ (BetInv => BetInv')
<1>1. PICK t : t = [Idle EXCEPT !.command = command, !.at = "looked_up"]
  OBVIOUS
<1>2. t \in Transaction /\ t.at \notin Reading
  BY <1>1 DEF Idle, Transaction, At, Reading
<1> QED
  BY <1>1, <1>2, MovesInv DEF SubmitOther

LEMMA FinishInv ==
    ASSUME Inv, NEW r \in Requests, Finish(r)
    PROVE  Inv' /\ (BetInv => BetInv')
<1>1. Idle \in Transaction /\ Idle.at \notin Reading
  BY DEF Idle, Transaction, At, AnyCommand, Reading
<1> QED
  BY <1>1, MovesInv DEF Finish

(* Reading the round loads the committed hand. *)
LEMMA ReadRoundInv ==
    ASSUME Inv, NEW r \in Requests, ReadRound(r)
    PROVE  Inv' /\ (BetInv => BetInv')
<1>1. hand \in HandState /\ tx[r] \in Transaction
  BY DEF Inv
<1>2. PICK t : t = [tx[r] EXCEPT !.at = "read_round", !.loaded = hand]
  OBVIOUS
<1>3. t \in Transaction /\ t.loaded = hand
  BY <1>1, <1>2 DEF Transaction, At
<1>4. LoadedFresh(t.loaded)
  BY <1>1, <1>3, HandColumns DEF LoadedFresh
<1> QED
  BY <1>1, <1>2, <1>3, <1>4, MovesInv DEF ReadRound

(* Reading the players keeps the version of the round read before: when no *)
(* bet was committed in between the whole is the committed hand, otherwise *)
(* its version is out of date.                                             *)
LEMMA ReadPlayersInv ==
    ASSUME Inv, NEW r \in Requests, ReadPlayers(r)
    PROVE  Inv' /\ (BetInv => BetInv')
<1>1. PICK l : l = tx[r].loaded
  OBVIOUS
<1>2. hand \in HandState /\ tx[r] \in Transaction /\ l \in HandState
  BY <1>1 DEF Inv, ReadPlayers, Reading
<1>3. PICK w : w = WithPlayers(l, hand)
  OBVIOUS
<1>4. w \in HandState /\ w.state_version = l.state_version
  BY <1>2, <1>3, WithPlayersTyped
<1>5. PICK t : t = [tx[r] EXCEPT !.at = "read_players", !.loaded = w]
  OBVIOUS
<1>6. t \in Transaction /\ t.loaded = w
  BY <1>2, <1>4, <1>5 DEF Transaction, At
<1>7. BetInv => LoadedFresh(w)
  <2> SUFFICES ASSUME BetInv  PROVE LoadedFresh(w)
    OBVIOUS
  <2>1. LoadedFresh(l)
    BY <1>1 DEF BetInv, ReadPlayers, Reading
  <2> QED
    BY <1>2, <1>3, <1>4, <2>1, WithPlayersSame DEF LoadedFresh
<1>8. Moves(r, t)
  BY <1>1, <1>2, <1>3, <1>5 DEF ReadPlayers, Transaction
<1> QED
  BY <1>4, <1>6, <1>7, <1>8, MovesInv DEF ReadPlayers
-----------------------------------------------------------------------------
(* The specification of what place_bet promises is about the same engine.  *)

LEMMA AtomicChips ==
    ASSUME NEW h, NEW p, NEW action, NEW amount
    PROVE  Atomic!Chips(h, p, action, amount) = Chips(h, p, action, amount)
BY DEF Atomic!Chips, Chips, Atomic!CallAmount, CallAmount, Atomic!Smaller, Smaller

LEMMA AtomicEffectiveAction ==
    ASSUME NEW h, NEW p, NEW action, NEW amount
    PROVE  Atomic!EffectiveAction(h, p, action, amount) = EffectiveAction(h, p, action, amount)
BY AtomicChips DEF Atomic!EffectiveAction, EffectiveAction

LEMMA AtomicValidateBet ==
    ASSUME NEW h, NEW p, NEW action, NEW amount, ValidateBet(h, p, action, amount)
    PROVE  Atomic!ValidateBet(h, p, action, amount)
BY AtomicChips
   DEF Atomic!ValidateBet, ValidateBet, Atomic!MayAct, MayAct, Atomic!CanAct, CanAct,
       Atomic!CallAmount, CallAmount, Atomic!SizeAllowed, SizeAllowed,
       Atomic!NoSeat, NoSeat

LEMMA AtomicNextToAct ==
    ASSUME NEW h, NEW p
    PROVE  Atomic!NextToAct(h, p) = NextToAct(h, p)
BY DEF Atomic!NextToAct, NextToAct, Atomic!NeedsAction, NeedsAction,
       Atomic!CanAct, CanAct, Atomic!FirstAfter, FirstAfter, Atomic!Min, Min,
       Atomic!AtMostOne, AtMostOne, Atomic!NoSeat, NoSeat

LEMMA AtomicApplyAction ==
    ASSUME NEW h, NEW p, NEW action, NEW amount
    PROVE  Atomic!ApplyAction(h, p, action, amount) = ApplyAction(h, p, action, amount)
<1>1. Atomic!Committed(h, p, action, amount) = Committed(h, p, action, amount)
  BY AtomicChips, AtomicEffectiveAction
     DEF Atomic!Committed, Committed, Atomic!RaisedMinimum, RaisedMinimum
<1>2. ASSUME NEW k
      PROVE  Atomic!PassTurn(k, p) = PassTurn(k, p)
  BY AtomicNextToAct DEF Atomic!PassTurn, PassTurn, Atomic!NoSeat, NoSeat
<1> QED
  BY <1>1, <1>2 DEF Atomic!ApplyAction, ApplyAction

(* The row a bet is recorded with. *)
LEMMA BetRowTyped ==
    ASSUME NEW h \in HandState, NEW c \in Commands,
           ValidateBet(h, c.player, c.action, c.amount)
    PROVE  /\ Atomic!BetRow(h, c) \in [command: Commands, version: Nat, action: Actions,
                                       amount: Nat]
           /\ Atomic!BetRow(h, c).command = c
<1>1. c.player \in Seats /\ c.action \in Actions /\ c.amount \in Nat
  BY CommandsAssumption
<1>2. Chips(h, c.player, c.action, c.amount) \in Nat
  BY <1>1, ChipsBound
<1>3. EffectiveAction(h, c.player, c.action, c.amount) \in Actions
  BY <1>1 DEF EffectiveAction, Actions
<1> QED
  BY <1>2, <1>3, AtomicChips, AtomicEffectiveAction, HandColumns DEF Atomic!BetRow

-----------------------------------------------------------------------------
(* Commits                                                                 *)

(* What a committing bet finds: a validated command on a loaded hand. *)
LEMMA BetCommits ==
    ASSUME Inv, NEW r \in Requests, CommitBet(r)
    PROVE  \E c \in Commands, l \in HandState :
              /\ l = tx[r].loaded
              /\ Applies(c, l)
              /\ l.state_version = hand.state_version
              /\ Recorded(c) = {}
              /\ ApplyAction(l, c.player, c.action, c.amount) \in HandState
              /\ ApplyAction(l, c.player, c.action, c.amount).state_version
                   = hand.state_version + 1
              /\ hand' = FlushPlayers(hand, l, ApplyAction(l, c.player, c.action, c.amount))
              /\ bets' = bets \cup {Atomic!BetRow(l, c)}
              /\ tx' = [tx EXCEPT ![r] = Idle]
<1>1. PICK l : l = tx[r].loaded
  OBVIOUS
<1>2. l \in HandState
  BY <1>1 DEF Inv, CommitBet, Reading
<1>3. tx[r].command \in AnyCommand /\ tx[r].command.kind = "bet"
  BY DEF Inv, Transaction, CommitBet
<1>4. PICK c \in Commands : tx[r].command = BetCommand(c)
  BY <1>3 DEF AnyCommand, NoCommand
<1>5. c = tx[r].command.bet
  BY <1>4 DEF BetCommand
<1>6. /\ Applies(c, l)
      /\ l.state_version = hand.state_version
      /\ Recorded(c) = {}
      /\ hand' = FlushPlayers(hand, l, ApplyAction(l, c.player, c.action, c.amount))
      /\ bets' = bets \cup {Atomic!BetRow(l, c)}
      /\ tx' = [tx EXCEPT ![r] = Idle]
  BY <1>1, <1>5 DEF CommitBet, Moves
<1>7. c.player \in Seats /\ c.action \in Actions /\ c.amount \in Nat
  BY CommandsAssumption
<1>8. /\ ApplyAction(l, c.player, c.action, c.amount) \in HandState
      /\ ApplyAction(l, c.player, c.action, c.amount).state_version = l.state_version + 1
  BY <1>2, <1>6, <1>7, ApplyActionTyped DEF Applies
<1> QED
  BY <1>1, <1>2, <1>6, <1>8

(* After a commit the request is idle and the others have what they had. *)
LEMMA CommitMoves ==
    ASSUME Inv, NEW r \in Requests, tx' = [tx EXCEPT ![r] = Idle]
    PROVE  /\ tx' \in [Requests -> Transaction]
           /\ \A q \in Requests : tx'[q].at \in Reading => q # r /\ tx'[q] = tx[q]
<1>1. Idle \in Transaction /\ Idle.at \notin Reading
  BY DEF Idle, Transaction, At, AnyCommand, Reading
<1> QED
  BY <1>1 DEF Inv

LEMMA CommitBetInv ==
    ASSUME Inv, NEW r \in Requests, CommitBet(r)
    PROVE  Inv' /\ (BetInv => BetInv')
<1>1. PICK c \in Commands, l \in HandState :
              /\ l = tx[r].loaded
              /\ Applies(c, l)
              /\ l.state_version = hand.state_version
              /\ Recorded(c) = {}
              /\ ApplyAction(l, c.player, c.action, c.amount) \in HandState
              /\ ApplyAction(l, c.player, c.action, c.amount).state_version
                   = hand.state_version + 1
              /\ hand' = FlushPlayers(hand, l, ApplyAction(l, c.player, c.action, c.amount))
              /\ bets' = bets \cup {Atomic!BetRow(l, c)}
              /\ tx' = [tx EXCEPT ![r] = Idle]
  BY BetCommits
<1>2. hand \in HandState
  BY DEF Inv
<1>3. hand' \in HandState /\ hand'.state_version = hand.state_version + 1
  BY <1>1, <1>2, FlushPlayersTyped
<1>4. PICK b : b = Atomic!BetRow(l, c)
  OBVIOUS
<1>5. /\ b \in [command: Commands, version: Nat, action: Actions, amount: Nat]
      /\ b.command = c
  BY <1>1, <1>4, BetRowTyped DEF Applies
<1>6. /\ tx' \in [Requests -> Transaction]
      /\ \A q \in Requests : tx'[q].at \in Reading => q # r /\ tx'[q] = tx[q]
  BY <1>1, CommitMoves
<1>7. KeyAppliedOnce'
  <2> SUFFICES ASSUME NEW b1 \in bets', NEW b2 \in bets',
                      b1.command.key = b2.command.key, b1.command.key # Atomic!NoKey
               PROVE  b1 = b2
    BY DEF KeyAppliedOnce, Atomic!NoKey
  <2>1. \A a \in bets : a.command.key # c.key \/ c.key = Atomic!NoKey
    BY <1>1 DEF Recorded
  <2> QED
    BY <1>1, <1>4, <1>5, <2>1 DEF Inv, KeyAppliedOnce
<1>8. Inv'
  BY <1>1, <1>3, <1>4, <1>5, <1>6, <1>7 DEF Inv
<1>9. ASSUME BetInv  PROVE BetInv'
  <2> SUFFICES ASSUME NEW q \in Requests, tx'[q].at \in Reading
               PROVE  LoadedFresh(tx[q].loaded)'
    BY <1>8 DEF BetInv
  <2>1. PICK k : k = tx[q].loaded
    OBVIOUS
  <2>2. tx'[q] = tx[q] /\ tx[q].at \in Reading
    BY <1>6
  <2>3. k.state_version <= hand.state_version /\ k \in HandState
    BY <1>9, <2>1, <2>2 DEF BetInv, Inv, LoadedFresh
  <2>4. hand.state_version \in Nat /\ k.state_version \in Nat
    BY <1>2, <2>3, HandColumns
  <2>5. tx'[q].loaded = k
    BY <2>1, <2>2
  <2> QED
    BY <1>3, <2>3, <2>4, <2>5 DEF LoadedFresh
<1> QED
  BY <1>8, <1>9

(* Streets advanced and hands settled on rows read at different times are  *)
(* still well-formed rows, and record no bet.                              *)
LEMMA CommitOtherInv ==
    ASSUME Inv, NEW r \in Requests, CommitAdvance(r) \/ CommitResolve(r)
    PROVE  Inv'
<1>1. PICK l : l = tx[r].loaded
  OBVIOUS
<1>2. hand \in HandState /\ l \in HandState
  BY <1>1 DEF Inv, CommitAdvance, CommitResolve, Reading
<1>3. \E updated \in HandState : hand' = Flush(hand, l, updated)
  <2>1. CASE CommitAdvance(r)
    <3>1. PICK m : m = AdvancedHand(l)
      OBVIOUS
    <3>2. l.street # "SHOWDOWN"
      BY <1>1, <2>1 DEF CommitAdvance
    <3>3. m \in HandState
      BY <1>2, <3>1, <3>2, AdvancedHandSound
    <3> QED
      BY <1>1, <2>1, <3>1, <3>3 DEF CommitAdvance
  <2>2. CASE CommitResolve(r)
    <3>1. PICK payouts : payouts = tx[r].command.payouts
      OBVIOUS
    <3>2. payouts \in PayoutRequest
      BY <2>2, <3>1 DEF CommitResolve, PayoutsAccepted
    <3>3. PICK w : w = [s \in Seats |-> Winnings(payouts, s)]
      OBVIOUS
    <3>4. w \in [Seats -> Nat]
      BY <3>2, <3>3, SubmissionSums
    <3>5. PICK m : m = ResolvedHand(l, payouts)
      OBVIOUS
    <3>6. m \in HandState
      BY <1>2, <3>3, <3>4, <3>5, ResolvedHandSound
    <3> QED
      BY <1>1, <2>2, <3>1, <3>5, <3>6 DEF CommitResolve
  <2> QED
    BY <2>1, <2>2
<1>4. hand' \in HandState
  BY <1>2, <1>3, FlushTyped
<1>5. tx' = [tx EXCEPT ![r] = Idle] /\ bets' = bets
  BY DEF CommitAdvance, CommitResolve, Moves
<1>6. /\ tx' \in [Requests -> Transaction]
      /\ \A q \in Requests : tx'[q].at \in Reading => q # r /\ tx'[q] = tx[q]
  BY <1>5, CommitMoves
<1>7. KeyAppliedOnce'
  BY <1>5 DEF Inv, KeyAppliedOnce, Atomic!NoKey
<1> QED
  BY <1>4, <1>5, <1>6, <1>7 DEF Inv
-----------------------------------------------------------------------------
(* Theorems                                                                *)

LEMMA BetStepInv ==
    ASSUME Inv, NEW r \in Requests, BetStep(r)
    PROVE  Inv' /\ (BetInv => BetInv')
<1>1. CASE SubmitTableState(r)
  <2>1. [kind |-> "table_state"] \in AnyCommand
    BY DEF AnyCommand
  <2> QED
    BY <1>1, <2>1, SubmitOtherInv DEF SubmitTableState
<1> QED
  BY <1>1, SubmitBetInv, ReadRoundInv, ReadPlayersInv, CommitBetInv, FinishInv DEF BetStep

LEMMA OtherStepInv ==
    ASSUME Inv, NEW r \in Requests, OtherStep(r)
    PROVE  Inv'
<1>1. CASE SubmitOther(r, [kind |-> "advance"])
  <2>1. [kind |-> "advance"] \in AnyCommand
    BY DEF AnyCommand
  <2> QED
    BY <1>1, <2>1, SubmitOtherInv
<1>2. CASE \E payouts \in Settlements :
             SubmitOther(r, [kind |-> "resolve", payouts |-> payouts])
  <2>1. PICK payouts \in Settlements :
           SubmitOther(r, [kind |-> "resolve", payouts |-> payouts])
    BY <1>2
  <2>2. [kind |-> "resolve", payouts |-> payouts] \in AnyCommand
    BY DEF AnyCommand
  <2> QED
    BY <2>1, <2>2, SubmitOtherInv
<1> QED
  BY <1>1, <1>2, CommitOtherInv DEF OtherStep

LEMMA StutterInv ==
    ASSUME Inv, UNCHANGED vars
    PROVE  Inv' /\ (BetInv => BetInv')
<1>1. hand' = hand /\ bets' = bets /\ tx' = tx
  BY DEF vars
<1>2. KeyAppliedOnce'
  BY <1>1 DEF Inv, KeyAppliedOnce, Atomic!NoKey
<1> QED
  BY <1>1, <1>2 DEF Inv, BetInv, LoadedFresh

(* Bets, streets and settlements overlapping in any way on one round. *)
THEOREM RoundSafety == Spec => []Inv
<1>1. Init => Inv
  BY InitInv DEF BetInv
<1>2. Inv /\ [\E r \in Requests : BetStep(r) \/ OtherStep(r)]_vars => Inv'
  BY BetStepInv, OtherStepInv, StutterInv
<1> QED
  BY <1>1, <1>2, PTL DEF Spec

(* Whatever overlaps, the rounds requests load and write are well formed:  *)
(* no chip count of a round or a player becomes negative, even when round  *)
(* and players were read at different times and are written back over      *)
(* rows that have changed since.                                           *)
THEOREM RoundTypeCorrect == Spec => []TypeOK
<1>1. Inv => TypeOK
  BY DEF Inv, TypeOK, Transaction, Reading
<1> QED
  BY <1>1, RoundSafety, PTL

(* The lookup before the bet and the unique key at its commit together:    *)
(* place_bet records an idempotency key for one bet only, whatever is      *)
(* retried and whatever else changes the round.                            *)
THEOREM KeysAppliedOnce == Spec => []KeyAppliedOnce
BY RoundSafety, PTL DEF Inv

(* Players betting, while table states are read. *)
THEOREM BettingSafety == BetSpec => []BetInv
<1>1. Init => BetInv
  BY InitInv
<1>2. BetInv /\ [\E r \in Requests : BetStep(r)]_vars => BetInv'
  BY BetStepInv, StutterInv DEF BetInv
<1> QED
  BY <1>1, <1>2, PTL DEF BetSpec

(* get_table_state and place_bet read round and players in two statements; *)
(* while the version they show is the present one, so is every row.        *)
THEOREM TornRowsAreStale == BetSpec => []CurrentVersionMeansCurrentRows
<1>1. BetInv => CurrentVersionMeansCurrentRows
  BY DEF BetInv, CurrentVersionMeansCurrentRows, LoadedFresh, Reading
<1> QED
  BY <1>1, BettingSafety, PTL

(* A commit of place_bet is a bet of the atomic round: the version compared *)
(* by cas_update_round vouches for the players' rows as well, which it does *)
(* not compare.                                                             *)
LEMMA CommitIsAtomicBet ==
    ASSUME BetInv, NEW r \in Requests, CommitBet(r)
    PROVE  \E c \in Commands : Atomic!Bet(c)
<1>0. Inv /\ hand \in HandState
  BY DEF BetInv, Inv
<1>1. PICK c \in Commands, l \in HandState :
              /\ l = tx[r].loaded
              /\ Applies(c, l)
              /\ l.state_version = hand.state_version
              /\ Recorded(c) = {}
              /\ ApplyAction(l, c.player, c.action, c.amount) \in HandState
              /\ ApplyAction(l, c.player, c.action, c.amount).state_version
                   = hand.state_version + 1
              /\ hand' = FlushPlayers(hand, l, ApplyAction(l, c.player, c.action, c.amount))
              /\ bets' = bets \cup {Atomic!BetRow(l, c)}
              /\ tx' = [tx EXCEPT ![r] = Idle]
  BY <1>0, BetCommits
<1>2. l = hand
  BY <1>1 DEF BetInv, CommitBet, LoadedFresh, Reading
<1>3. hand' = ApplyAction(hand, c.player, c.action, c.amount)
  BY <1>0, <1>1, <1>2, FlushPlayersSame
<1>4. hand' = Atomic!ApplyAction(hand, c.player, c.action, c.amount)
  BY <1>3, AtomicApplyAction
<1>5. Atomic!ValidateBet(hand, c.player, c.action, c.amount)
  BY <1>1, <1>2, AtomicValidateBet DEF Applies
<1>6. c.expected_version \in {0, hand.state_version}
  BY <1>1, <1>2 DEF Applies
<1>7. c.key \notin Atomic!UsedKeys
  BY <1>1 DEF Recorded, Atomic!UsedKeys
<1> QED
  BY <1>1, <1>2, <1>4, <1>5, <1>6, <1>7 DEF Atomic!Bet

(* However bets, their retries and their reads overlap, place_bet applies  *)
(* them one after the other, each to the hand it was validated against:    *)
(* the transactions implement the atomic round.                            *)
THEOREM BetsApplyAtomically == BetSpec => BetsAreAtomic
<1>1. Init => bets = {}
  BY DEF Init
<1>2. BetInv /\ [\E r \in Requests : BetStep(r)]_vars
        => [\E c \in Commands : Atomic!Bet(c)]_<<hand, bets>>
  <2> SUFFICES ASSUME BetInv, NEW r \in Requests, BetStep(r)
               PROVE  (\E c \in Commands : Atomic!Bet(c)) \/ UNCHANGED <<hand, bets>>
    BY DEF vars
  <2>1. CASE CommitBet(r)
    BY <2>1, CommitIsAtomicBet
  <2>2. CASE ~CommitBet(r)
    BY <2>2 DEF BetStep, SubmitBet, SubmitTableState, SubmitOther, ReadRound, ReadPlayers,
                Finish
  <2> QED
    BY <2>1, <2>2
<1> QED
  BY <1>1, <1>2, BettingSafety, PTL DEF BetSpec, BetsAreAtomic, Atomic!Spec
==============================================================================
