-------------------------- MODULE RoundTransactions --------------------------
(***************************************************************************)
(* Concurrent requests on one round.  Every request has a database session *)
(* of its own under READ COMMITTED: it looks up its idempotency key, reads *)
(* the round, then the players, computes on what it read and writes in one *)
(* transaction.  Only place_bet compares state_version when it writes;     *)
(* advance_street and resolve_hand flush the columns they changed.         *)
(***************************************************************************)
EXTENDS SidePots

CONSTANTS
    Requests,       \* requests in flight
    Commands,       \* the bets clients may submit
    Settlements,    \* the payouts clients may submit
    FirstHands,     \* the hands requests may find
    MaxVersion      \* bound on state_version

ASSUME CommandsAssumption ==
    Commands \subseteq
       [player: Seats, action: Actions, amount: Nat, key: STRING, expected_version: Nat]

ASSUME HandsAssumption == FirstHands \subseteq HandState /\ MaxVersion \in Nat

VARIABLES
    hand,       \* the round and its players, as committed
    bets,       \* the rows of `bets`
    tx          \* per request: how far it is, its command, what it has loaded

Atomic == INSTANCE AtomicRound WITH Commands <- Commands, hand <- hand, bets <- bets

vars == <<hand, bets, tx>>

NoCommand == [kind |-> "none"]
BetCommand(c) == [kind |-> "bet", bet |-> c]

(* The columns of round_players of h2 under the round columns of h1. *)
WithPlayers(h1, h2) ==
    [h1 EXCEPT
       !.stack_remaining = h2.stack_remaining,
       !.committed_this_street = h2.committed_this_street,
       !.committed_this_hand = h2.committed_this_hand,
       !.has_folded = h2.has_folded,
       !.is_all_in = h2.is_all_in,
       !.is_active_in_hand = h2.is_active_in_hand]

(* A flush writes only the columns the session changed: from the loaded    *)
(* value to the updated one, over whatever is committed by now.            *)
Dirty(db, loaded, updated) == IF updated # loaded THEN updated ELSE db

(* Mutant: the change is written as an increment. *)
DirtyRowsIncrement(db, loaded, updated) ==
    [s \in Seats |-> db[s] + (updated[s] - loaded[s])]

DirtyRows(db, loaded, updated) ==
    [s \in Seats |-> Dirty(db[s], loaded[s], updated[s])]

DirtyFlags(db, loaded, updated) ==
    {s \in Seats : Dirty(s \in db, s \in loaded, s \in updated)}

(* The round columns of updated, the players flushed. *)
FlushPlayers(db, loaded, updated) ==
    [updated EXCEPT
       !.stack_remaining = DirtyRows(db.stack_remaining, loaded.stack_remaining, @),
       !.committed_this_street =
           DirtyRows(db.committed_this_street, loaded.committed_this_street, @),
       !.committed_this_hand =
           DirtyRows(db.committed_this_hand, loaded.committed_this_hand, @),
       !.has_folded = DirtyFlags(db.has_folded, loaded.has_folded, @),
       !.is_all_in = DirtyFlags(db.is_all_in, loaded.is_all_in, @),
       !.is_active_in_hand = DirtyFlags(db.is_active_in_hand, loaded.is_active_in_hand, @)]

Flush(db, loaded, updated) ==
    WithPlayers([c \in DOMAIN updated |-> Dirty(db[c], loaded[c], updated[c])],
                FlushPlayers(db, loaded, updated))

Idle == [at |-> "idle", command |-> NoCommand, loaded |-> <<>>]

Init ==
    /\ hand \in FirstHands
    /\ bets = {}
    /\ tx = [r \in Requests |-> Idle]

Moves(r, record) == tx' = [tx EXCEPT ![r] = record]

-----------------------------------------------------------------------------
(* A bet whose key is recorded is answered from the record, or refused     *)
(* because the recorded action and amount are not the submitted ones.      *)
Recorded(c) == {b \in bets : c.key # Atomic!NoKey /\ b.command.key = c.key}

SamePayload(b, c) ==
    b.command.player = c.player /\ b.action = c.action /\ b.amount = c.amount

SubmitBet(r, c) ==
    /\ tx[r].at = "idle"
    /\ Moves(r, [Idle EXCEPT
         !.command = BetCommand(c),
         !.at = CASE Recorded(c) = {} -> "looked_up"
                  [] \E b \in Recorded(c) : ~SamePayload(b, c) -> "conflict"
                  [] OTHER -> "replayed"])
    /\ UNCHANGED <<hand, bets>>

SubmitOther(r, command) ==
    /\ tx[r].at = "idle"
    /\ Moves(r, [Idle EXCEPT !.command = command, !.at = "looked_up"])
    /\ UNCHANGED <<hand, bets>>

ReadRound(r) ==
    /\ tx[r].at = "looked_up"
    /\ Moves(r, [tx[r] EXCEPT !.at = "read_round", !.loaded = hand])
    /\ UNCHANGED <<hand, bets>>

(* Mutant: the players are read before the round. *)
ReadPlayersFirst(r) ==
    /\ tx[r].at = "read_round"
    /\ Moves(r, [tx[r] EXCEPT !.at = "read_players",
                              !.loaded = WithPlayers(hand, @)])
    /\ UNCHANGED <<hand, bets>>

ReadPlayers(r) ==
    /\ tx[r].at = "read_round"
    /\ Moves(r, [tx[r] EXCEPT !.at = "read_players",
                              !.loaded = WithPlayers(@, hand)])
    /\ UNCHANGED <<hand, bets>>

(* apply_action accepts the command on what was loaded. *)
Applies(c, loaded) ==
    /\ c.expected_version \in {0, loaded.state_version}
    /\ ValidateBet(loaded, c.player, c.action, c.amount)

(* Mutant: the unique key on (round_id, idempotency_key) is missing. *)
CommitBetNoUniqueKey(r) ==
    LET c       == tx[r].command.bet
        loaded  == tx[r].loaded
        updated == ApplyAction(loaded, c.player, c.action, c.amount)
    IN  /\ tx[r].at = "read_players"
        /\ tx[r].command.kind = "bet"
        /\ Applies(c, loaded)
        /\ hand.state_version = loaded.state_version
        /\ hand.state_version < MaxVersion
        /\ hand' = FlushPlayers(hand, loaded, updated)
        /\ bets' = bets \cup {Atomic!BetRow(loaded, c)}
        /\ Moves(r, Idle)

(* cas_update_round writes every betting column of the round, provided the *)
(* version is still the loaded one; the players are flushed with it.  A    *)
(* key recorded meanwhile violates the unique key and rolls back.          *)
CommitBet(r) ==
    LET c       == tx[r].command.bet
        loaded  == tx[r].loaded
        updated == ApplyAction(loaded, c.player, c.action, c.amount)
    IN  /\ tx[r].at = "read_players"
        /\ tx[r].command.kind = "bet"
        /\ Applies(c, loaded)
        /\ hand.state_version = loaded.state_version
        /\ Recorded(c) = {}
        /\ hand.state_version < MaxVersion
        /\ hand' = FlushPlayers(hand, loaded, updated)
        /\ bets' = bets \cup {Atomic!BetRow(loaded, c)}
        /\ Moves(r, Idle)

CommitAdvance(r) ==
    LET loaded == tx[r].loaded
    IN  /\ tx[r].at = "read_players"
        /\ tx[r].command.kind = "advance"
        /\ loaded.status = "ACTIVE" /\ loaded.street # "SHOWDOWN"
        /\ loaded.state_version < MaxVersion
        /\ hand' = Flush(hand, loaded, AdvancedHand(loaded))
        /\ Moves(r, Idle)
        /\ UNCHANGED bets

CommitResolve(r) ==
    LET loaded  == tx[r].loaded
        payouts == tx[r].command.payouts
    IN  /\ tx[r].at = "read_players"
        /\ tx[r].command.kind = "resolve"
        /\ PayoutsAccepted(loaded, payouts)
        /\ hand' = Flush(hand, loaded, ResolvedHand(loaded, payouts))
        /\ Moves(r, Idle)
        /\ UNCHANGED bets

(* A request that is answered, refused, stale or rolled back; the client   *)
(* may submit the same command again.                                      *)
Finish(r) ==
    /\ tx[r].at \in {"conflict", "replayed", "read_players"}
    /\ Moves(r, Idle)
    /\ UNCHANGED <<hand, bets>>

(* get_table_state reads as the commands do; the rows it has loaded are    *)
(* its answer.                                                             *)
SubmitTableState(r) == SubmitOther(r, [kind |-> "table_state"])

BetStep(r) ==
    \/ \E c \in Commands : SubmitBet(r, c)
    \/ SubmitTableState(r)
    \/ ReadRound(r)
    \/ ReadPlayers(r)
    \/ CommitBet(r)
    \/ Finish(r)

OtherStep(r) ==
    \/ SubmitOther(r, [kind |-> "advance"])
    \/ \E payouts \in Settlements :
          SubmitOther(r, [kind |-> "resolve", payouts |-> payouts])
    \/ CommitAdvance(r)
    \/ CommitResolve(r)

(* Players betting. *)
BetSpec == Init /\ [][\E r \in Requests : BetStep(r)]_vars

(* Players betting while the dealer advances streets and settles. *)
Spec == Init /\ [][\E r \in Requests : BetStep(r) \/ OtherStep(r)]_vars

-----------------------------------------------------------------------------
(* Properties                                                              *)

At == {"idle", "looked_up", "conflict", "replayed", "read_round", "read_players"}

(* Sessions load well-formed rounds, also when round and players are read  *)
(* at different times.                                                     *)
TypeOK ==
    /\ hand \in HandState
    /\ bets \subseteq [command: Commands, version: Nat, action: Actions, amount: Nat]
    /\ \A r \in Requests :
          /\ tx[r].at \in At
          /\ tx[r].at \in {"read_round", "read_players"} => tx[r].loaded \in HandState

(* However bets, their retries and their reads overlap, place_bet applies  *)
(* them one after the other: none is lost or applied to a state it was not *)
(* validated against, no idempotency key is applied twice and an           *)
(* expected_version is honoured.                                           *)
BetsAreAtomic == Atomic!Spec

(* get_table_state and place_bet load the round and its players in two     *)
(* statements, between which a bet may be committed.  Among players        *)
(* betting, rows that were torn apart are recognisably stale: while the    *)
(* version shown is the present one, everything shown with it is present,  *)
(* so a bet that expects the version shown is applied to the table shown.  *)
CurrentVersionMeansCurrentRows ==
    \A r \in Requests :
       (tx[r].at = "read_players" /\ tx[r].loaded.state_version = hand.state_version)
          => tx[r].loaded = hand

(* Even when streets advance and hands are settled between a bet and its   *)
(* retry, an idempotency key is recorded for one bet only.                 *)
KeyAppliedOnce ==
    \A b1, b2 \in bets :
       b1.command.key = b2.command.key /\ b1.command.key # Atomic!NoKey => b1 = b2
=============================================================================
