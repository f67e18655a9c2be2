-------------------------- MODULE GameTransactions ---------------------------
(***************************************************************************)
(* Requests on one game of game-service that overlap.  No command locks    *)
(* the games row or checks a version of it: a request reads rows one       *)
(* statement after the other, each seeing what is committed by then (READ  *)
(* COMMITTED), decides on what it has read, and in the end writes the      *)
(* columns it changed, with the values it computed from its own reads.     *)
(* Chips and positions are left out: which settlement leaves one player    *)
(* with chips, and when the time of a blind level is over, are choices.    *)
(***************************************************************************)
EXTENDS Integers, FiniteSets, Sequences

CONSTANTS
    Requests,       \* requests in flight
    MaxLevel,       \* blind levels are numbered 1..MaxLevel
    MaxRounds       \* bound on the rounds of the game

ASSUME OverlapAssumption == MaxLevel \in Nat \ {0} /\ MaxRounds \in Nat

VARIABLES
    game,       \* the games row
    rounds,     \* the rows of `rounds`, as inserted
    tx          \* per request: the command, its round, the reads made so far

vars == <<game, rounds, tx>>

GameRow == [status: {"ACTIVE", "PAUSED", "FINISHED"}, hands_played: Nat,
            hands_at_current_level: Nat, current_blind_level: Nat]

(* recorded: the ledger of the round has a ROUND_COMPLETED entry. *)
RoundRow == [number: Nat, status: {"ACTIVE", "COMPLETED"}, recorded: BOOLEAN]

InStatus(status) == {i \in DOMAIN rounds : rounds[i].status = status}
Recorded == {i \in DOMAIN rounds : rounds[i].recorded}

-----------------------------------------------------------------------------
(* The reads of every command, in the order of its statements *)

(* Mutant: whether the hand was counted is read before the game. *)
ReadsEntryFirst(kind) ==
    CASE kind = "start_round"  -> <<"game", "active", "count">>
      [] kind = "resolve_hand" -> <<"round", "entry", "game">>
      [] kind = "record_hand_completed" -> <<"game", "completed">>
      [] kind = "reopen_hand"  -> <<"round">>
      [] OTHER                 -> <<"game">>

Reads(kind) ==
    CASE kind = "start_round"  -> <<"game", "active", "count">>
      [] kind = "resolve_hand" -> <<"round", "game", "entry">>
      [] kind = "record_hand_completed" -> <<"game", "completed">>
      [] kind = "reopen_hand"  -> <<"round">>
      [] OTHER                 -> <<"game">>

GameKinds == {"start_round", "record_hand_completed", "advance_blinds", "end_game",
              "pause_table", "resume_table"}
RoundKinds == {"resolve_hand", "reopen_hand"}
Kinds == GameKinds \cup RoundKinds

NewGame == [status |-> "ACTIVE", hands_played |-> 0, hands_at_current_level |-> 0,
            current_blind_level |-> 1]

NoRound == 0

(* No request; what it will read is yet unknown. *)
Idle == [kind |-> "none", round |-> NoRound, reads |-> 0, game |-> NewGame,
         round_status |-> "ACTIVE", active |-> FALSE, count |-> 0,
         completed |-> 0, entry |-> FALSE]

Init ==
    /\ game = NewGame
    /\ rounds = <<>>
    /\ tx = [r \in Requests |-> Idle]

Moves(r, record) == tx' = [tx EXCEPT ![r] = record]

Submit(r, kind, round) ==
    /\ tx[r].kind = "none"
    /\ Moves(r, [Idle EXCEPT !.kind = kind, !.round = round])
    /\ UNCHANGED <<game, rounds>>

(* What the next statement of the request sees. *)
Seen(t, what) ==
    CASE what = "game"      -> [t EXCEPT !.game = game]
      [] what = "round"     -> [t EXCEPT !.round_status = rounds[t.round].status]
      [] what = "active"    -> [t EXCEPT !.active = (InStatus("ACTIVE") # {})]
      [] what = "count"     -> [t EXCEPT !.count = Len(rounds)]
      [] what = "completed" -> [t EXCEPT !.completed = Cardinality(InStatus("COMPLETED"))]
      [] what = "entry"     -> [t EXCEPT !.entry = rounds[t.round].recorded]

Read(r) ==
    /\ tx[r].kind # "none"
    /\ tx[r].reads < Len(Reads(tx[r].kind))
    /\ Moves(r, [Seen(tx[r], Reads(tx[r].kind)[tx[r].reads + 1])
                   EXCEPT !.reads = tx[r].reads + 1])
    /\ UNCHANGED <<game, rounds>>

(* The request has read everything its command reads. *)
Ready(r, kind) == tx[r].kind = kind /\ tx[r].reads = Len(Reads(kind))

-----------------------------------------------------------------------------
(* The writes *)

(* Mutant: the columns are incremented where they stand. *)
FlushIncrement(loaded, updated) ==
    [updated EXCEPT
       !.hands_played = game.hands_played + (@ - loaded.hands_played),
       !.hands_at_current_level =
           game.hands_at_current_level + (@ - loaded.hands_at_current_level),
       !.current_blind_level =
           game.current_blind_level + (@ - loaded.current_blind_level)]

(* A flush writes the columns that differ from what the session loaded. *)
Flush(loaded, updated) ==
    [c \in DOMAIN game |-> IF updated[c] # loaded[c] THEN updated[c] ELSE game[c]]

(* apply_hand_completion *)
HandCounted(g, timeIsUp) ==
    LET advance == timeIsUp /\ g.current_blind_level < MaxLevel
    IN  [g EXCEPT
           !.hands_played = @ + 1,
           !.hands_at_current_level = IF advance THEN 0 ELSE @ + 1,
           !.current_blind_level = IF advance THEN @ + 1 ELSE @]

(* Mutant: there is no unique key on (game_id, round_number). *)
NumberFreeAlways(number) == TRUE

(* uq_rounds_game_round_number; a violation rolls the request back. *)
NumberFree(number) == \A i \in DOMAIN rounds : rounds[i].number # number

CommitStart(r) ==
    /\ Ready(r, "start_round")
    /\ tx[r].game.status = "ACTIVE"
    /\ ~tx[r].active
    /\ NumberFree(tx[r].count + 1)
    /\ Len(rounds) < MaxRounds
    /\ rounds' = Append(rounds, [number |-> tx[r].count + 1, status |-> "ACTIVE",
                                 recorded |-> FALSE])
    /\ Moves(r, Idle)
    /\ UNCHANGED game

(* The hand is settled and, unless an entry says so already, counted.  The *)
(* settlement may leave a single player with chips.                        *)
CommitResolve(r) ==
    /\ Ready(r, "resolve_hand")
    /\ tx[r].round_status = "ACTIVE"
    /\ rounds' = [rounds EXCEPT ![tx[r].round] =
                    [@ EXCEPT !.status = "COMPLETED", !.recorded = TRUE]]
    /\ \E timeIsUp, isLast \in BOOLEAN :
          LET counted == IF tx[r].entry THEN tx[r].game
                         ELSE HandCounted(tx[r].game, timeIsUp)
              updated == IF isLast THEN [counted EXCEPT !.status = "FINISHED"]
                         ELSE counted
          IN  game' = Flush(tx[r].game, updated)
    /\ Moves(r, Idle)

CommitRecord(r) ==
    /\ Ready(r, "record_hand_completed")
    /\ tx[r].game.hands_played < tx[r].completed
    /\ \E timeIsUp \in BOOLEAN :
          game' = Flush(tx[r].game, HandCounted(tx[r].game, timeIsUp))
    /\ Moves(r, Idle)
    /\ UNCHANGED rounds

CommitAdvanceBlinds(r) ==
    /\ Ready(r, "advance_blinds")
    /\ tx[r].game.status = "ACTIVE"
    /\ tx[r].game.current_blind_level < MaxLevel
    /\ game' = Flush(tx[r].game, [tx[r].game EXCEPT !.current_blind_level = @ + 1])
    /\ Moves(r, Idle)
    /\ UNCHANGED rounds

(* end_game, pause_table and resume_table: the status required of the      *)
(* loaded game, and the one written.                                       *)
CommitStatus(r, kind, required, status) ==
    /\ Ready(r, kind)
    /\ tx[r].game.status \in required
    /\ game' = Flush(tx[r].game, [tx[r].game EXCEPT !.status = status])
    /\ Moves(r, Idle)
    /\ UNCHANGED rounds

CommitReopen(r) ==
    /\ Ready(r, "reopen_hand")
    /\ tx[r].round_status = "COMPLETED"
    /\ rounds' = [rounds EXCEPT ![tx[r].round].status = "ACTIVE"]
    /\ Moves(r, Idle)
    /\ UNCHANGED game

(* A request that is refused, fails or finds nothing to write. *)
Leave(r) ==
    /\ tx[r].kind # "none"
    /\ tx[r].reads > 0
    /\ Moves(r, Idle)
    /\ UNCHANGED <<game, rounds>>

Step(r) ==
    \/ \E kind \in GameKinds : Submit(r, kind, NoRound)
    \/ \E kind \in RoundKinds, i \in DOMAIN rounds : Submit(r, kind, i)
    \/ Read(r)
    \/ CommitStart(r)
    \/ CommitResolve(r)
    \/ CommitRecord(r)
    \/ CommitAdvanceBlinds(r)
    \/ CommitStatus(r, "end_game", {"ACTIVE", "PAUSED", "FINISHED"}, "FINISHED")
    \/ CommitStatus(r, "pause_table", {"ACTIVE"}, "PAUSED")
    \/ CommitStatus(r, "resume_table", {"PAUSED"}, "ACTIVE")
    \/ CommitReopen(r)
    \/ Leave(r)

Next == \E r \in Requests : Step(r)

Spec == Init /\ [][Next]_vars

-----------------------------------------------------------------------------
(* Properties *)

Transaction ==
    [kind: Kinds \cup {"none"}, round: Nat, reads: Nat, game: GameRow,
     round_status: {"ACTIVE", "COMPLETED"}, active: BOOLEAN, count: Nat,
     completed: Nat, entry: BOOLEAN]

TypeOK ==
    /\ game \in GameRow
    /\ rounds \in Seq(RoundRow)
    /\ tx \in [Requests -> Transaction]
    /\ \A r \in Requests : tx[r].kind \in RoundKinds => tx[r].round \in DOMAIN rounds

(* start_round numbers a round with a count it took earlier.  However      *)
(* starts overlap, the rounds of a game are numbered without a gap and     *)
(* without a repetition, in the order they were started.                   *)
RoundsNumbered == \A i \in DOMAIN rounds : rounds[i].number = i

(* resolve_hand and record_hand_completed write hands_played from what     *)
(* they loaded, and the same hand may be settled by two requests at once,  *)
(* reopened and settled again: the game never counts more hands than it    *)
(* has rounds that were completed.                                         *)
HandsNeverOvercounted == game.hands_played <= Cardinality(Recorded)

(* However clicks on "advance blinds" overlap with each other and with     *)
(* settlements that advance the clock, the game never leaves the           *)
(* configured blind levels.                                                *)
LevelConfigured == game.current_blind_level \in 1..MaxLevel
==============================================================================
