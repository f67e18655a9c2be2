---------------------------- MODULE RoomLifecycle ----------------------------
(***************************************************************************)
(* One room of room-service and the games game-service plays in it.        *)
(*                                                                         *)
(* The two services have a database each.  start_game reads the room and   *)
(* activates it by HTTP calls inside its own transaction, end_game         *)
(* finishes it the same way, so that either may be done and the other      *)
(* rolled back.  Joining and activating look at the room first and write   *)
(* later; the table of players has no unique key on seats or names.        *)
(***************************************************************************)
EXTENDS Integers, FiniteSets, FiniteSetsExt

CONSTANTS
    Players,        \* player ids handed out to those who join
    Names,          \* the names they may choose
    Games,          \* game ids handed out to requests that start a game
    max_players, starting_chips     \* columns of the room

ASSUME RoomAssumption ==
    max_players \in Nat \ {0, 1} /\ starting_chips \in Nat \ {0}

VARIABLES
    room,           \* status, and whether a blind structure is set
    players,        \* room_players, NoPlayer for an id without a row
    joining,        \* per player id: what a request is about to insert
    games,          \* per game id: status, and the snapshot it was started from
    starting        \* per game id: how far the request that starts it is

vars == <<room, players, joining, games, starting>>

Seats == 1..max_players
NoPlayer == [seat |-> 0]
PlayerRow == [name: Names, seat: Seats, chips: Nat, eliminated: BOOLEAN]
NoGame == [status |-> "NONE", snapshot |-> {}, ended |-> FALSE]
NoRequest == [at |-> "none", snapshot |-> {}]

Seated == {p \in Players : players[p] # NoPlayer}

Init ==
    /\ room = [status |-> "WAITING", blinds |-> FALSE]
    /\ players = [p \in Players |-> NoPlayer]
    /\ joining = [p \in Players |-> NoPlayer]
    /\ games = [g \in Games |-> NoGame]
    /\ starting = [g \in Games |-> NoRequest]

-----------------------------------------------------------------------------
(* room-service                                                            *)

(* get_next_seat_number *)
NextSeat == Max({0} \cup {players[p].seat : p \in Seated}) + 1

SeatTaken(seat) == \E p \in Seated : players[p].seat = seat
NameTaken(name) == \E p \in Seated : players[p].name = name

(* The checks of join_room_by_code, for a requested seat or the next one.  *)
JoinRoom(p, name, seat) ==
    /\ room.status = "WAITING"
    /\ players[p] = NoPlayer /\ joining[p] = NoPlayer
    /\ Cardinality(Seated) < max_players
    /\ ~NameTaken(name)
    /\ seat \in Seats /\ ~SeatTaken(seat)
    /\ joining' = [joining EXCEPT ![p] =
                     [name |-> name, seat |-> seat, chips |-> starting_chips,
                      eliminated |-> FALSE]]
    /\ UNCHANGED <<room, players, games, starting>>

(* Its insert.  Nothing is checked again. *)
CommitJoin(p) ==
    /\ joining[p] # NoPlayer
    /\ players' = [players EXCEPT ![p] = joining[p]]
    /\ joining' = [joining EXCEPT ![p] = NoPlayer]
    /\ UNCHANGED <<room, games, starting>>

(* reorder_seats: distinct players get distinct seats; the players not     *)
(* mentioned keep theirs.                                                  *)
ReorderSeats(assigned, seats) ==
    /\ room.status = "WAITING"
    /\ assigned # {} /\ assigned \subseteq Seated
    /\ seats \in [assigned -> Seats]
    /\ \A p, q \in assigned : seats[p] = seats[q] => p = q
    /\ players' = [p \in Players |-> IF p \in assigned
                                     THEN [players[p] EXCEPT !.seat = seats[p]]
                                     ELSE players[p]]
    /\ UNCHANGED <<room, joining, games, starting>>

SetBlindStructure ==
    /\ room.status = "WAITING"
    /\ room' = [room EXCEPT !.blinds = TRUE]
    /\ UNCHANGED <<players, joining, games, starting>>

UpdatePlayerChips(p, chips) ==
    /\ p \in Seated
    /\ players' = [players EXCEPT ![p].chips = chips]
    /\ UNCHANGED <<room, joining, games, starting>>

EliminatePlayer(p) ==
    /\ p \in Seated
    /\ players' = [players EXCEPT ![p].chips = 0, ![p].eliminated = TRUE]
    /\ UNCHANGED <<room, joining, games, starting>>

DeleteRoom ==
    /\ room.status # "DELETED"
    /\ room' = [status |-> "DELETED", blinds |-> FALSE]
    /\ players' = [p \in Players |-> NoPlayer]
    /\ UNCHANGED <<joining, games, starting>>

(* finish_room succeeds again when it is repeated. *)
Finishes ==
    /\ room.status \in {"ACTIVE", "FINISHED"}
    /\ room' = [room EXCEPT !.status = "FINISHED"]

-----------------------------------------------------------------------------
(* game-service                                                            *)

(* room_config.active_seats counts players that hold chips and are not     *)
(* eliminated.                                                             *)
Playing(snapshot) == {row \in snapshot : row.chips > 0 /\ ~row.eliminated}

Request(g, at, snapshot) ==
    starting' = [starting EXCEPT ![g] = [at |-> at, snapshot |-> snapshot]]

(* start_game: no game of the room is ACTIVE. *)
StartGame(g) ==
    /\ games[g] = NoGame /\ starting[g] = NoRequest
    /\ \A other \in Games : games[other].status # "ACTIVE"
    /\ Request(g, "checked", {})
    /\ UNCHANGED <<room, players, joining, games>>

RoomRows ==
    {[player |-> p, seat |-> players[p].seat, chips |-> players[p].chips,
      eliminated |-> players[p].eliminated] : p \in Seated}

(* Mutant: the number of players able to play is not checked. *)
FetchRoomConfigAnyNumber(g) ==
    /\ starting[g].at = "checked"
    /\ room.blinds
    /\ Request(g, "fetched", RoomRows)
    /\ UNCHANGED <<room, players, joining, games>>

(* fetch_room_config_http, and what start_game requires of the answer. *)
FetchRoomConfig(g) ==
    /\ starting[g].at = "checked"
    /\ room.blinds
    /\ Cardinality(Playing(RoomRows)) >= 2
    /\ Request(g, "fetched", RoomRows)
    /\ UNCHANGED <<room, players, joining, games>>

(* Mutant: the room is told after the transaction has been committed. *)
MarkRoomActiveLater(g) ==
    /\ starting[g].at = "fetched"
    /\ Request(g, "activated", starting[g].snapshot)
    /\ UNCHANGED <<room, players, joining, games>>

(* activate_room loads the room: it is WAITING, or ACTIVE already and      *)
(* nothing is left to do.                                                  *)
MarkRoomActive(g) ==
    /\ starting[g].at = "fetched"
    /\ \/ room.status = "WAITING" /\ Request(g, "activating", starting[g].snapshot)
       \/ room.status = "ACTIVE" /\ Request(g, "activated", starting[g].snapshot)
    /\ UNCHANGED <<room, players, joining, games>>

(* Its commit.  The status is not compared with the one loaded. *)
CommitActivation(g) ==
    /\ starting[g].at = "activating"
    /\ room.status # "DELETED"
    /\ room' = [room EXCEPT !.status = "ACTIVE"]
    /\ Request(g, "activated", starting[g].snapshot)
    /\ UNCHANGED <<players, joining, games>>

(* The rows are written at the end of the transaction: the unique key of   *)
(* room_snapshot_players is checked when the room is active already.       *)
CommitGame(g) ==
    /\ starting[g].at = "activated"
    /\ \A row1, row2 \in starting[g].snapshot : row1.seat = row2.seat => row1 = row2
    /\ games' = [games EXCEPT ![g] = [status |-> "ACTIVE", ended |-> FALSE,
                                      snapshot |-> starting[g].snapshot]]
    /\ starting' = [starting EXCEPT ![g] = NoRequest]
    /\ UNCHANGED <<room, players, joining>>

(* A refused, failed or interrupted start: rolled back here, not in        *)
(* room-service.                                                           *)
AbandonStart(g) ==
    /\ starting[g] # NoRequest
    /\ starting' = [starting EXCEPT ![g] = NoRequest]
    /\ UNCHANGED <<room, players, joining, games>>

SetStatus(g, from, to) ==
    /\ games[g].status = from
    /\ games' = [games EXCEPT ![g].status = to]
    /\ UNCHANGED <<room, players, joining, starting>>

PauseTable(g) == SetStatus(g, "ACTIVE", "PAUSED")
ResumeTable(g) == SetStatus(g, "PAUSED", "ACTIVE")

(* resolve_hand finishes the game when one player holds all chips. *)
LastHandResolved(g) ==
    \E from \in {"ACTIVE", "PAUSED"} : SetStatus(g, from, "FINISHED")

(* end_game, whatever the status: the room first, then the commit. *)
EndGame(g) ==
    /\ games[g] # NoGame
    /\ Finishes
    /\ games' = [games EXCEPT ![g].status = "FINISHED", ![g].ended = TRUE]
    /\ UNCHANGED <<players, joining, starting>>

(* end_game cut off in between. *)
EndGameLost(g) ==
    /\ games[g] # NoGame
    /\ Finishes
    /\ UNCHANGED <<players, joining, games, starting>>

RoomStep ==
    \/ \E p \in Players, name \in Names, seat \in Seats \cup {NextSeat} :
          JoinRoom(p, name, seat)
    \/ \E p \in Players : CommitJoin(p) \/ EliminatePlayer(p)
    \/ \E assigned \in SUBSET Seated :
          \E seats \in [assigned -> Seats] : ReorderSeats(assigned, seats)
    \/ SetBlindStructure
    \/ \E p \in Players, chips \in {0, starting_chips} : UpdatePlayerChips(p, chips)
    \/ DeleteRoom

GameStep(g) ==
    \/ StartGame(g) \/ FetchRoomConfig(g) \/ MarkRoomActive(g)
    \/ CommitActivation(g) \/ CommitGame(g) \/ AbandonStart(g)
    \/ PauseTable(g) \/ ResumeTable(g) \/ LastHandResolved(g)
    \/ EndGame(g) \/ EndGameLost(g)

Next == RoomStep \/ \E g \in Games : GameStep(g)

Spec == Init /\ [][Next]_vars

-----------------------------------------------------------------------------
(* Properties                                                              *)

Snapshots == SUBSET [player: Players, seat: Seats, chips: Nat, eliminated: BOOLEAN]

TypeOK ==
    /\ room \in [status: {"WAITING", "ACTIVE", "FINISHED", "DELETED"}, blinds: BOOLEAN]
    /\ players \in [Players -> PlayerRow \cup {NoPlayer}]
    /\ joining \in [Players -> PlayerRow \cup {NoPlayer}]
    /\ games \in [Games -> [status: {"NONE", "ACTIVE", "PAUSED", "FINISHED"},
                            snapshot: Snapshots, ended: BOOLEAN]]
    /\ starting \in [Games -> [at: {"none", "checked", "fetched", "activating", "activated"},
                               snapshot: Snapshots]]

(* What the engine assumes of a game: two players who hold chips, and one  *)
(* player to a seat, whatever joins, reorderings and retries happened in   *)
(* the room before and during the start.                                   *)
GamesArePlayable ==
    \A g \in Games : games[g] # NoGame =>
       /\ Cardinality(Playing(games[g].snapshot)) >= 2
       /\ \A row1, row2 \in games[g].snapshot : row1.seat = row2.seat => row1 = row2

(* A game exists only in a room that is closed to reordering and new       *)
(* blinds: the call that closes it precedes the commit, on every path.     *)
GameClosesRoom == (\E g \in Games : games[g] # NoGame) => room.status # "WAITING"
=============================================================================
