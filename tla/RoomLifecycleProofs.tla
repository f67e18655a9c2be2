------------------------- MODULE RoomLifecycleProofs -------------------------
(***************************************************************************)
(* For any number of players, seats and games: the games that start_game   *)
(* commits are playable, and their room is closed to changes by then.      *)
(*                                                                         *)
(* Both are promises of a request that runs over several transactions of   *)
(* two services, so the invariant says what the request knows after each   *)
(* call: the snapshot it carries holds two players able to play once it    *)
(* was fetched (RequestsSound), and the room is no longer WAITING once the *)
(* activation has been answered.  Nothing sets a room back to WAITING, and *)
(* that is what makes the second one survive everybody else's steps.       *)
(***************************************************************************)
EXTENDS RoomLifecycle, TLAPS

Fetched == {"fetched", "activating", "activated"}

RequestsSound ==
    \A g \in Games :
       /\ starting[g].at \in Fetched => Cardinality(Playing(starting[g].snapshot)) >= 2
       /\ starting[g].at = "activated" => room.status # "WAITING"

Playable(game) ==
    /\ Cardinality(Playing(game.snapshot)) >= 2
    /\ \A row1, row2 \in game.snapshot : row1.seat = row2.seat => row1 = row2

GamesSound ==
    \A g \in Games : games[g].status # "NONE" =>
       Playable(games[g]) /\ room.status # "WAITING"

(* A game id without a row has the status NONE. *)
NoneIsNoGame == \A g \in Games : games[g].status = "NONE" => games[g] = NoGame

Inv == TypeOK /\ RequestsSound /\ GamesSound /\ NoneIsNoGame

GameRow == [status: {"NONE", "ACTIVE", "PAUSED", "FINISHED"},
            snapshot: Snapshots, ended: BOOLEAN]
RequestRow == [at: {"none", "checked", "fetched", "activating", "activated"},
               snapshot: Snapshots]

-----------------------------------------------------------------------------

(* The room is open and nobody has asked for a game. *)
LEMMA InitInv == Init => Inv
  <1>. SUFFICES ASSUME Init PROVE Inv
    OBVIOUS
  <1>1. NoGame \in GameRow /\ NoRequest \in RequestRow
    BY DEF NoGame, NoRequest, GameRow, RequestRow, Snapshots
  <1>2. TypeOK
    BY <1>1 DEF Init, TypeOK, GameRow, RequestRow
  <1>3. \A g \in Games : starting[g].at = "none" /\ games[g] = NoGame
    BY DEF Init, NoRequest
  <1>4. NoGame.status = "NONE"
    BY DEF NoGame
  <1>. QED  BY <1>2, <1>3, <1>4 DEF Inv, RequestsSound, GamesSound, NoneIsNoGame, Fetched

(* Whatever leaves the requests and the games alone, and does not open the *)
(* room again, keeps what they know.                                       *)
LEMMA RoomStepKeeps ==
    ASSUME Inv, TypeOK', UNCHANGED <<games, starting>>,
           room.status # "WAITING" => room'.status # "WAITING"
    PROVE  Inv'
  BY DEF Inv, RequestsSound, GamesSound, NoneIsNoGame, Playable

(* A seated player has a row. *)
LEMMA SeatedRow ==
    ASSUME TypeOK, NEW p \in Seated
    PROVE  p \in Players /\ players[p] \in PlayerRow
  BY DEF TypeOK, Seated

(* room-service never opens a room again, and its rows keep their types. *)
LEMMA RoomStepInv == Inv /\ RoomStep => Inv'
  <1>. SUFFICES ASSUME Inv, RoomStep PROVE Inv'
    OBVIOUS
  <1>1. TypeOK /\ room \in [status: {"WAITING", "ACTIVE", "FINISHED", "DELETED"},
                            blinds: BOOLEAN]
    BY DEF Inv, TypeOK
  <1>2. ASSUME NEW p \in Players, NEW name \in Names, NEW seat, JoinRoom(p, name, seat)
        PROVE  Inv'
    <2>1. PICK row : row = [name |-> name, seat |-> seat, chips |-> starting_chips,
                            eliminated |-> FALSE]
      OBVIOUS
    <2>2. PICK no \in BOOLEAN : no = FALSE
      OBVIOUS
    <2>3. row \in PlayerRow
      BY <1>2, <2>1, <2>2, RoomAssumption DEF PlayerRow, JoinRoom
    <2>4. joining' = [joining EXCEPT ![p] = row] /\ UNCHANGED <<room, players, games, starting>>
      BY <1>2, <2>1 DEF JoinRoom
    <2>5. TypeOK'
      BY <1>1, <2>3, <2>4 DEF TypeOK
    <2>. QED  BY <2>4, <2>5, RoomStepKeeps
  <1>3. ASSUME NEW p \in Players, CommitJoin(p) PROVE Inv'
    <2>1. TypeOK'
      BY <1>1, <1>3 DEF CommitJoin, TypeOK
    <2>. QED  BY <1>3, <2>1, RoomStepKeeps DEF CommitJoin
  <1>4. ASSUME NEW p \in Players, EliminatePlayer(p) PROVE Inv'
    <2>1. players[p] \in PlayerRow
      BY <1>1, <1>4, SeatedRow DEF EliminatePlayer
    <2>2. PICK yes \in BOOLEAN : yes = TRUE
      OBVIOUS
    <2>3. PICK row : row = [players[p] EXCEPT !.chips = 0, !.eliminated = yes]
      OBVIOUS
    <2>4. row \in PlayerRow
      BY <2>1, <2>3 DEF PlayerRow
    <2>5. players' = [players EXCEPT ![p] = row] /\ UNCHANGED <<room, joining, games, starting>>
      BY <1>1, <1>4, <2>2, <2>3 DEF EliminatePlayer, TypeOK
    <2>6. TypeOK'
      BY <1>1, <2>4, <2>5 DEF TypeOK
    <2>. QED  BY <2>5, <2>6, RoomStepKeeps
  <1>5. ASSUME NEW assigned, NEW seats, ReorderSeats(assigned, seats) PROVE Inv'
    <2>1. /\ assigned \subseteq Seated /\ seats \in [assigned -> Seats]
          /\ players' = [p \in Players |-> IF p \in assigned
                                           THEN [players[p] EXCEPT !.seat = seats[p]]
                                           ELSE players[p]]
          /\ UNCHANGED <<room, joining, games, starting>>
      BY <1>5 DEF ReorderSeats
    <2>2. ASSUME NEW p \in assigned
          PROVE  [players[p] EXCEPT !.seat = seats[p]] \in PlayerRow
      <3>1. players[p] \in PlayerRow /\ seats[p] \in Seats
        BY <1>1, <2>1, SeatedRow
      <3>. QED  BY <3>1 DEF PlayerRow
    <2>3. players' \in [Players -> PlayerRow \cup {NoPlayer}]
      BY <1>1, <2>1, <2>2 DEF TypeOK
    <2>4. TypeOK'
      BY <1>1, <2>1, <2>3 DEF TypeOK
    <2>. QED  BY <2>1, <2>4, RoomStepKeeps
  <1>6. CASE SetBlindStructure
    <2>1. PICK yes \in BOOLEAN : yes = TRUE
      OBVIOUS
    <2>2. room' = [room EXCEPT !.blinds = yes] /\ UNCHANGED <<players, joining, games, starting>>
      BY <1>6, <2>1 DEF SetBlindStructure
    <2>3. room' \in [status: {"WAITING", "ACTIVE", "FINISHED", "DELETED"}, blinds: BOOLEAN]
          /\ room'.status = room.status
      BY <1>1, <2>2
    <2>4. TypeOK'
      BY <1>1, <2>2, <2>3 DEF TypeOK
    <2>. QED  BY <2>2, <2>3, <2>4, RoomStepKeeps
  <1>7. ASSUME NEW p \in Players, NEW chips \in {0, starting_chips},
               UpdatePlayerChips(p, chips)
        PROVE  Inv'
    <2>1. players[p] \in PlayerRow /\ chips \in Nat
      BY <1>1, <1>7, SeatedRow, RoomAssumption DEF UpdatePlayerChips
    <2>2. PICK row : row = [players[p] EXCEPT !.chips = chips]
      OBVIOUS
    <2>3. row \in PlayerRow
      BY <2>1, <2>2 DEF PlayerRow
    <2>4. players' = [players EXCEPT ![p] = row] /\ UNCHANGED <<room, joining, games, starting>>
      BY <1>7, <2>2 DEF UpdatePlayerChips
    <2>5. TypeOK'
      BY <1>1, <2>3, <2>4 DEF TypeOK
    <2>. QED  BY <2>4, <2>5, RoomStepKeeps
  <1>8. CASE DeleteRoom
    <2>1. PICK no \in BOOLEAN : no = FALSE
      OBVIOUS
    <2>2. /\ room' = [status |-> "DELETED", blinds |-> no]
          /\ players' = [p \in Players |-> NoPlayer]
          /\ UNCHANGED <<joining, games, starting>>
      BY <1>8, <2>1 DEF DeleteRoom
    <2>3. room' \in [status: {"WAITING", "ACTIVE", "FINISHED", "DELETED"}, blinds: BOOLEAN]
          /\ room'.status = "DELETED"
      BY <2>2
    <2>4. TypeOK'
      BY <1>1, <2>2, <2>3 DEF TypeOK
    <2>. QED  BY <2>2, <2>3, <2>4, RoomStepKeeps
  <1>. QED  BY <1>2, <1>3, <1>4, <1>5, <1>6, <1>7, <1>8 DEF RoomStep

-----------------------------------------------------------------------------
(* game-service                                                            *)

(* What is carried by a request has the columns of a snapshot. *)
LEMMA RowsTyped == TypeOK => RoomRows \in Snapshots
  <1>. SUFFICES ASSUME TypeOK, NEW p \in Seated
                PROVE  [player |-> p, seat |-> players[p].seat, chips |-> players[p].chips,
                        eliminated |-> players[p].eliminated]
                         \in [player: Players, seat: Seats, chips: Nat, eliminated: BOOLEAN]
    BY DEF RoomRows, Snapshots
  <1>1. p \in Players /\ players[p] \in PlayerRow
    BY SeatedRow
  <1>. QED  BY <1>1 DEF PlayerRow

(* A request moves on: it must know what its next point asks for. *)
LEMMA RequestInv ==
    ASSUME Inv, NEW g \in Games, NEW request \in RequestRow,
           starting' = [starting EXCEPT ![g] = request],
           UNCHANGED <<players, joining, games>>,
           room' \in [status: {"WAITING", "ACTIVE", "FINISHED", "DELETED"}, blinds: BOOLEAN],
           room.status # "WAITING" => room'.status # "WAITING",
           request.at \in Fetched => Cardinality(Playing(request.snapshot)) >= 2,
           request.at = "activated" => room'.status # "WAITING"
    PROVE  Inv'
  <1>1. TypeOK'
    BY DEF Inv, TypeOK, RequestRow
  <1>2. starting'[g] = request /\ \A h \in Games \ {g} : starting'[h] = starting[h]
    BY DEF Inv, TypeOK
  <1>3. RequestsSound'
    BY <1>2 DEF Inv, RequestsSound, Playing
  <1>4. GamesSound' /\ NoneIsNoGame'
    BY DEF Inv, GamesSound, NoneIsNoGame, Playable
  <1>. QED  BY <1>1, <1>3, <1>4 DEF Inv

(* A game is written: it must be playable, and the room closed. *)
LEMMA GameInv ==
    ASSUME Inv, NEW g \in Games, NEW game \in GameRow,
           games' = [games EXCEPT ![g] = game],
           starting' = starting \/ starting' = [starting EXCEPT ![g] = NoRequest],
           UNCHANGED <<players, joining>>,
           room' \in [status: {"WAITING", "ACTIVE", "FINISHED", "DELETED"}, blinds: BOOLEAN],
           room'.status # "WAITING",
           game.status # "NONE", Playable(game)
    PROVE  Inv'
  <1>1. NoRequest \in RequestRow /\ NoRequest.at = "none"
    BY DEF NoRequest, RequestRow, Snapshots
  <1>2. TypeOK'
    BY <1>1 DEF Inv, TypeOK, RequestRow, GameRow
  <1>3. games'[g] = game /\ \A h \in Games \ {g} : games'[h] = games[h]
    BY DEF Inv, TypeOK
  <1>4. \A h \in Games : starting'[h] = starting[h] \/ starting'[h].at = "none"
    BY <1>1 DEF Inv, TypeOK
  <1>5. RequestsSound'
    BY <1>4 DEF Inv, RequestsSound, Playing, Fetched
  <1>6. GamesSound' /\ NoneIsNoGame'
    BY <1>3 DEF Inv, GamesSound, NoneIsNoGame, Playable, Playing
  <1>. QED  BY <1>2, <1>5, <1>6 DEF Inv

(* A game that exists changes its status: its snapshot stays, so that it   *)
(* stays playable.                                                         *)
LEMMA StatusInv ==
    ASSUME Inv, NEW g \in Games, games[g].status # "NONE",
           NEW game \in GameRow, game.status # "NONE", game.snapshot = games[g].snapshot,
           games' = [games EXCEPT ![g] = game],
           UNCHANGED <<players, joining, starting>>,
           room' \in [status: {"WAITING", "ACTIVE", "FINISHED", "DELETED"}, blinds: BOOLEAN],
           room.status # "WAITING" => room'.status # "WAITING"
    PROVE  Inv'
  <1>1. room.status # "WAITING" /\ Playable(games[g])
    BY DEF Inv, GamesSound
  <1>2. Playable(game)
    BY <1>1 DEF Playable
  <1>. QED  BY <1>1, <1>2, GameInv

(* pause_table, resume_table and the last hand change the status of a game *)
(* that exists.                                                            *)
LEMMA SetStatusInv ==
    ASSUME Inv, NEW g \in Games, NEW from \in {"ACTIVE", "PAUSED"},
           NEW to \in {"ACTIVE", "PAUSED", "FINISHED"}, SetStatus(g, from, to)
    PROVE  Inv'
  <1>1. games[g] \in GameRow /\ games[g].status # "NONE"
    BY DEF Inv, TypeOK, GameRow, SetStatus
  <1>2. PICK game : game = [games[g] EXCEPT !.status = to]
    OBVIOUS
  <1>3. game \in GameRow /\ game.status # "NONE" /\ game.snapshot = games[g].snapshot
    BY <1>1, <1>2 DEF GameRow
  <1>4. games' = [games EXCEPT ![g] = game]
    BY <1>2 DEF SetStatus
  <1>5. /\ UNCHANGED <<players, joining, starting, room>>
        /\ room \in [status: {"WAITING", "ACTIVE", "FINISHED", "DELETED"}, blinds: BOOLEAN]
    BY DEF SetStatus, Inv, TypeOK
  <1>. QED  BY <1>1, <1>3, <1>4, <1>5, StatusInv

(* start_game and end_game, call by call. *)
LEMMA GameStepInv ==
    ASSUME Inv, NEW g \in Games, GameStep(g)
    PROVE  Inv'
  <1>1. TypeOK /\ starting[g] \in RequestRow /\ starting[g].snapshot \in Snapshots
        /\ room \in [status: {"WAITING", "ACTIVE", "FINISHED", "DELETED"}, blinds: BOOLEAN]
    BY DEF Inv, TypeOK, RequestRow
  <1>2. CASE StartGame(g)
    <2>1. PICK request : request = [at |-> "checked", snapshot |-> {}]
      OBVIOUS
    <2>2. request \in RequestRow /\ request.at \notin Fetched
      BY <2>1 DEF RequestRow, Snapshots, Fetched
    <2>3. starting' = [starting EXCEPT ![g] = request] /\ UNCHANGED <<room, players, joining, games>>
      BY <1>2, <2>1 DEF StartGame, Request
    <2>. QED  BY <1>1, <2>2, <2>3, RequestInv DEF Fetched
  <1>3. CASE FetchRoomConfig(g)
    <2>1. PICK request : request = [at |-> "fetched", snapshot |-> RoomRows]
      OBVIOUS
    <2>2. request \in RequestRow /\ request.at = "fetched" /\ request.snapshot = RoomRows
      BY <1>1, <2>1, RowsTyped DEF RequestRow
    <2>3. /\ starting' = [starting EXCEPT ![g] = request]
          /\ UNCHANGED <<room, players, joining, games>>
          /\ Cardinality(Playing(request.snapshot)) >= 2
      BY <1>3, <2>1, <2>2 DEF FetchRoomConfig, Request
    <2>. QED  BY <1>1, <2>2, <2>3, RequestInv
  <1>4. ASSUME NEW at \in {"activating", "activated"}, starting[g].at \in Fetched,
               Request(g, at, starting[g].snapshot), UNCHANGED <<players, joining, games>>,
               room' \in [status: {"WAITING", "ACTIVE", "FINISHED", "DELETED"}, blinds: BOOLEAN],
               room.status # "WAITING" => room'.status # "WAITING",
               at = "activated" => room'.status # "WAITING"
        PROVE  Inv'
    <2>1. PICK request : request = [at |-> at, snapshot |-> starting[g].snapshot]
      OBVIOUS
    <2>2. request \in RequestRow /\ request.at = at /\ request.snapshot = starting[g].snapshot
      BY <1>1, <2>1 DEF RequestRow
    <2>3. Cardinality(Playing(request.snapshot)) >= 2
      BY <1>4, <2>2 DEF Inv, RequestsSound
    <2>4. starting' = [starting EXCEPT ![g] = request]
      BY <1>4, <2>1 DEF Request
    <2>. QED  BY <1>4, <2>2, <2>3, <2>4, RequestInv
  <1>5. CASE MarkRoomActive(g)
    <2>1. starting[g].at \in Fetched /\ UNCHANGED <<room, players, joining, games>>
      BY <1>5 DEF MarkRoomActive, Fetched
    <2>2. CASE room.status = "WAITING" /\ Request(g, "activating", starting[g].snapshot)
      BY <1>1, <1>4, <2>1, <2>2
    <2>3. CASE room.status = "ACTIVE" /\ Request(g, "activated", starting[g].snapshot)
      BY <1>1, <1>4, <2>1, <2>3
    <2>. QED  BY <1>5, <2>2, <2>3 DEF MarkRoomActive
  <1>6. CASE CommitActivation(g)
    <2>1. /\ starting[g].at \in Fetched /\ UNCHANGED <<players, joining, games>>
          /\ Request(g, "activated", starting[g].snapshot)
          /\ room' = [room EXCEPT !.status = "ACTIVE"]
      BY <1>6 DEF CommitActivation, Fetched
    <2>2. /\ room' \in [status: {"WAITING", "ACTIVE", "FINISHED", "DELETED"}, blinds: BOOLEAN]
          /\ room'.status = "ACTIVE"
      BY <1>1, <2>1
    <2>. QED  BY <1>4, <2>1, <2>2
  <1>7. CASE CommitGame(g)
    <2>1. PICK no \in BOOLEAN : no = FALSE
      OBVIOUS
    <2>2. PICK game : game = [status |-> "ACTIVE", ended |-> no, snapshot |-> starting[g].snapshot]
      OBVIOUS
    <2>3. game \in GameRow /\ game.status = "ACTIVE" /\ game.snapshot = starting[g].snapshot
      BY <1>1, <2>2 DEF GameRow
    <2>4. /\ games' = [games EXCEPT ![g] = game]
          /\ starting' = [starting EXCEPT ![g] = NoRequest]
          /\ UNCHANGED <<room, players, joining>>
          /\ starting[g].at = "activated"
      BY <1>7, <2>1, <2>2 DEF CommitGame
    <2>5. Cardinality(Playing(game.snapshot)) >= 2 /\ room.status # "WAITING"
      BY <2>3, <2>4 DEF Inv, RequestsSound, Fetched
    <2>6. \A row1, row2 \in game.snapshot : row1.seat = row2.seat => row1 = row2
      BY <1>7, <2>3 DEF CommitGame
    <2>. QED  BY <1>1, <2>3, <2>4, <2>5, <2>6, GameInv DEF Playable
  <1>8. CASE AbandonStart(g)
    <2>1. NoRequest \in RequestRow /\ NoRequest.at = "none"
      BY DEF NoRequest, RequestRow, Snapshots
    <2>2. /\ starting' = [starting EXCEPT ![g] = NoRequest]
          /\ UNCHANGED <<room, players, joining, games>>
      BY <1>8 DEF AbandonStart
    <2>. QED  BY <1>1, <2>1, <2>2, RequestInv DEF Fetched
  <1>9. CASE PauseTable(g) \/ ResumeTable(g) \/ LastHandResolved(g)
    BY <1>9, SetStatusInv DEF PauseTable, ResumeTable, LastHandResolved
  <1>10. ASSUME Finishes
         PROVE  /\ room' \in [status: {"WAITING", "ACTIVE", "FINISHED", "DELETED"},
                              blinds: BOOLEAN]
                /\ room'.status = "FINISHED"
    BY <1>1, <1>10 DEF Finishes
  <1>11. CASE EndGame(g)
    <2>1. games[g] \in GameRow /\ games[g].status # "NONE"
      BY <1>1, <1>11 DEF TypeOK, GameRow, EndGame, Inv, NoneIsNoGame
    <2>2. PICK yes \in BOOLEAN : yes = TRUE
      OBVIOUS
    <2>3. PICK game : game = [games[g] EXCEPT !.status = "FINISHED", !.ended = yes]
      OBVIOUS
    <2>4. game \in GameRow /\ game.status # "NONE" /\ game.snapshot = games[g].snapshot
      BY <2>1, <2>3 DEF GameRow
    <2>5. games' = [games EXCEPT ![g] = game]
      BY <1>1, <1>11, <2>2, <2>3 DEF EndGame, TypeOK
    <2>6. UNCHANGED <<players, joining, starting>> /\ Finishes
      BY <1>11 DEF EndGame
    <2>. QED  BY <1>10, <2>1, <2>4, <2>5, <2>6, StatusInv
  <1>12. CASE EndGameLost(g)
    <2>1. UNCHANGED <<players, joining, games, starting>> /\ Finishes
      BY <1>12 DEF EndGameLost
    <2>2. TypeOK'
      BY <1>1, <1>10, <2>1 DEF TypeOK
    <2>. QED  BY <1>10, <2>1, <2>2, RoomStepKeeps
  <1>. QED  BY <1>2, <1>3, <1>5, <1>6, <1>7, <1>8, <1>9, <1>11, <1>12 DEF GameStep

-----------------------------------------------------------------------------
(* The theorems                                                            *)

(* The inductive invariant of the room and the requests of its games. *)
THEOREM RoomSafety == Spec => []Inv
  <1>1. Inv /\ [Next]_vars => Inv'
    <2>1. SUFFICES ASSUME Inv, [Next]_vars PROVE Inv'
      OBVIOUS
    <2>2. CASE UNCHANGED vars
      BY <2>1, <2>2 DEF vars, Inv, TypeOK, RequestsSound, GamesSound, NoneIsNoGame,
                        Playable, Playing
    <2>. QED  BY <2>1, <2>2, RoomStepInv, GameStepInv DEF Next
  <1>. QED  BY <1>1, InitInv, PTL DEF Spec

(* start_game commits what it fetched before it activated the room, while  *)
(* players joined, changed seats or lost their chips in between: the game  *)
(* has two players with chips all the same, and one to a seat.             *)
THEOREM StartedGamesArePlayable == Spec => []GamesArePlayable
  <1>1. Inv => GamesArePlayable
    BY DEF Inv, NoneIsNoGame, GamesSound, Playable, GamesArePlayable
  <1>. QED  BY <1>1, RoomSafety, PTL

(* mark_room_active_http precedes the commit of start_game, and no request *)
(* to room-service opens the room again: once a game exists its room is    *)
(* closed to new blinds and other seats, for good.                         *)
THEOREM StartedGamesCloseRoom == Spec => []GameClosesRoom
  <1>1. Inv => GameClosesRoom
    BY DEF Inv, NoneIsNoGame, GamesSound, GameClosesRoom
  <1>. QED  BY <1>1, RoomSafety, PTL
=============================================================================
