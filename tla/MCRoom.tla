------------------------------- MODULE MCRoom --------------------------------
(* Small instances of RoomLifecycle, and what the repository says of rooms *)
(* that the code does not do.                                              *)
EXTENDS RoomLifecycle, TLC

(* Player ids, names and game ids are only compared with one another. *)
Symmetry == Permutations(Players) \cup Permutations(Names) \cup Permutations(Games)

(* README: "Requested seats and reordered seats must be within room        *)
(* capacity and unique."                                                   *)
SeatsUnique ==
    \A p, q \in Seated : players[p].seat = players[q].seat => p = q

(* README: "Duplicate player names in the same room are rejected." *)
NamesUnique ==
    \A p, q \in Seated : players[p].name = players[q].name => p = q

(* constants.py: start_game refuses with "An active game already exists    *)
(* for this room".                                                         *)
OneActiveGame ==
    \A g1, g2 \in Games :
       games[g1].status = "ACTIVE" /\ games[g2].status = "ACTIVE" => g1 = g2

(* constants.py: activate_room refuses with "Room is not in WAITING        *)
(* status".  Once end_game has answered, the room stays finished.          *)
EndedRoomStaysFinished ==
    (\E g \in Games : games[g].ended) => room.status \in {"FINISHED", "DELETED"}
=============================================================================
