CONSTANTS
    Players = {p1, p2}
    Names = {n1, n2}
    Games = {g1, g2}
    max_players = 2
    starting_chips = 1
SPECIFICATION Spec
SYMMETRY Symmetry
INVARIANTS GamesArePlayable GameClosesRoom
CHECK_DEADLOCK FALSE
