------------------------------- MODULE MCGame -------------------------------
(* Small instances of Game for TLC. *)
EXTENDS ScenarioRunner

CONSTANT MaxChips       \* largest stack a player brings

MCLevels == 1 :> [small_blind |-> 1, big_blind |-> 2, ante |-> 0]
         @@ 2 :> [small_blind |-> 2, big_blind |-> 3, ante |-> 1]

MCInitialChips ==
    {c \in [Seats -> 0..MaxChips] : Cardinality({s \in Seats : c[s] > 0}) >= 2}

(* Any list of whole pots, as long as there are pots: in any order, with   *)
(* pots left out or named twice, each awarded to any seat.                 *)
MCSubmissions(h) ==
    LET pots == IF h.status = "ACTIVE" THEN CalculateSidePots(h) ELSE <<>>
        Award(i, winner) ==
          [pot_index |-> i - 1, amount |-> pots[i].amount,
           won |-> [s \in Seats |-> IF s = winner THEN pots[i].amount ELSE 0]]
    IN  UNION {{[k \in DOMAIN indices |-> Award(indices[k], winners[k])] :
                  winners \in [DOMAIN indices -> Seats]} :
               indices \in SeqOf(DOMAIN pots, Len(pots))}
=============================================================================
