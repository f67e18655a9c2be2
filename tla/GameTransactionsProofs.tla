----------------------- MODULE GameTransactionsProofs ------------------------
(***************************************************************************)
(* What overlapping requests on a game never break, for any number of      *)
(* requests, blind levels and rounds.                                      *)
(***************************************************************************)
EXTENDS GameTransactions, FiniteSetTheorems, SequenceTheorems, TLAPS

(* What a request t has read can be outdated but was true once: n rounds   *)
(* have been started by now and those in S were completed.  A settlement   *)
(* that found its round not counted yet loaded the game before that round  *)
(* was counted.                                                            *)
RequestSound(t, n, S) ==
    /\ t \in Transaction
    /\ t.kind \in RoundKinds => t.round \in 1..n
    /\ t.count <= n
    /\ t.game.current_blind_level \in 1..MaxLevel
    /\ t.game.hands_played <= Cardinality(S)
    /\ t.completed <= Cardinality(S)
    /\ (t.kind = "resolve_hand" /\ t.reads = 3 /\ ~t.entry) =>
          t.game.hands_played <= Cardinality(S \ {t.round})

(* A completed round has its ROUND_COMPLETED entry. *)
CompletedIsRecorded ==
    \A i \in DOMAIN rounds : rounds[i].status = "COMPLETED" => rounds[i].recorded

(* The inductive invariant: the properties, and that every request is      *)
(* sound.                                                                  *)
Inv ==
    /\ game \in GameRow
    /\ rounds \in Seq(RoundRow)
    /\ tx \in [Requests -> Transaction]
    /\ \A r \in Requests : RequestSound(tx[r], Len(rounds), Recorded)
    /\ CompletedIsRecorded
    /\ RoundsNumbered
    /\ HandsNeverOvercounted
    /\ LevelConfigured

-----------------------------------------------------------------------------
(* Reading                                                                 *)

(* The rounds and those among them that were completed. *)
LEMMA RecordedFinite ==
    ASSUME rounds \in Seq(RoundRow)
    PROVE  /\ IsFiniteSet(Recorded) /\ Cardinality(Recorded) \in Nat
           /\ Recorded \subseteq 1..Len(rounds)
           /\ Len(rounds) \in Nat /\ DOMAIN rounds = 1..Len(rounds)
<1>1. Len(rounds) \in Nat /\ DOMAIN rounds = 1..Len(rounds)
  OBVIOUS
<1>2. Recorded \subseteq 1..Len(rounds)
  BY <1>1 DEF Recorded
<1>3. IsFiniteSet(1..Len(rounds))
  BY <1>1, FS_Interval
<1>4. IsFiniteSet(Recorded)
  BY <1>2, <1>3, FS_Subset
<1> QED
  BY <1>1, <1>2, <1>4, FS_CardinalityType

(* What was read stays sound while rounds are started and completed. *)
LEMMA SoundMonotonic ==
    ASSUME NEW n \in Nat, NEW m \in Nat, n <= m, NEW S, NEW T, S \subseteq T,
           IsFiniteSet(T), NEW t, RequestSound(t, n, S)
    PROVE  RequestSound(t, m, T)
<1>1. IsFiniteSet(S) /\ Cardinality(S) <= Cardinality(T)
  BY FS_Subset
<1>2. /\ IsFiniteSet(T \ {t.round}) /\ S \ {t.round} \subseteq T \ {t.round}
      /\ IsFiniteSet(S \ {t.round})
  BY <1>1, FS_Subset
<1>3. Cardinality(S \ {t.round}) <= Cardinality(T \ {t.round})
  BY <1>2, FS_Subset
<1>4. /\ Cardinality(S) \in Nat /\ Cardinality(T) \in Nat
      /\ Cardinality(S \ {t.round}) \in Nat /\ Cardinality(T \ {t.round}) \in Nat
  BY <1>1, <1>2, FS_CardinalityType
<1>5. /\ t.game.hands_played \in Nat /\ t.completed \in Nat /\ t.count \in Nat
      /\ t.round \in Nat
  BY DEF RequestSound, Transaction, GameRow
<1> QED
  BY <1>1, <1>3, <1>4, <1>5 DEF RequestSound

(* Which statements a command makes. *)
LEMMA ReadsOfCommands ==
    ASSUME NEW kind \in Kinds, NEW i \in Nat, i < Len(Reads(kind))
    PROVE  /\ Reads(kind)[i + 1]
                \in {"game", "round", "active", "count", "completed", "entry"}
           /\ Reads(kind)[i + 1] \in {"round", "entry"} => kind \in RoundKinds
           /\ (kind = "resolve_hand" /\ i = 2) => Reads(kind)[i + 1] = "entry"
<1>1. CASE kind = "start_round"
  <2>1. Reads(kind) = <<"game", "active", "count">>
    BY <1>1 DEF Reads
  <2> QED
    BY <1>1, <2>1
<1>2. CASE kind = "resolve_hand"
  <2>1. Reads(kind) = <<"round", "game", "entry">>
    BY <1>2 DEF Reads
  <2> QED
    BY <1>2, <2>1 DEF RoundKinds
<1>3. CASE kind = "record_hand_completed"
  <2>1. Reads(kind) = <<"game", "completed">>
    BY <1>3 DEF Reads
  <2> QED
    BY <1>3, <2>1
<1>4. CASE kind = "reopen_hand"
  <2>1. Reads(kind) = <<"round">>
    BY <1>4 DEF Reads
  <2> QED
    BY <1>4, <2>1 DEF RoundKinds
<1>5. CASE kind \in {"advance_blinds", "end_game", "pause_table", "resume_table"}
  <2>1. Reads(kind) = <<"game">>
    BY <1>5 DEF Reads
  <2> QED
    BY <1>5, <2>1
<1> QED
  BY <1>1, <1>2, <1>3, <1>4, <1>5 DEF Kinds, GameKinds, RoundKinds

(* Every completed round was recorded. *)
LEMMA CompletedBound ==
    ASSUME rounds \in Seq(RoundRow), CompletedIsRecorded
    PROVE  /\ Cardinality(InStatus("COMPLETED")) \in Nat
           /\ Cardinality(InStatus("COMPLETED")) <= Cardinality(Recorded)
<1>1. InStatus("COMPLETED") \subseteq Recorded
  BY DEF InStatus, Recorded, CompletedIsRecorded
<1> QED
  BY <1>1, RecordedFinite, FS_Subset, FS_CardinalityType

(* A statement leaves the request sound. *)
LEMMA ReadSound ==
    ASSUME Inv, NEW r \in Requests, Read(r)
    PROVE  RequestSound(tx'[r], Len(rounds), Recorded)
<1>1. PICK t, n, S : t = tx[r] /\ n = Len(rounds) /\ S = Recorded
  OBVIOUS
<1>2. /\ RequestSound(t, n, S) /\ t \in Transaction /\ tx \in [Requests -> Transaction]
      /\ rounds \in Seq(RoundRow) /\ game \in GameRow
  BY <1>1 DEF Inv
<1>3. t.kind \in Kinds /\ t.reads \in Nat /\ t.reads < Len(Reads(t.kind))
  BY <1>1, <1>2 DEF Read, Transaction
<1>4. PICK what : what = Reads(t.kind)[t.reads + 1]
  OBVIOUS
<1>5. /\ what \in {"game", "round", "active", "count", "completed", "entry"}
      /\ what \in {"round", "entry"} => t.kind \in RoundKinds
      /\ (t.kind = "resolve_hand" /\ t.reads = 2) => what = "entry"
  BY <1>3, <1>4, ReadsOfCommands
<1>k. PICK k \in Nat : k = t.reads + 1
  BY <1>3
<1>6. tx'[r] = [Seen(t, what) EXCEPT !.reads = k]
  BY <1>1, <1>2, <1>4, <1>k DEF Read, Moves
<1>7. /\ IsFiniteSet(S) /\ Cardinality(S) \in Nat /\ n \in Nat
      /\ DOMAIN rounds = 1..n
  BY <1>1, <1>2, RecordedFinite
<1>8. PICK m : m = tx'[r]
  OBVIOUS
<1>9. CASE what = "game"
  <2>1. game.current_blind_level \in 1..MaxLevel /\ game.hands_played <= Cardinality(S)
    BY <1>1 DEF Inv, LevelConfigured, HandsNeverOvercounted
  <2>6. m = [t EXCEPT !.game = game, !.reads = k]
    BY <1>2, <1>6, <1>8, <1>9 DEF Seen, Transaction
  <2>7. m \in Transaction
    BY <1>2, <2>6 DEF Transaction
  <2>c. /\ m.kind = t.kind /\ m.round = t.round /\ m.reads = k
        /\ m.game = game /\ m.round_status = t.round_status /\ m.active = t.active
        /\ m.count = t.count /\ m.completed = t.completed /\ m.entry = t.entry
    BY <1>2, <2>6, Zenon DEF Transaction
  <2>8. ~(m.kind = "resolve_hand" /\ m.reads = 3)
    BY <1>3, <1>5, <1>9, <1>k, <2>c
  <2> QED
    BY <1>1, <1>2, <1>7, <1>8, <2>7, <2>c, <2>8, <2>1 DEF RequestSound
<1>10. CASE what = "round"
  <2>1. PICK s : s = rounds[t.round].status
    OBVIOUS
  <2>2. s \in {"ACTIVE", "COMPLETED"}
    <3>1. t.round \in DOMAIN rounds
      BY <1>2, <1>5, <1>7, <1>10 DEF RequestSound
    <3>2. rounds[t.round] \in RoundRow
      BY <1>2, <3>1
    <3> QED
      BY <2>1, <3>2 DEF RoundRow
  <2>6. m = [t EXCEPT !.round_status = s, !.reads = k]
    BY <1>2, <1>6, <1>8, <1>10, <2>1, <2>2 DEF Seen, Transaction
  <2>7. m \in Transaction
    BY <1>2, <2>6, <2>1, <2>2 DEF Transaction
  <2>c. /\ m.kind = t.kind /\ m.round = t.round /\ m.reads = k
        /\ m.game = t.game /\ m.round_status = s /\ m.active = t.active
        /\ m.count = t.count /\ m.completed = t.completed /\ m.entry = t.entry
    BY <1>2, <2>6, <2>1, <2>2, Zenon DEF Transaction
  <2>8. ~(m.kind = "resolve_hand" /\ m.reads = 3)
    BY <1>3, <1>5, <1>10, <1>k, <2>c
  <2> QED
    BY <1>1, <1>2, <1>7, <1>8, <2>7, <2>c, <2>8 DEF RequestSound
<1>11. CASE what = "active"
  <2>1. PICK a \in BOOLEAN : a = (InStatus("ACTIVE") # {})
    OBVIOUS
  <2>6. m = [t EXCEPT !.active = a, !.reads = k]
    BY <1>2, <1>6, <1>8, <1>11, <2>1 DEF Seen, Transaction
  <2>7. m \in Transaction
    BY <1>2, <2>6, <2>1 DEF Transaction
  <2>c. /\ m.kind = t.kind /\ m.round = t.round /\ m.reads = k
        /\ m.game = t.game /\ m.round_status = t.round_status /\ m.active = a
        /\ m.count = t.count /\ m.completed = t.completed /\ m.entry = t.entry
    BY <1>2, <2>6, <2>1, Zenon DEF Transaction
  <2>8. ~(m.kind = "resolve_hand" /\ m.reads = 3)
    BY <1>3, <1>5, <1>11, <1>k, <2>c
  <2> QED
    BY <1>1, <1>2, <1>7, <1>8, <2>7, <2>c, <2>8 DEF RequestSound
<1>12. CASE what = "count"
  <2>1. n = Len(rounds)
    BY <1>1
  <2>6. m = [t EXCEPT !.count = n, !.reads = k]
    BY <1>2, <1>6, <1>8, <1>12, <1>7, <2>1 DEF Seen, Transaction
  <2>7. m \in Transaction
    BY <1>2, <2>6, <1>7, <2>1 DEF Transaction
  <2>c. /\ m.kind = t.kind /\ m.round = t.round /\ m.reads = k
        /\ m.game = t.game /\ m.round_status = t.round_status /\ m.active = t.active
        /\ m.count = n /\ m.completed = t.completed /\ m.entry = t.entry
    BY <1>2, <2>6, <1>7, <2>1, Zenon DEF Transaction
  <2>8. ~(m.kind = "resolve_hand" /\ m.reads = 3)
    BY <1>3, <1>5, <1>12, <1>k, <2>c
  <2> QED
    BY <1>1, <1>2, <1>7, <1>8, <2>7, <2>c, <2>8 DEF RequestSound
<1>13. CASE what = "completed"
  <2>1. PICK c : c = Cardinality(InStatus("COMPLETED"))
    OBVIOUS
  <2>2. c \in Nat /\ c <= Cardinality(S)
    BY <1>1, <2>1, CompletedBound DEF Inv
  <2>6. m = [t EXCEPT !.completed = c, !.reads = k]
    BY <1>2, <1>6, <1>8, <1>13, <2>1, <2>2 DEF Seen, Transaction
  <2>7. m \in Transaction
    BY <1>2, <2>6, <2>1, <2>2 DEF Transaction
  <2>c. /\ m.kind = t.kind /\ m.round = t.round /\ m.reads = k
        /\ m.game = t.game /\ m.round_status = t.round_status /\ m.active = t.active
        /\ m.count = t.count /\ m.completed = c /\ m.entry = t.entry
    BY <1>2, <2>6, <2>1, <2>2, Zenon DEF Transaction
  <2>8. ~(m.kind = "resolve_hand" /\ m.reads = 3)
    BY <1>3, <1>5, <1>13, <1>k, <2>c
  <2> QED
    BY <1>1, <1>2, <1>7, <1>8, <2>7, <2>c, <2>8, <2>2 DEF RequestSound
<1>14. CASE what = "entry"
  <2>1. PICK e : e = rounds[t.round].recorded
    OBVIOUS
  <2>2. t.round \in DOMAIN rounds
    BY <1>2, <1>5, <1>7, <1>14 DEF RequestSound
  <2>3. rounds[t.round] \in RoundRow
    BY <1>2, <2>2
  <2>4. e \in BOOLEAN
    BY <2>1, <2>3 DEF RoundRow
  <2>5. ~e => S \ {t.round} = S
    BY <1>1, <2>1 DEF Recorded
  <2>6. m = [t EXCEPT !.entry = e, !.reads = k]
    BY <1>2, <1>6, <1>8, <1>14, <2>1, <2>4 DEF Seen, Transaction
  <2>7. m \in Transaction
    BY <1>2, <2>6, <2>1, <2>4 DEF Transaction
  <2>c. /\ m.kind = t.kind /\ m.round = t.round /\ m.reads = k
        /\ m.game = t.game /\ m.round_status = t.round_status /\ m.active = t.active
        /\ m.count = t.count /\ m.completed = t.completed /\ m.entry = e
    BY <1>2, <2>6, <2>1, <2>4, Zenon DEF Transaction
  <2> QED
    BY <1>1, <1>2, <1>7, <1>8, <2>5, <2>7, <2>c DEF RequestSound
<1> QED
  BY <1>5, <1>9, <1>10, <1>11, <1>12, <1>13, <1>14

(* A request that has read nothing is sound. *)
LEMMA IdleSound ==
    ASSUME NEW n \in Nat, NEW S, IsFiniteSet(S)  PROVE RequestSound(Idle, n, S)
<1>1. Cardinality(S) \in Nat
  BY FS_CardinalityType
<1>2. NewGame \in GameRow /\ NewGame.hands_played = 0 /\ NewGame.current_blind_level = 1
  BY DEF NewGame, GameRow
<1>3. Idle \in Transaction
  BY <1>2 DEF Idle, Transaction, NoRound
<1>4. /\ Idle.kind = "none" /\ Idle.count = 0 /\ Idle.completed = 0
      /\ Idle.game = NewGame
  BY DEF Idle
<1>5. 1 \in 1..MaxLevel
  BY OverlapAssumption
<1> QED
  BY <1>1, <1>2, <1>3, <1>4, <1>5 DEF RequestSound, RoundKinds

(* Submitting a request leaves everything sound. *)
LEMMA SubmitSound ==
    ASSUME Inv, NEW r \in Requests, NEW kind \in Kinds, NEW i \in Nat,
           kind \in RoundKinds => i \in DOMAIN rounds, Submit(r, kind, i)
    PROVE  RequestSound(tx'[r], Len(rounds), Recorded)
<1>1. /\ rounds \in Seq(RoundRow) /\ tx \in [Requests -> Transaction]
  BY DEF Inv
<1>2. PICK n, S : n = Len(rounds) /\ S = Recorded
  OBVIOUS
<1>3. n \in Nat /\ IsFiniteSet(S) /\ DOMAIN rounds = 1..n
  BY <1>1, <1>2, RecordedFinite
<1>4. RequestSound(Idle, n, S) /\ Idle \in Transaction
  BY <1>3, IdleSound DEF RequestSound
<1>5. PICK m : m = [Idle EXCEPT !.kind = kind, !.round = i]
  OBVIOUS
<1>6. m \in Transaction
  BY <1>4, <1>5 DEF Transaction
<1>7. /\ m.kind = kind /\ m.round = i /\ m.count = Idle.count /\ m.game = Idle.game
      /\ m.completed = Idle.completed /\ m.reads = 0
  BY <1>4, <1>5, Zenon DEF Transaction, Idle
<1>8. tx'[r] = m
  BY <1>1, <1>5 DEF Submit, Moves
<1> QED
  BY <1>2, <1>3, <1>4, <1>6, <1>7, <1>8 DEF RequestSound

(* A step of one request that changes only what it has read. *)
LEMMA ReadOnlyStep ==
    ASSUME Inv, NEW r \in Requests, NEW m, Moves(r, m), UNCHANGED <<game, rounds>>,
           RequestSound(tx'[r], Len(rounds), Recorded)
    PROVE  Inv'
<1>1. tx \in [Requests -> Transaction] /\ tx' = [tx EXCEPT ![r] = m]
  BY DEF Inv, Moves
<1>2. tx'[r] = m /\ m \in Transaction
  BY <1>1 DEF RequestSound
<1>3. tx' \in [Requests -> Transaction]
  BY <1>1, <1>2
<1>4. \A q \in Requests : RequestSound(tx'[q], Len(rounds), Recorded)
  BY <1>1 DEF Inv
<1>5. Recorded' = Recorded /\ Len(rounds)' = Len(rounds)
  BY DEF Recorded
<1>6. \A q \in Requests : RequestSound(tx'[q], Len(rounds'), Recorded')
  BY <1>4, <1>5
<1>7. /\ CompletedIsRecorded' /\ RoundsNumbered' /\ LevelConfigured'
      /\ HandsNeverOvercounted'
  BY <1>5 DEF Inv, CompletedIsRecorded, RoundsNumbered, LevelConfigured,
             HandsNeverOvercounted
<1> QED
  BY <1>3, <1>6, <1>7 DEF Inv

-----------------------------------------------------------------------------
(* Writing                                                                 *)

(* A flush keeps every column it does not write. *)
LEMMA FlushColumns ==
    ASSUME NEW loaded \in GameRow, NEW updated \in GameRow, game \in GameRow,
           NEW g, g = Flush(loaded, updated)
    PROVE  /\ g \in GameRow
           /\ g.hands_played = IF updated.hands_played # loaded.hands_played
                               THEN updated.hands_played ELSE game.hands_played
           /\ g.current_blind_level \in {updated.current_blind_level,
                                         game.current_blind_level}
<1>1. DOMAIN game = {"status", "hands_played", "hands_at_current_level",
                     "current_blind_level"}
  BY DEF GameRow
<1>2. g = [c \in DOMAIN game |-> IF updated[c] # loaded[c] THEN updated[c] ELSE game[c]]
  BY DEF Flush
<1>3. /\ g.hands_played = IF updated.hands_played # loaded.hands_played
                          THEN updated.hands_played ELSE game.hands_played
      /\ g.current_blind_level \in {updated.current_blind_level,
                                    game.current_blind_level}
      /\ g.status \in {updated.status, game.status}
      /\ g.hands_at_current_level \in {updated.hands_at_current_level,
                                       game.hands_at_current_level}
  BY <1>1, <1>2
<1>4. g = [status |-> g.status, hands_played |-> g.hands_played,
           hands_at_current_level |-> g.hands_at_current_level,
           current_blind_level |-> g.current_blind_level]
  BY <1>1, <1>2
<1>5. /\ g.status \in {"ACTIVE", "PAUSED", "FINISHED"} /\ g.hands_played \in Nat
      /\ g.hands_at_current_level \in Nat /\ g.current_blind_level \in Nat
  BY <1>3 DEF GameRow
<1>6. g \in GameRow
  BY <1>4, <1>5 DEF GameRow
<1> QED
  BY <1>3, <1>6

(* What apply_hand_completion computes from a loaded game. *)
LEMMA HandCountedColumns ==
    ASSUME NEW g \in GameRow, g.current_blind_level \in 1..MaxLevel,
           NEW timeIsUp \in BOOLEAN, NEW m, m = HandCounted(g, timeIsUp)
    PROVE  /\ m \in GameRow
           /\ m.hands_played = g.hands_played + 1
           /\ m.current_blind_level \in 1..MaxLevel
<1> DEFINE advance == timeIsUp /\ g.current_blind_level < MaxLevel
<1>1. /\ g.hands_played \in Nat /\ g.hands_at_current_level \in Nat
      /\ g.current_blind_level \in Nat /\ MaxLevel \in Nat
  BY OverlapAssumption DEF GameRow
<1>2. PICK n \in Nat : n = g.hands_played + 1
  BY <1>1
<1>3. PICK hands \in Nat : hands = IF advance THEN 0 ELSE g.hands_at_current_level + 1
  BY <1>1
<1>4. PICK level \in 1..MaxLevel :
         level = IF advance THEN g.current_blind_level + 1 ELSE g.current_blind_level
  BY <1>1
<1>5. m = [g EXCEPT !.hands_played = n, !.hands_at_current_level = hands,
                    !.current_blind_level = level]
  BY <1>2, <1>3, <1>4, Zenon DEF HandCounted
<1>6. level \in Nat
  BY <1>1
<1>7. m \in GameRow /\ m.hands_played = n /\ m.current_blind_level = level
  BY <1>5, <1>6 DEF GameRow
<1> QED
  BY <1>2, <1>7

(* A request that commits leaves, and what the others have read stays      *)
(* sound.                                                                  *)
LEMMA OthersSound ==
    ASSUME Inv, NEW r \in Requests, Moves(r, Idle), rounds' \in Seq(RoundRow),
           Len(rounds) <= Len(rounds'), Recorded \subseteq Recorded'
    PROVE  /\ tx' \in [Requests -> Transaction]
           /\ \A q \in Requests : RequestSound(tx'[q], Len(rounds'), Recorded')
<1>1. PICK n, m, S, T : /\ n = Len(rounds) /\ m = Len(rounds')
                        /\ S = Recorded /\ T = Recorded'
  OBVIOUS
<1>2. n \in Nat /\ m \in Nat
  BY <1>1 DEF Inv
<1>3. IsFiniteSet(T)
  <2>1. T \subseteq 1..m
    BY <1>1 DEF Recorded
  <2>2. IsFiniteSet(1..m)
    BY <1>2, FS_Interval
  <2> QED
    BY <2>1, <2>2, FS_Subset
<1>4. tx \in [Requests -> Transaction] /\ tx' = [tx EXCEPT ![r] = Idle]
  BY DEF Inv, Moves
<1>5. RequestSound(Idle, m, T)
  BY <1>2, <1>3, IdleSound
<1>6. ASSUME NEW q \in Requests  PROVE RequestSound(tx[q], m, T)
  <2>1. RequestSound(tx[q], n, S)
    BY <1>1 DEF Inv
  <2> QED
    BY <1>1, <1>2, <1>3, <2>1, SoundMonotonic
<1>7. Idle \in Transaction
  BY <1>5 DEF RequestSound
<1> QED
  BY <1>1, <1>4, <1>5, <1>6, <1>7

(* start_round: the number counted earlier is free only if no round has    *)
(* been started since.                                                     *)
LEMMA CommitStartInv == ASSUME Inv, NEW r \in Requests, CommitStart(r)  PROVE Inv'
<1>1. PICK c : c = tx[r].count
  OBVIOUS
<1>2. /\ rounds \in Seq(RoundRow) /\ c \in Nat /\ c <= Len(rounds) /\ Len(rounds) \in Nat
      /\ game \in GameRow
  <2>1. tx[r] \in Transaction /\ rounds \in Seq(RoundRow) /\ game \in GameRow
        /\ tx[r].count <= Len(rounds)
    BY DEF Inv, RequestSound
  <2> QED
    BY <1>1, <2>1 DEF Transaction
<1>3. PICK row : row = [number |-> c + 1, status |-> "ACTIVE", recorded |-> FALSE]
  OBVIOUS
<1>4. row \in RoundRow /\ row.number = c + 1 /\ row.status = "ACTIVE" /\ ~row.recorded
  BY <1>2, <1>3 DEF RoundRow
<1>5. rounds' = Append(rounds, row) /\ game' = game /\ Moves(r, Idle) /\ NumberFree(c + 1)
  BY <1>1, <1>3 DEF CommitStart
<1>6. c = Len(rounds)
  BY <1>2, <1>5 DEF NumberFree, Inv, RoundsNumbered
<1>7. /\ rounds' \in Seq(RoundRow) /\ Len(rounds') = Len(rounds) + 1
      /\ DOMAIN rounds' = 1..(Len(rounds) + 1)
      /\ \A i \in DOMAIN rounds' :
            rounds'[i] = IF i = Len(rounds) + 1 THEN row ELSE rounds[i]
  BY <1>2, <1>4, <1>5
<1>8. Recorded' = Recorded
  <2>1. \A i \in DOMAIN rounds' : rounds'[i].recorded <=> i \in Recorded
    BY <1>2, <1>4, <1>7 DEF Recorded
  <2>2. Recorded \subseteq DOMAIN rounds'
    BY <1>2, <1>7 DEF Recorded
  <2> QED
    BY <2>1, <2>2 DEF Recorded
<1>9. CompletedIsRecorded'
  BY <1>2, <1>4, <1>7 DEF Inv, CompletedIsRecorded
<1>10. RoundsNumbered'
  BY <1>2, <1>4, <1>6, <1>7 DEF Inv, RoundsNumbered
<1>11. HandsNeverOvercounted' /\ LevelConfigured'
  BY <1>5, <1>8 DEF Inv, HandsNeverOvercounted, LevelConfigured
<1>12. /\ tx' \in [Requests -> Transaction]
       /\ \A q \in Requests : RequestSound(tx'[q], Len(rounds'), Recorded')
  BY <1>2, <1>5, <1>7, <1>8, OthersSound
<1> QED
  BY <1>2, <1>5, <1>7, <1>9, <1>10, <1>11, <1>12 DEF Inv

(* A commit that writes the games row and no round. *)
LEMMA GameWriteInv ==
    ASSUME Inv, NEW r \in Requests, Moves(r, Idle), rounds' = rounds, game' \in GameRow,
           game'.hands_played <= Cardinality(Recorded),
           game'.current_blind_level \in 1..MaxLevel
    PROVE  Inv'
<1>1. rounds \in Seq(RoundRow) /\ Len(rounds) \in Nat
  BY DEF Inv
<1>2. Recorded' = Recorded
  BY DEF Recorded
<1>3. /\ tx' \in [Requests -> Transaction]
      /\ \A q \in Requests : RequestSound(tx'[q], Len(rounds'), Recorded')
  BY <1>1, <1>2, OthersSound
<1>4. HandsNeverOvercounted' /\ LevelConfigured'
  BY <1>2 DEF HandsNeverOvercounted, LevelConfigured
<1>5. CompletedIsRecorded' /\ RoundsNumbered'
  BY DEF Inv, CompletedIsRecorded, RoundsNumbered
<1> QED
  BY <1>1, <1>3, <1>4, <1>5 DEF Inv

(* record_hand_completed: the hand it counts was completed. *)
LEMMA CommitRecordInv == ASSUME Inv, NEW r \in Requests, CommitRecord(r)  PROVE Inv'
<1>1. PICK t : t = tx[r]
  OBVIOUS
<1>2. /\ t.game \in GameRow /\ t.completed \in Nat /\ t.completed <= Cardinality(Recorded)
      /\ t.game.current_blind_level \in 1..MaxLevel
  <2>1. t \in Transaction /\ RequestSound(t, Len(rounds), Recorded)
    BY <1>1 DEF Inv, RequestSound
  <2> QED
    BY <2>1 DEF RequestSound, Transaction
<1>3. /\ game \in GameRow /\ game.hands_played <= Cardinality(Recorded)
      /\ game.current_blind_level \in 1..MaxLevel /\ Cardinality(Recorded) \in Nat
  BY RecordedFinite DEF Inv, HandsNeverOvercounted, LevelConfigured
<1>4. PICK timeIsUp \in BOOLEAN : game' = Flush(t.game, HandCounted(t.game, timeIsUp))
  BY <1>1 DEF CommitRecord
<1>5. PICK m : m = HandCounted(t.game, timeIsUp)
  OBVIOUS
<1>6. /\ m \in GameRow /\ m.hands_played = t.game.hands_played + 1
      /\ m.current_blind_level \in 1..MaxLevel
  BY <1>2, <1>5, HandCountedColumns
<1>7. /\ game' \in GameRow
      /\ game'.hands_played = IF m.hands_played # t.game.hands_played
                              THEN m.hands_played ELSE game.hands_played
      /\ game'.current_blind_level \in {m.current_blind_level, game.current_blind_level}
  BY <1>2, <1>3, <1>4, <1>5, <1>6, FlushColumns
<1>8. t.game.hands_played < t.completed /\ rounds' = rounds /\ Moves(r, Idle)
  BY <1>1 DEF CommitRecord
<1>9. t.game.hands_played \in Nat
  BY <1>2 DEF GameRow
<1>10. game'.hands_played <= Cardinality(Recorded)
  BY <1>2, <1>3, <1>6, <1>7, <1>8, <1>9
<1> QED
  BY <1>3, <1>6, <1>7, <1>8, <1>10, GameWriteInv

(* advance_blinds: the level after the one loaded is configured. *)
LEMMA CommitAdvanceBlindsInv ==
    ASSUME Inv, NEW r \in Requests, CommitAdvanceBlinds(r)  PROVE Inv'
<1>1. PICK g : g = tx[r].game
  OBVIOUS
<1>2. g \in GameRow /\ g.current_blind_level \in 1..MaxLevel /\ MaxLevel \in Nat
  BY <1>1, OverlapAssumption DEF Inv, RequestSound, Transaction
<1>3. /\ game \in GameRow /\ game.hands_played <= Cardinality(Recorded)
      /\ game.current_blind_level \in 1..MaxLevel
  BY DEF Inv, HandsNeverOvercounted, LevelConfigured
<1>4. /\ g.current_blind_level < MaxLevel /\ rounds' = rounds /\ Moves(r, Idle)
      /\ game' = Flush(g, [g EXCEPT !.current_blind_level = g.current_blind_level + 1])
  BY <1>1, Zenon DEF CommitAdvanceBlinds
<1>5. PICK level \in 1..MaxLevel : level = g.current_blind_level + 1
  BY <1>2, <1>4
<1>6. PICK m : m = [g EXCEPT !.current_blind_level = level]
  OBVIOUS
<1>7. m \in GameRow /\ m.hands_played = g.hands_played /\ m.current_blind_level = level
  BY <1>2, <1>5, <1>6 DEF GameRow
<1>8. game' = Flush(g, m)
  BY <1>4, <1>5, <1>6
<1>9. /\ game' \in GameRow
      /\ game'.hands_played = IF m.hands_played # g.hands_played
                              THEN m.hands_played ELSE game.hands_played
      /\ game'.current_blind_level \in {m.current_blind_level, game.current_blind_level}
  BY <1>2, <1>3, <1>7, <1>8, FlushColumns
<1> QED
  BY <1>3, <1>4, <1>7, <1>9, GameWriteInv

(* end_game, pause_table and resume_table write the status only. *)
LEMMA CommitStatusInv ==
    ASSUME Inv, NEW r \in Requests, NEW kind, NEW required,
           NEW status \in {"ACTIVE", "PAUSED", "FINISHED"},
           CommitStatus(r, kind, required, status)
    PROVE  Inv'
<1>1. PICK g, m : g = tx[r].game /\ m = [g EXCEPT !.status = status]
  OBVIOUS
<1>2. g \in GameRow
  BY <1>1 DEF Inv, RequestSound, Transaction
<1>3. /\ game \in GameRow /\ game.hands_played <= Cardinality(Recorded)
      /\ game.current_blind_level \in 1..MaxLevel
  BY DEF Inv, HandsNeverOvercounted, LevelConfigured
<1>4. m \in GameRow /\ m.hands_played = g.hands_played
      /\ m.current_blind_level = g.current_blind_level
  BY <1>1, <1>2 DEF GameRow
<1>5. game' = Flush(g, m) /\ rounds' = rounds /\ Moves(r, Idle)
  BY <1>1 DEF CommitStatus
<1>6. g.current_blind_level \in 1..MaxLevel
  BY <1>1 DEF Inv, RequestSound
<1>7. /\ game' \in GameRow
      /\ game'.hands_played = IF m.hands_played # g.hands_played
                              THEN m.hands_played ELSE game.hands_played
      /\ game'.current_blind_level \in {m.current_blind_level, game.current_blind_level}
  BY <1>2, <1>3, <1>4, <1>5, FlushColumns
<1> QED
  BY <1>3, <1>4, <1>5, <1>6, <1>7, GameWriteInv

(* A round whose status is rewritten keeps its number, and its entry is    *)
(* not taken back.                                                         *)
LEMMA RoundWritten ==
    ASSUME Inv, NEW i \in DOMAIN rounds, NEW row \in RoundRow,
           row.number = rounds[i].number, rounds[i].recorded => row.recorded,
           row.status = "COMPLETED" => row.recorded,
           rounds' = [rounds EXCEPT ![i] = row]
    PROVE  /\ rounds' \in Seq(RoundRow) /\ Len(rounds') = Len(rounds)
           /\ CompletedIsRecorded' /\ RoundsNumbered'
           /\ Recorded' = Recorded \cup (IF row.recorded THEN {i} ELSE {})
<1>1. rounds \in Seq(RoundRow) /\ DOMAIN rounds = 1..Len(rounds)
  BY DEF Inv
<1>2. /\ rounds' \in Seq(RoundRow) /\ Len(rounds') = Len(rounds)
      /\ \A j \in DOMAIN rounds : rounds'[j] = IF j = i THEN row ELSE rounds[j]
  BY <1>1, ExceptSeq
<1>3. DOMAIN rounds' = DOMAIN rounds
  BY <1>1, <1>2
<1>4. CompletedIsRecorded' /\ RoundsNumbered'
  BY <1>2, <1>3 DEF Inv, CompletedIsRecorded, RoundsNumbered
<1>5. Recorded' = Recorded \cup (IF row.recorded THEN {i} ELSE {})
  <2>1. \A j \in DOMAIN rounds :
           j \in Recorded' <=> (j \in Recorded \/ (row.recorded /\ j = i))
    BY <1>2, <1>3 DEF Recorded
  <2>2. Recorded \subseteq DOMAIN rounds /\ Recorded' \subseteq DOMAIN rounds
    BY <1>3 DEF Recorded
  <2> QED
    BY <2>1, <2>2
<1> QED
  BY <1>2, <1>4, <1>5

(* resolve_hand: the game it loaded counts no more hands than were         *)
(* completed apart from this one, even if another request has settled the  *)
(* same hand since.                                                        *)
LEMMA CommitResolveInv == ASSUME Inv, NEW r \in Requests, CommitResolve(r)  PROVE Inv'
<1>1. PICK t, i, g : t = tx[r] /\ i = t.round /\ g = t.game
  OBVIOUS
<1>2. /\ t \in Transaction /\ RequestSound(t, Len(rounds), Recorded)
      /\ rounds \in Seq(RoundRow) /\ game \in GameRow
  BY <1>1 DEF Inv, RequestSound
<1>3. t.kind = "resolve_hand" /\ t.reads = 3
  <2>1. Reads("resolve_hand") = <<"round", "game", "entry">>
    BY DEF Reads
  <2> QED
    BY <1>1, <2>1 DEF CommitResolve, Ready
<1>4. /\ i \in DOMAIN rounds /\ g \in GameRow /\ g.current_blind_level \in 1..MaxLevel
      /\ g.hands_played \in Nat
      /\ g.hands_played <= Cardinality(Recorded)
      /\ ~t.entry => g.hands_played <= Cardinality(Recorded \ {i})
  BY <1>1, <1>2, <1>3, SMTT(40) DEF RequestSound, RoundKinds, Transaction, GameRow
<1>5. rounds[i] \in RoundRow
  BY <1>2, <1>4
<1>6. PICK row : row = [rounds[i] EXCEPT !.status = "COMPLETED", !.recorded = TRUE]
  OBVIOUS
<1>7. row \in RoundRow /\ row.number = rounds[i].number /\ row.recorded
  BY <1>5, <1>6 DEF RoundRow
<1>8. rounds' = [rounds EXCEPT ![i] = row] /\ Moves(r, Idle)
  BY <1>1, <1>4, <1>6 DEF CommitResolve
<1>9. /\ rounds' \in Seq(RoundRow) /\ Len(rounds') = Len(rounds)
      /\ CompletedIsRecorded' /\ RoundsNumbered' /\ Recorded' = Recorded \cup {i}
  BY <1>4, <1>7, <1>8, RoundWritten
<1>10. /\ Cardinality(Recorded) <= Cardinality(Recorded')
       /\ Cardinality(Recorded') = Cardinality(Recorded \ {i}) + 1
       /\ Cardinality(Recorded) \in Nat /\ Cardinality(Recorded') \in Nat
       /\ Cardinality(Recorded \ {i}) \in Nat
  <2>1. PICK S : S = Recorded
    OBVIOUS
  <2>2. IsFiniteSet(S) /\ IsFiniteSet(S \ {i}) /\ IsFiniteSet(S \cup {i})
    BY <1>2, <2>1, RecordedFinite, FS_RemoveElement, FS_AddElement
  <2>3. /\ Cardinality(S) \in Nat /\ Cardinality(S \ {i}) \in Nat
        /\ Cardinality(S \cup {i}) \in Nat
    BY <2>2, FS_CardinalityType
  <2>4. Cardinality(S \cup {i}) = IF i \in S THEN Cardinality(S) ELSE Cardinality(S) + 1
    BY <2>2, FS_AddElement
  <2>5. Cardinality(S \ {i}) = IF i \in S THEN Cardinality(S) - 1 ELSE Cardinality(S)
    BY <2>2, FS_RemoveElement
  <2> QED
    BY <1>9, <2>1, <2>3, <2>4, <2>5
<1>11. PICK timeIsUp \in BOOLEAN, isLast \in BOOLEAN :
          game' = LET c == IF t.entry THEN g ELSE HandCounted(g, timeIsUp)
                      u == IF isLast THEN [c EXCEPT !.status = "FINISHED"] ELSE c
                  IN  Flush(g, u)
  BY <1>1 DEF CommitResolve
<1>12. PICK counted : counted = IF t.entry THEN g ELSE HandCounted(g, timeIsUp)
  OBVIOUS
<1>13. PICK updated :
         updated = IF isLast THEN [counted EXCEPT !.status = "FINISHED"] ELSE counted
  OBVIOUS
<1>14. game' = Flush(g, updated)
  BY <1>11, <1>12, <1>13
<1>15. /\ counted \in GameRow /\ counted.current_blind_level \in 1..MaxLevel
       /\ counted.hands_played = IF t.entry THEN g.hands_played ELSE g.hands_played + 1
  BY <1>4, <1>12, HandCountedColumns
<1>16. /\ updated \in GameRow /\ updated.current_blind_level \in 1..MaxLevel
       /\ updated.hands_played = counted.hands_played
  BY <1>15, <1>13 DEF GameRow
<1>17. /\ game' \in GameRow
       /\ game'.hands_played = IF updated.hands_played # g.hands_played
                               THEN updated.hands_played ELSE game.hands_played
       /\ game'.current_blind_level \in {updated.current_blind_level,
                                         game.current_blind_level}
  BY <1>2, <1>4, <1>16, <1>14, FlushColumns
<1>18. game.hands_played <= Cardinality(Recorded) /\ game.hands_played \in Nat
  BY <1>2 DEF Inv, HandsNeverOvercounted, GameRow
<1>19. game'.hands_played <= Cardinality(Recorded')
  BY <1>4, <1>10, <1>15, <1>16, <1>17, <1>18
<1>20. HandsNeverOvercounted' /\ LevelConfigured'
  BY <1>16, <1>17, <1>19 DEF Inv, HandsNeverOvercounted, LevelConfigured
<1>21. /\ tx' \in [Requests -> Transaction]
       /\ \A q \in Requests : RequestSound(tx'[q], Len(rounds'), Recorded')
  <2>1. Len(rounds) <= Len(rounds') /\ Recorded \subseteq Recorded'
    BY <1>2, <1>9
  <2> QED
    BY <1>8, <1>9, <2>1, OthersSound
<1> QED
  BY <1>9, <1>17, <1>20, <1>21 DEF Inv

(* reopen_hand leaves the entry of the round where it is. *)
LEMMA CommitReopenInv == ASSUME Inv, NEW r \in Requests, CommitReopen(r)  PROVE Inv'
<1>1. PICK t, i : t = tx[r] /\ i = t.round
  OBVIOUS
<1>2. /\ RequestSound(t, Len(rounds), Recorded) /\ rounds \in Seq(RoundRow)
      /\ game \in GameRow /\ t.kind = "reopen_hand"
  BY <1>1 DEF Inv, CommitReopen, Ready
<1>3. i \in DOMAIN rounds
  BY <1>1, <1>2 DEF RequestSound, RoundKinds
<1>4. rounds[i] \in RoundRow
  BY <1>2, <1>3
<1>5. PICK row : row = [rounds[i] EXCEPT !.status = "ACTIVE"]
  OBVIOUS
<1>6. /\ row \in RoundRow /\ row.number = rounds[i].number /\ row.status = "ACTIVE"
      /\ row.recorded = rounds[i].recorded
  BY <1>4, <1>5 DEF RoundRow
<1>7. rounds' = [rounds EXCEPT ![i] = row] /\ Moves(r, Idle) /\ game' = game
  BY <1>1, <1>3, <1>5 DEF CommitReopen
<1>8. /\ rounds' \in Seq(RoundRow) /\ Len(rounds') = Len(rounds)
      /\ CompletedIsRecorded' /\ RoundsNumbered'
      /\ Recorded' = Recorded \cup (IF row.recorded THEN {i} ELSE {})
  BY <1>3, <1>6, <1>7, RoundWritten
<1>9. Recorded' = Recorded
  BY <1>3, <1>6, <1>8 DEF Recorded
<1>10. HandsNeverOvercounted' /\ LevelConfigured'
  BY <1>7, <1>9 DEF Inv, HandsNeverOvercounted, LevelConfigured
<1>11. /\ tx' \in [Requests -> Transaction]
       /\ \A q \in Requests : RequestSound(tx'[q], Len(rounds'), Recorded')
  <2>1. Len(rounds) <= Len(rounds') /\ Recorded \subseteq Recorded'
    BY <1>2, <1>8, <1>9
  <2> QED
    BY <1>7, <1>8, <2>1, OthersSound
<1> QED
  BY <1>2, <1>7, <1>8, <1>10, <1>11 DEF Inv

-----------------------------------------------------------------------------
(* The invariant                                                           *)

(* A new game has counted nothing and nothing overlaps yet. *)
LEMMA InitInv == Init => Inv
<1> SUFFICES ASSUME Init  PROVE Inv
  OBVIOUS
<1>1. rounds \in Seq(RoundRow) /\ Len(rounds) = 0 /\ DOMAIN rounds = {}
  BY DEF Init
<1>2. Recorded = {} /\ Cardinality(Recorded) = 0 /\ IsFiniteSet(Recorded)
  BY <1>1, FS_EmptySet DEF Recorded
<1>3. game \in GameRow /\ game.hands_played = 0 /\ game.current_blind_level = 1
  BY DEF Init, NewGame, GameRow
<1>4. RequestSound(Idle, Len(rounds), Recorded) /\ Idle \in Transaction
  BY <1>1, <1>2, IdleSound DEF RequestSound
<1>5. tx \in [Requests -> Transaction]
      /\ \A r \in Requests : RequestSound(tx[r], Len(rounds), Recorded)
  BY <1>4 DEF Init
<1> QED
  BY <1>1, <1>2, <1>3, <1>5, OverlapAssumption
     DEF Inv, CompletedIsRecorded, RoundsNumbered, HandsNeverOvercounted, LevelConfigured

(* The steps of a request that write nothing. *)
LEMMA SubmitInv ==
    ASSUME Inv, NEW r \in Requests, NEW kind \in Kinds, NEW i \in Nat,
           kind \in RoundKinds => i \in DOMAIN rounds, Submit(r, kind, i)
    PROVE  Inv'
<1>1. PICK m : Moves(r, m) /\ UNCHANGED <<game, rounds>>
  BY DEF Submit
<1> QED
  BY <1>1, SubmitSound, ReadOnlyStep

(* A statement that reads. *)
LEMMA ReadInv == ASSUME Inv, NEW r \in Requests, Read(r)  PROVE Inv'
<1>1. PICK m : Moves(r, m) /\ UNCHANGED <<game, rounds>>
  BY DEF Read
<1> QED
  BY <1>1, ReadSound, ReadOnlyStep

(* A request that is given up. *)
LEMMA LeaveInv == ASSUME Inv, NEW r \in Requests, Leave(r)  PROVE Inv'
<1>1. Moves(r, Idle) /\ UNCHANGED <<game, rounds>> /\ tx \in [Requests -> Transaction]
  BY DEF Leave, Inv
<1>2. RequestSound(Idle, Len(rounds), Recorded)
  <2>1. Len(rounds) \in Nat /\ IsFiniteSet(Recorded)
    BY RecordedFinite DEF Inv
  <2> QED
    BY <2>1, IdleSound
<1>3. tx'[r] = Idle
  BY <1>1 DEF Moves
<1> QED
  BY <1>1, <1>2, <1>3, ReadOnlyStep

(* The invariant is inductive. *)
LEMMA StepInv == ASSUME Inv, NEW r \in Requests, Step(r)  PROVE Inv'
<1>1. CASE \E kind \in GameKinds : Submit(r, kind, NoRound)
  <2>1. PICK kind \in GameKinds : Submit(r, kind, NoRound)
    BY <1>1
  <2>2. kind \in Kinds /\ kind \notin RoundKinds /\ NoRound \in Nat
    BY DEF Kinds, GameKinds, RoundKinds, NoRound
  <2> QED
    BY <2>1, <2>2, SubmitInv
<1>2. CASE \E kind \in RoundKinds, i \in DOMAIN rounds : Submit(r, kind, i)
  <2>1. PICK kind \in RoundKinds, i \in DOMAIN rounds : Submit(r, kind, i)
    BY <1>2
  <2>2. kind \in Kinds /\ i \in Nat
    BY DEF Kinds, Inv
  <2> QED
    BY <2>1, <2>2, SubmitInv
<1>3. CASE CommitStatus(r, "end_game", {"ACTIVE", "PAUSED", "FINISHED"}, "FINISHED")
  BY <1>3, CommitStatusInv
<1>4. CASE CommitStatus(r, "pause_table", {"ACTIVE"}, "PAUSED")
  BY <1>4, CommitStatusInv
<1>5. CASE CommitStatus(r, "resume_table", {"PAUSED"}, "ACTIVE")
  BY <1>5, CommitStatusInv
<1> QED
  BY <1>1, <1>2, <1>3, <1>4, <1>5, ReadInv, LeaveInv, CommitStartInv, CommitResolveInv,
     CommitRecordInv, CommitAdvanceBlindsInv, CommitReopenInv
     DEF Step

(* Nothing changes when no request moves. *)
LEMMA StutterInv == ASSUME Inv, UNCHANGED vars  PROVE Inv'
<1>1. game' = game /\ rounds' = rounds /\ tx' = tx
  BY DEF vars
<1>2. Recorded' = Recorded
  BY <1>1 DEF Recorded
<1> QED
  BY <1>1, <1>2 DEF Inv, CompletedIsRecorded, RoundsNumbered, HandsNeverOvercounted,
                    LevelConfigured

(* However requests overlap, every reachable state satisfies the inductive *)
(* invariant.                                                              *)
THEOREM OverlapSafety == Spec => []Inv
<1>1. Init => Inv
  BY InitInv
<1>2. Inv /\ [Next]_vars => Inv'
  BY StepInv, StutterInv DEF Next
<1> QED
  BY <1>1, <1>2, PTL DEF Spec

(* Rows and requests keep their types; a request on a round names one that *)
(* exists.                                                                 *)
THEOREM OverlapTypeCorrect == Spec => []TypeOK
<1>1. Inv => TypeOK
  <2> SUFFICES ASSUME Inv  PROVE TypeOK
    OBVIOUS
  <2>1. DOMAIN rounds = 1..Len(rounds)
    BY DEF Inv
  <2>2. \A r \in Requests : tx[r].kind \in RoundKinds => tx[r].round \in DOMAIN rounds
    BY <2>1 DEF Inv, RequestSound
  <2> QED
    BY <2>2 DEF Inv, TypeOK
<1> QED
  BY <1>1, OverlapSafety, PTL

(* However start_round calls overlap, rounds are numbered without gap or   *)
(* repetition.                                                             *)
THEOREM OverlapRoundsNumbered == Spec => []RoundsNumbered
BY OverlapSafety, PTL DEF Inv

(* However settlements, reopenings and recordings overlap, no hand is      *)
(* counted twice.                                                          *)
THEOREM OverlapHandsCounted == Spec => []HandsNeverOvercounted
BY OverlapSafety, PTL DEF Inv

(* However blind changes overlap, the game stays on a configured level. *)
THEOREM OverlapLevelConfigured == Spec => []LevelConfigured
BY OverlapSafety, PTL DEF Inv
==============================================================================
