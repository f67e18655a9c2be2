------------------------- MODULE HandLedgerProofs ---------------------------
(***************************************************************************)
(* The ledger of a hand explains its stacks and its pot, the settlement's  *)
(* explanation adds up, and replay and timeline agree, for every table,    *)
(* every level and every bound on the ledger, whatever the dealer corrects *)
(* and in whatever order.                                                  *)
(*                                                                         *)
(* RebuildHandState folds ApplyEntry over the ledger.  The first part      *)
(* shows that the fold can be taken one entry at a time (ReplayEmpty and   *)
(* ReplayAppend), again by minimal counterexample; the second follows the  *)
(* entries a settlement appends; the third is the invariant.  On top of it *)
(* come the rows of round_payouts (RowsInv) and, entry by entry once more, *)
(* the timeline beside the replay (InStep).                                *)
(***************************************************************************)
EXTENDS HandLedger, HandEngineProofs

-----------------------------------------------------------------------------
(* The replay, entry by entry                                              *)

(* g[t] is the replay of the entries of f at the places t, in order. *)
IsReplay(g, f, S) ==
    g = [t \in SUBSET S |-> IF t = {} THEN NothingReplayed
                            ELSE ApplyEntry(g[t \ {Max(t)}], f[Max(t)])]

(* One step of the recursion. *)
LEMMA ReplayUnfold ==
    ASSUME NEW S, NEW f, NEW g, IsReplay(g, f, S)
    PROVE  /\ g[{}] = NothingReplayed
           /\ \A t \in SUBSET S :
                 t # {} => g[t] = ApplyEntry(g[t \ {Max(t)}], f[Max(t)])
<1>1. {} \in SUBSET S
  OBVIOUS
<1> QED
  BY <1>1 DEF IsReplay

(* Replays of the same entries agree wherever both are defined. *)
LEMMA ReplayUnique ==
    ASSUME NEW f, NEW e, NEW A, NEW B, NEW g, NEW h,
           IsReplay(g, f, A), IsReplay(h, e, B),
           NEW t \in SUBSET Nat, IsFiniteSet(t), t \in SUBSET A, t \in SUBSET B,
           \A i \in t : f[i] = e[i]
    PROVE  g[t] = h[t]
<1> DEFINE Bad == {u \in SUBSET t : g[u] # h[u]}
<1> SUFFICES ASSUME Bad # {}  PROVE FALSE
  OBVIOUS
<1>0. Bad \subseteq SUBSET t
  OBVIOUS
<1>1. PICK X \in Bad : \A Y \in SUBSET X : Y # X => Y \notin Bad
  <2> HIDE DEF Bad
  <2> QED  BY <1>0, MinimalSubset
<1>2. X \in SUBSET t /\ g[X] # h[X]
  OBVIOUS
<1> HIDE DEF Bad
<1>3. X # {}
  BY <1>2, ReplayUnfold
<1>4. PICK m \in X : m = Max(X)
  <2>1. X \in SUBSET Nat /\ IsFiniteSet(X)
    BY <1>2, FS_Subset
  <2> QED
    BY <1>3, <2>1, MaxNat
<1>5. g[X \ {m}] = h[X \ {m}]
  BY <1>1, <1>2, <1>4 DEF Bad
<1>6. g[X] = ApplyEntry(g[X \ {m}], f[m]) /\ h[X] = ApplyEntry(h[X \ {m}], e[m])
  <2>1. X \in SUBSET A /\ X \in SUBSET B
    BY <1>2
  <2>2. g[X] = ApplyEntry(g[X \ {Max(X)}], f[Max(X)])
    BY ONLY <1>3, <2>1, IsReplay(g, f, A) DEF IsReplay
  <2>3. h[X] = ApplyEntry(h[X \ {Max(X)}], e[Max(X)])
    BY ONLY <1>3, <2>1, IsReplay(h, e, B) DEF IsReplay
  <2> QED
    BY <1>4, <2>2, <2>3
<1>7. f[m] = e[m]
  BY <1>2, <1>4
<1> QED
  BY <1>2, <1>5, <1>6, <1>7

(* Every finite set of places has a replay. *)
LEMMA ReplayExists ==
    ASSUME NEW S \in SUBSET Nat, IsFiniteSet(S), NEW f
    PROVE  \E g : IsReplay(g, f, S)
<1> DEFINE Bad == {Y \in SUBSET S : ~\E g : IsReplay(g, f, Y)}
<1> SUFFICES ASSUME Bad # {}  PROVE FALSE
  OBVIOUS
<1>0. Bad \subseteq SUBSET S
  OBVIOUS
<1>1. PICK X \in Bad : \A Y \in SUBSET X : Y # X => Y \notin Bad
  <2> HIDE DEF Bad
  <2> QED  BY <1>0, MinimalSubset
<1>x. X \in SUBSET S /\ X \in SUBSET Nat /\ IsFiniteSet(X)
  BY <1>0, <1>1, FS_Subset
<1>n. ~\E g : IsReplay(g, f, X)
  BY <1>1
<1> DEFINE G == [Y \in SUBSET X |-> CHOOSE g : IsReplay(g, f, Y)]
           Rest == [t \in SUBSET X |-> t \ {Max(t)}]
           h == [t \in SUBSET X |-> IF t = {} THEN NothingReplayed
                                    ELSE ApplyEntry(G[Rest[t]][Rest[t]], f[Max(t)])]
<1>2. \A Y \in SUBSET X : Y # X => IsReplay(G[Y], f, Y)
  <2> SUFFICES ASSUME NEW Y \in SUBSET X, Y # X
               PROVE  IsReplay(G[Y], f, Y)
    OBVIOUS
  <2>1. \E g : IsReplay(g, f, Y)
    BY <1>1, <1>x
  <2>2. IsReplay(CHOOSE g : IsReplay(g, f, Y), f, Y)
    BY <2>1
  <2> QED
    BY <2>2
<1>3. ASSUME NEW t \in SUBSET X, t # {}
      PROVE  /\ Max(t) \in t
             /\ Rest[t] \in SUBSET X /\ Rest[t] \in SUBSET t /\ Rest[t] # X
             /\ Rest[t] = t \ {Max(t)}
             /\ Rest[t] \in SUBSET Nat /\ IsFiniteSet(Rest[t])
  <2>1. t \in SUBSET Nat /\ IsFiniteSet(t)
    BY <1>x, FS_Subset
  <2>2. Max(t) \in t
    BY <1>3, <2>1, MaxNat
  <2>3. Rest[t] = t \ {Max(t)}
    OBVIOUS
  <2> HIDE DEF Rest
  <2> QED
    BY <2>1, <2>2, <2>3, FS_Subset
<1> HIDE DEF G, Rest
<1>4. \A t \in SUBSET X : h[t] = IF t = {} THEN NothingReplayed
                                  ELSE ApplyEntry(G[Rest[t]][Rest[t]], f[Max(t)])
  OBVIOUS
<1>5. h = [t \in SUBSET X |-> h[t]]
  OBVIOUS
<1> HIDE DEF h
<1>7. ASSUME NEW u \in SUBSET X, u # X
      PROVE  h[u] = G[u][u]
  <2>0. IsReplay(G[u], f, u)
    BY <1>2, <1>7
  <2>1. CASE u = {}
    <3>1. G[u][u] = NothingReplayed
      BY <2>0, <2>1, ReplayUnfold
    <3> QED
      BY <3>1, <2>1, <1>4
  <2>2. CASE u # {}
    <3>1. /\ Rest[u] \in SUBSET u /\ Rest[u] \in SUBSET X /\ Rest[u] # X
          /\ Rest[u] \in SUBSET Nat /\ IsFiniteSet(Rest[u])
          /\ Rest[u] = u \ {Max(u)}
      BY <1>3, <2>2
    <3>2. IsReplay(G[Rest[u]], f, Rest[u])
      BY <1>2, <3>1
    <3>3. G[u][Rest[u]] = G[Rest[u]][Rest[u]]
      BY <2>0, <3>1, <3>2, ReplayUnique
    <3>4. G[u][u] = ApplyEntry(G[u][Rest[u]], f[Max(u)])
      <4>1. u \in SUBSET u
        OBVIOUS
      <4> QED
        BY <2>0, <2>2, <3>1, <4>1, ReplayUnfold
    <3> QED
      BY <3>3, <3>4, <2>2, <1>4
  <2> QED
    BY <2>1, <2>2
<1>8. ASSUME NEW t \in SUBSET X, t # {}
      PROVE  h[t] = ApplyEntry(h[t \ {Max(t)}], f[Max(t)])
  <2>1. h[t] = ApplyEntry(G[Rest[t]][Rest[t]], f[Max(t)])
    BY <1>4, <1>8
  <2>2. Rest[t] = t \ {Max(t)} /\ Rest[t] \in SUBSET X /\ Rest[t] # X
    BY <1>3, <1>8
  <2>3. h[Rest[t]] = G[Rest[t]][Rest[t]]
    BY <1>7, <2>2
  <2> QED
    BY <2>1, <2>2, <2>3
<1>9. h = [t \in SUBSET X |-> IF t = {} THEN NothingReplayed
                               ELSE ApplyEntry(h[t \ {Max(t)}], f[Max(t)])]
  BY <1>4, <1>5, <1>8, Zenon
<1>10. IsReplay(h, f, X)
  BY <1>9 DEF IsReplay
<1> QED
  BY <1>n, <1>10

(* RebuildHandState is such a replay, taken at all places. *)
LEMMA RebuildIsReplay ==
    ASSUME NEW n \in Nat, NEW f, DOMAIN f = 1..n
    PROVE  \E g : IsReplay(g, f, 1..n) /\ RebuildHandState(f) = g[1..n]
<1> DEFINE S == DOMAIN f
           iter == CHOOSE k : IsReplay(k, f, S)
<1>1. \E g : IsReplay(g, f, S)
  <2>1. S \in SUBSET Nat /\ IsFiniteSet(S)
    <3>1. IsFiniteSet(1..n)
      BY FS_Interval
    <3> QED
      BY <3>1
  <2> HIDE DEF S
  <2> QED
    BY <2>1, ReplayExists
<1>2. IsReplay(iter, f, S)
  BY <1>1
<1>3. RebuildHandState(f) = iter[S]
  BY Zenon DEF RebuildHandState, FoldLeft, MapThenFoldSet, IsReplay
<1> HIDE DEF iter
<1> QED
  BY <1>2, <1>3

(* An empty ledger says nothing. *)
LEMMA ReplayEmpty ==
    ASSUME NEW f, DOMAIN f = {}
    PROVE  RebuildHandState(f) = NothingReplayed
<1>1. PICK z \in Nat : z = 0
  OBVIOUS
<1>2. 1..z = {}
  BY <1>1
<1>3. PICK g : IsReplay(g, f, 1..z) /\ RebuildHandState(f) = g[1..z]
  BY <1>2, RebuildIsReplay
<1> QED
  BY <1>2, <1>3, ReplayUnfold

(* One more entry is applied to what the others say. *)
LEMMA ReplayAppend ==
    ASSUME NEW n \in Nat, NEW f, NEW e, DOMAIN f = 1..n, DOMAIN e = 1..(n + 1),
           \A i \in 1..n : e[i] = f[i]
    PROVE  RebuildHandState(e) = ApplyEntry(RebuildHandState(f), e[n + 1])
<1>1. PICK m \in Nat : m = n + 1
  OBVIOUS
<1>2. PICK g : IsReplay(g, f, 1..n) /\ RebuildHandState(f) = g[1..n]
  BY RebuildIsReplay
<1>3. PICK h : IsReplay(h, e, 1..m) /\ RebuildHandState(e) = h[1..m]
  BY <1>1, RebuildIsReplay
<1>4. Max(1..m) = m
  <2>1. 1..m \in SUBSET Nat /\ 1..m # {} /\ m \in 1..m
    BY <1>1
  <2>2. IsFiniteSet(1..m)
    BY FS_Interval
  <2>3. Max(1..m) \in 1..m /\ \A y \in 1..m : Max(1..m) >= y
    BY <2>1, <2>2, MaxNat
  <2> QED
    BY <2>1, <2>3
<1>5. (1..m) \ {m} = 1..n /\ 1..m # {} /\ 1..n \in SUBSET (1..m)
  BY <1>1
<1>6. h[1..m] = ApplyEntry(h[1..n], e[m])
  <2>1. PICK T : T = 1..m
    OBVIOUS
  <2>2. IsReplay(h, e, T) /\ T \in SUBSET T /\ T # {}
    BY <1>3, <1>5, <2>1
  <2>3. h[T] = ApplyEntry(h[T \ {Max(T)}], e[Max(T)])
    BY <2>2, ReplayUnfold
  <2> QED
    BY <1>4, <1>5, <2>1, <2>3
<1>7. h[1..n] = g[1..n]
  <2>1. 1..n \in SUBSET Nat /\ IsFiniteSet(1..n) /\ 1..n \in SUBSET (1..n)
    BY FS_Interval
  <2> QED
    BY <1>2, <1>3, <1>5, <2>1, ReplayUnique, SMTT(30)
<1> QED
  BY <1>1, <1>2, <1>3, <1>6, <1>7
-----------------------------------------------------------------------------
(* What a settlement appends                                               *)

(* A function on 1..n is a sequence of length n. *)
LEMMA FunctionIsSeq ==
    ASSUME NEW T, NEW n \in Nat, NEW f \in [1..n -> T]
    PROVE  f \in Seq(T) /\ Len(f) = n /\ DOMAIN f = 1..n
OBVIOUS

LEMMA AppendConcat ==
    ASSUME NEW T, NEW a \in Seq(T), NEW b \in Seq(T), NEW x \in T
    PROVE  a \o Append(b, x) = Append(a \o b, x)
<1>1. PICK m \in Nat, n \in Nat : m = Len(a) /\ n = Len(b)
  OBVIOUS
<1>2. PICK c, d : c = Append(b, x) /\ d = a \o b
  OBVIOUS
<1>3. /\ c \in Seq(T) /\ Len(c) = n + 1 /\ c[n + 1] = x
      /\ \A j \in 1..n : c[j] = b[j]
  BY <1>1, <1>2
<1>4. /\ d \in Seq(T) /\ Len(d) = m + n /\ \A i \in 1..m : d[i] = a[i]
      /\ \A j \in 1..n : d[m + j] = b[j]
  BY <1>1, <1>2
<1>5. PICK u, v : u = a \o c /\ v = Append(d, x)
  OBVIOUS
<1>6. /\ u \in Seq(T) /\ Len(u) = m + (n + 1) /\ \A i \in 1..m : u[i] = a[i]
      /\ \A j \in 1..(n + 1) : u[m + j] = c[j]
  <2>1. PICK k \in Nat : k = n + 1
    OBVIOUS
  <2>2. c \in Seq(T) /\ Len(c) = k /\ u = a \o c
    BY <1>3, <1>5, <2>1
  <2>3. /\ u \in Seq(T) /\ Len(u) = m + k /\ \A i \in 1..m : u[i] = a[i]
        /\ \A j \in 1..k : u[m + j] = c[j]
    <3>1. u \in Seq(T) /\ Len(u) = m + k
      <4>1. a \o c \in Seq(T)
        BY ONLY a \in Seq(T), <2>2, SMTT(30)
      <4>2. Len(a \o c) = Len(a) + Len(c)
        BY ONLY a \in Seq(T), <2>2, SMTT(30)
      <4> QED
        BY <1>1, <2>2, <4>1, <4>2
    <3>2. \A i \in 1..m : u[i] = a[i]
      BY <1>1, <2>2
    <3>3. \A j \in 1..k : u[m + j] = c[j]
      BY <1>1, <2>2
    <3> QED
      BY <3>1, <3>2, <3>3
  <2> QED
    BY <2>1, <2>3
<1>7. /\ v \in Seq(T) /\ Len(v) = m + n + 1 /\ v[m + n + 1] = x
      /\ \A i \in 1..(m + n) : v[i] = d[i]
  <2>1. PICK k \in Nat : k = m + n
    OBVIOUS
  <2>2. /\ v \in Seq(T) /\ Len(v) = k + 1 /\ v[k + 1] = x
        /\ \A i \in 1..k : v[i] = d[i]
    BY ONLY <1>4, <1>5, <2>1, x \in T
  <2> QED
    BY <2>1, <2>2
<1>8. ASSUME NEW i \in 1..(m + n + 1)  PROVE u[i] = v[i]
  <2>1. CASE i \in 1..m
    BY <1>4, <1>6, <1>7, <2>1
  <2>2. CASE i \notin 1..m
    <3>1. PICK j \in 1..(n + 1) : i = m + j
      <4>1. i - m \in 1..(n + 1) /\ i = m + (i - m)
        BY <2>2
      <4> QED
        BY <4>1
    <3>2. CASE j = n + 1
      <4>1. u[i] = c[n + 1]
        BY <1>6, <3>1, <3>2
      <4>2. i = m + n + 1
        BY <3>1, <3>2
      <4> QED
        BY <1>3, <1>7, <4>1, <4>2
    <3>3. CASE j \in 1..n
      <4>1. u[i] = c[j] /\ c[j] = b[j]
        BY <1>3, <1>6, <3>1, <3>3
      <4>2. v[i] = d[i] /\ d[i] = b[j]
        BY <1>4, <1>7, <3>1, <3>3
      <4> QED
        BY <4>1, <4>2
    <3> QED
      BY <3>2, <3>3
  <2> QED
    BY <2>1, <2>2
<1> QED
  BY ONLY <1>2, <1>5, <1>6, <1>7, <1>8, SMTT(30)

(* What the rows award to seat s, row by row, and in all. *)
ShareOf(rows, s) ==
    [j \in DOMAIN rows |-> IF rows[j].player = s THEN rows[j].amount ELSE 0]
Share(rows, s) == SumFunction(ShareOf(rows, s))

(* The rows of one submitted pot. *)
RowsOf(pot) ==
    LET winners == InOrder(PotWinners(pot))
    IN  [k \in DOMAIN winners |->
           [pot_index |-> pot.pot_index, player |-> winners[k],
            amount |-> pot.won[winners[k]]]]

(* The rows of a pot award to every seat what the submission names. *)
LEMMA RowsOfPay ==
    ASSUME NEW pot, pot.pot_index \in Nat, pot.won \in [Seats -> Nat]
    PROVE  /\ RowsOf(pot) \in Seq(PayoutRow)
           /\ \A s \in Seats : Share(RowsOf(pot), s) = pot.won[s]
<1>1. PICK W \in SUBSET Seats : W = PotWinners(pot)
  BY DEF PotWinners
<1>2. PICK n, q : n = Cardinality(W) /\ q = InOrder(W)
  OBVIOUS
<1>3. W \in SUBSET Nat /\ IsFiniteSet(W)
  BY SeatsAssumption, FS_Subset
<1>4. /\ n \in Nat /\ q \in [1..n -> W]
      /\ \A i, j \in 1..n : i < j => q[i] < q[j]
      /\ \A x \in W : \E i \in 1..n : q[i] = x
  BY <1>2, <1>3, InOrderLists
<1>5. PICK rows : rows = RowsOf(pot)
  OBVIOUS
<1>6. rows = [k \in 1..n |-> [pot_index |-> pot.pot_index, player |-> q[k],
                              amount |-> pot.won[q[k]]]]
  BY <1>1, <1>2, <1>4, <1>5 DEF RowsOf
<1>7. /\ rows \in [1..n -> PayoutRow] /\ DOMAIN rows = 1..n
      /\ \A k \in 1..n : rows[k].player = q[k] /\ rows[k].amount = pot.won[q[k]]
  <2>1. \A k \in 1..n : q[k] \in Seats /\ pot.won[q[k]] \in Nat
    BY <1>4
  <2> QED
    BY <1>6, <2>1 DEF PayoutRow
<1>8. rows \in Seq(PayoutRow)
  BY <1>4, <1>7, FunctionIsSeq
<1>10. ASSUME NEW s \in Seats  PROVE Share(rows, s) = pot.won[s]
  <2>0. s \in Nat
    BY SeatsAssumption
  <2>1. PICK f : f = ShareOf(rows, s)
    OBVIOUS
  <2>2. /\ f \in [1..n -> Nat]
        /\ \A k \in 1..n : f[k] = IF q[k] = s THEN pot.won[s] ELSE 0
    <3>1. f = [j \in 1..n |-> IF rows[j].player = s THEN rows[j].amount ELSE 0]
      BY <1>7, <2>1 DEF ShareOf
    <3>2. \A k \in 1..n : f[k] = IF q[k] = s THEN pot.won[s] ELSE 0
      BY <1>7, <3>1
    <3> QED
      BY <3>1, <3>2
  <2>3. IsFiniteSet(1..n)
    BY <1>4, FS_Interval
  <2>4. CASE s \in W
    <3>1. PICK x \in 1..n : q[x] = s
      BY <1>4, <2>4
    <3>2. \A k \in 1..n : k # x => q[k] # s
      <4> SUFFICES ASSUME NEW k \in 1..n, k # x, q[k] = s  PROVE FALSE
        OBVIOUS
      <4>1. k < x \/ x < k
        BY <1>4
      <4>2. q[k] < q[x] \/ q[x] < q[k]
        BY <1>4, <4>1
      <4> QED
        BY <2>0, <3>1, <4>2
    <3>3. SumFunction(f) = f[x]
      <4>1. \A k \in 1..n : k # x => f[k] = 0
        BY <2>2, <3>2
      <4> QED
        BY <2>2, <2>3, <4>1, SumOfOne
    <3> QED
      BY <2>1, <2>2, <3>1, <3>3 DEF Share
  <2>5. CASE s \notin W
    <3>1. pot.won[s] = 0
      BY <1>1, <2>5 DEF PotWinners
    <3>2. \A k \in 1..n : f[k] = 0
      BY <2>2, <3>1
    <3>3. SumFunction(f) = 0
      BY <2>2, <2>3, <3>2, SumFunctionZero
    <3> QED
      BY <2>1, <3>1, <3>3 DEF Share
  <2> QED
    BY <2>4, <2>5
<1> QED
  BY <1>5, <1>8, <1>10

(* Rows after rows award what both award. *)
LEMMA ShareConcat ==
    ASSUME NEW a \in Seq(PayoutRow), NEW b \in Seq(PayoutRow), NEW s \in Seats
    PROVE  /\ a \o b \in Seq(PayoutRow)
           /\ Share(a \o b, s) = Share(a, s) + Share(b, s)
           /\ ShareOf(a, s) \in [1..Len(a) -> Nat]
<1>1. PICK m \in Nat, n \in Nat : m = Len(a) /\ n = Len(b)
  OBVIOUS
<1>c. PICK c : c = a \o b
  OBVIOUS
<1>2. /\ c \in Seq(PayoutRow) /\ Len(c) = m + n
      /\ \A i \in 1..m : c[i] = a[i]
      /\ \A j \in 1..n : c[m + j] = b[j]
  BY <1>1, <1>c
<1>3. /\ DOMAIN a = 1..m /\ DOMAIN b = 1..n /\ DOMAIN c = 1..(m + n)
      /\ \A i \in 1..m : a[i] \in PayoutRow
      /\ \A i \in 1..n : b[i] \in PayoutRow
      /\ \A i \in 1..(m + n) : c[i] \in PayoutRow
  BY <1>1, <1>2
<1>4. PICK fa, fb, fc : fa = ShareOf(a, s) /\ fb = ShareOf(b, s) /\ fc = ShareOf(c, s)
  OBVIOUS
<1>5. \A r \in PayoutRow : r.amount \in Nat
  BY DEF PayoutRow
<1>6. /\ fa \in [1..m -> Nat]
      /\ \A i \in 1..m : fa[i] = IF a[i].player = s THEN a[i].amount ELSE 0
  BY <1>3, <1>4, <1>5 DEF ShareOf
<1>7. /\ fb \in [1..n -> Nat]
      /\ \A i \in 1..n : fb[i] = IF b[i].player = s THEN b[i].amount ELSE 0
  BY <1>3, <1>4, <1>5 DEF ShareOf
<1>8. /\ fc \in [1..(m + n) -> Nat]
      /\ \A i \in 1..(m + n) : fc[i] = IF c[i].player = s THEN c[i].amount ELSE 0
  BY <1>3, <1>4, <1>5 DEF ShareOf
<1>9. \A i \in 1..m : fc[i] = fa[i]
  <2>1. \A i \in 1..m : i \in 1..(m + n)
    OBVIOUS
  <2> QED
    BY <1>2, <1>6, <1>8, <2>1
<1>10. \A j \in 1..n : fc[m + j] = fb[j]
  <2>1. \A j \in 1..n : m + j \in 1..(m + n)
    OBVIOUS
  <2> QED
    BY <1>2, <1>7, <1>8, <2>1
<1>11. SumFunction(fc) = SumFunction(fa) + SumFunction(fb)
  BY <1>6, <1>7, <1>8, <1>9, <1>10, SumConcat
<1> QED
  BY <1>1, <1>c, <1>2, <1>4, <1>6, <1>11 DEF Share

(* round_payouts: all rows of a submission together award to every seat    *)
(* what resolve_hand adds to its stack.                                    *)
LEMMA PayoutRowsPay ==
    ASSUME NEW payouts \in PayoutRequest, payouts # <<>>
    PROVE  /\ PayoutRows(payouts) \in Seq(PayoutRow)
           /\ \A s \in Seats : Share(PayoutRows(payouts), s) = Winnings(payouts, s)
<1>1. PICK m \in Nat : m = Len(payouts)
  BY DEF PayoutRequest
<1>2. m # 0 /\ DOMAIN payouts = 1..m
  BY <1>1 DEF PayoutRequest
<1>3. \A i \in 1..m : payouts[i].pot_index \in Nat /\ payouts[i].won \in [Seats -> Nat]
  <2>1. PICK R : R = [pot_index: Nat, amount: Nat \ {0}, won: [Seats -> Nat]]
    OBVIOUS
  <2>2. payouts \in Seq(R)
    BY <2>1 DEF PayoutRequest
  <2>3. \A i \in 1..m : payouts[i] \in R
    BY <1>2, <2>2
  <2> QED
    BY <2>1, <2>3
<1>4. PICK q : q = [i \in 1..m |-> RowsOf(payouts[i])]
  OBVIOUS
<1>5. /\ q \in [1..m -> Seq(PayoutRow)]
      /\ \A i \in 1..m : \A s \in Seats : Share(q[i], s) = payouts[i].won[s]
  BY <1>3, <1>4, RowsOfPay
<1>6. Len(q) = m
  BY <1>5, FunctionIsSeq
<1>7. PayoutRows(payouts) = FlattenSeq(q)
  BY <1>2, <1>4 DEF PayoutRows, RowsOf
<1>8. PICK g : IsFlat(g, q, m) /\ FlattenSeq(q) = g[m]
  BY <1>2, <1>6, FlattenSteps
<1>9. \A i \in 1..m : g[i] = IF i = 1 THEN q[i] ELSE g[i - 1] \o q[i]
  BY <1>8, FlatUnfold
<1> DEFINE won == [s \in Seats |-> [i \in 0..m |-> [k \in 1..i |-> payouts[k].won[s]]]]
           Good(i) == /\ g[i] \in Seq(PayoutRow)
                      /\ \A s \in Seats : Share(g[i], s) = SumFunction(won[s][i])
           Bad == {i \in 1..m : ~Good(i)}
<1>10. /\ \A s \in Seats : \A i \in 0..m : won[s][i] \in [1..i -> Nat]
       /\ \A s \in Seats : \A i \in 0..m : \A k \in 1..i :
             won[s][i][k] = payouts[k].won[s]
       /\ \A s \in Seats : Winnings(payouts, s) = SumFunction(won[s][m])
  <2>1. \A s \in Seats : \A k \in 1..m : payouts[k].won[s] \in Nat
    BY <1>3
  <2>2. \A s \in Seats : \A i \in 0..m : \A k \in 1..i : k \in 1..m
    OBVIOUS
  <2>3. \A s \in Seats : won[s][m] = [k \in DOMAIN payouts |-> payouts[k].won[s]]
    BY <1>2
  <2> QED
    BY <2>1, <2>2, <2>3 DEF Winnings
<1> HIDE DEF won
<1>11. SUFFICES ASSUME Bad # {}  PROVE FALSE
  <2>1. m \in 1..m
    BY <1>2
  <2>2. Good(m)
    BY <1>11, <2>1
  <2> QED
    BY <1>7, <1>8, <1>10, <2>2
<1>12. PICK i \in Bad : \A j \in Bad : i <= j
  <2>1. Bad \in SUBSET Nat
    OBVIOUS
  <2> HIDE DEF Bad
  <2> QED
    BY <1>11, <2>1, MinNat
<1>13. i \in 1..m /\ i \in 0..m
  OBVIOUS
<1>n. ~Good(i)
  OBVIOUS
<1>14. CASE i = 1
  <2>1. g[i] = q[i] /\ g[i] \in Seq(PayoutRow)
    BY <1>5, <1>9, <1>13, <1>14
  <2>2. ASSUME NEW s \in Seats  PROVE Share(g[i], s) = SumFunction(won[s][i])
    <3>1. PICK f \in [1..i -> Nat] : f = won[s][i]
      BY <1>10, <1>13
    <3>2. f[1] = payouts[1].won[s]
      BY <1>10, <1>13, <1>14, <3>1
    <3>3. 1 \in 1..i /\ \A k \in 1..i : k # 1 => f[k] = 0
      BY <1>13, <1>14
    <3>4. IsFiniteSet(1..i)
      BY <1>13, FS_Interval
    <3>5. SumFunction(f) = f[1]
      BY <3>3, <3>4, SumOfOne
    <3> QED
      BY <1>5, <1>13, <1>14, <2>1, <3>1, <3>2, <3>5
  <2> QED
    BY <1>n, <2>1, <2>2
<1>15. CASE i # 1
  <2>1. PICK p \in 1..m : i = p + 1
    BY <1>13, <1>15
  <2>2. Good(p)
    BY <1>12, <2>1
  <2>3. g[i] = g[p] \o q[i] /\ q[i] \in Seq(PayoutRow)
    <3>1. g[i] = g[i - 1] \o q[i]
      BY <1>9, <1>13, <1>15
    <3>2. i - 1 = p
      BY <2>1
    <3> QED
      BY <1>5, <1>13, <3>1, <3>2
  <2>4. g[i] \in Seq(PayoutRow)
    BY <2>2, <2>3
  <2>5. ASSUME NEW s \in Seats  PROVE Share(g[i], s) = SumFunction(won[s][i])
    <3>1. Share(g[i], s) = Share(g[p], s) + Share(q[i], s)
      BY <2>2, <2>3, ShareConcat
    <3>2. PICK f, r : f = won[s][i] /\ r = won[s][p]
      OBVIOUS
    <3>3. f \in [1..(p + 1) -> Nat] /\ r \in [1..p -> Nat] /\ p \in Nat
      BY <1>10, <1>13, <2>1, <3>2
    <3>4. \A k \in 1..p : r[k] = f[k]
      <4>1. \A k \in 1..p : k \in 1..i
        BY <2>1
      <4> QED
        BY <1>10, <1>13, <2>1, <3>2, <4>1
    <3>5. f[p + 1] = payouts[i].won[s]
      BY <1>10, <1>13, <2>1, <3>2
    <3>6. SumFunction(f) = SumFunction(r) + f[p + 1]
      BY <3>3, <3>4, SumSnoc
    <3> QED
      BY <1>5, <1>13, <2>2, <3>1, <3>2, <3>5, <3>6
  <2> QED
    BY <1>n, <2>4, <2>5
<1> QED
  BY <1>14, <1>15
-----------------------------------------------------------------------------
(* What one entry changes                                                  *)

LedgerEntry ==
    [type: EntryTypes, player: Seats \cup {NoSeat}, amount: Int, original: Nat,
     old_player: Seats \cup {NoSeat}, old_amount: Int]

(* An entry as the commands make it. *)
LEMMA EntryTyped ==
    ASSUME NEW t \in EntryTypes, NEW p \in Seats \cup {NoSeat}, NEW x \in Int,
           NEW e, e = Entry(t, p, x)
    PROVE  /\ e \in LedgerEntry
           /\ e.type = t /\ e.player = p /\ e.amount = x /\ e.original = 0
BY DEF Entry, LedgerEntry, NoSeat, NoEntry

LEMMA ReplayedColumns ==
    ASSUME NEW r \in Replayed
    PROVE  /\ r.committed \in [Seats -> Int] /\ r.won \in [Seats -> Int]
           /\ r.adjusted \in [Seats -> Int] /\ r.pot \in Int
           /\ r.players \in SUBSET Seats
           /\ r.is_completed \in BOOLEAN /\ r.is_reopened \in BOOLEAN
BY DEF Replayed

LEMMA PlusTyped ==
    ASSUME NEW f \in [Seats -> Int], NEW p, NEW x \in Int
    PROVE  /\ Plus(f, p, x) \in [Seats -> Int]
           /\ \A s \in Seats : Plus(f, p, x)[s] = IF s = p THEN f[s] + x ELSE f[s]
BY DEF Plus

LEMMA NothingTyped == NothingReplayed \in Replayed
<1>1. PICK no \in BOOLEAN : no = FALSE
  OBVIOUS
<1>2. PICK zero : zero = [s \in Seats |-> 0]
  OBVIOUS
<1>z. zero \in [Seats -> Int]
  BY <1>2
<1>3. NothingReplayed = [players |-> {}, committed |-> zero, won |-> zero,
                         adjusted |-> zero, pot |-> 0,
                         is_completed |-> no, is_reopened |-> no]
  BY <1>1, <1>2 DEF NothingReplayed
<1> QED
  BY <1>z, <1>3 DEF Replayed

(* m says what r says, except perhaps of commitments and pot, of winnings, *)
(* of adjustments, and of completion.                                      *)
SameBets(m, r) == m.committed = r.committed /\ m.pot = r.pot
SameWins(m, r) == m.won = r.won
SameAdjustments(m, r) == m.adjusted = r.adjusted
SameEnd(m, r) == m.is_completed = r.is_completed /\ m.is_reopened = r.is_reopened

(* A post or a bet, and its reversal, move commitments and the pot. *)
LEMMA BetApplied ==
    ASSUME NEW r \in Replayed, NEW e \in LedgerEntry, NEW m, m = ApplyEntry(r, e),
           NEW x \in Int,
           \/ e.type \in CommitTypes /\ x = e.amount
           \/ e.type = "ACTION_REVERSED" /\ x = -e.amount
    PROVE  /\ m \in Replayed
           /\ m.committed = Plus(r.committed, e.player, x) /\ m.pot = r.pot + x
           /\ SameWins(m, r) /\ SameAdjustments(m, r) /\ SameEnd(m, r)
<1>1. PICK c, y, z : c = Plus(r.committed, e.player, x) /\ y = r.pot + x
                     /\ z = r.players \cup ({e.player, e.old_player} \ {NoSeat})
  OBVIOUS
<1>2. e.amount \in Int /\ {e.player, e.old_player} \ {NoSeat} \subseteq Seats
  BY DEF LedgerEntry
<1>3. c \in [Seats -> Int] /\ y \in Int /\ z \in SUBSET Seats
  BY <1>1, <1>2, ReplayedColumns, PlusTyped
<1>4. m = [r EXCEPT !.players = z, !.committed = c, !.pot = y]
  <2>1. CASE e.type \in CommitTypes /\ x = e.amount
    BY <1>1, <1>2, <2>1 DEF ApplyEntry, CommitTypes, Replayed
  <2>2. CASE e.type = "ACTION_REVERSED" /\ x = -e.amount
    <3>1. r.pot - e.amount = y
      BY <1>1, <1>2, <2>2, ReplayedColumns
    <3> QED
      BY <1>1, <2>2, <3>1 DEF ApplyEntry, CommitTypes, Replayed
  <2> QED
    BY <2>1, <2>2
<1> QED
  BY <1>1, <1>3, <1>4 DEF Replayed, SameWins, SameAdjustments, SameEnd

(* A payout, and the correction of one, move winnings. *)
LEMMA PayoutApplied ==
    ASSUME NEW r \in Replayed, NEW e \in LedgerEntry, NEW m, m = ApplyEntry(r, e),
           NEW w,
           \/ e.type = "PAYOUT_AWARDED" /\ w = Plus(r.won, e.player, e.amount)
           \/ e.type = "PAYOUT_CORRECTED"
              /\ w = Plus(Plus(r.won, e.old_player, -e.old_amount), e.player, e.amount)
    PROVE  /\ m \in Replayed /\ m.won = w
           /\ SameBets(m, r) /\ SameAdjustments(m, r) /\ SameEnd(m, r)
<1>1. PICK z : z = r.players \cup ({e.player, e.old_player} \ {NoSeat})
  OBVIOUS
<1>2. e.amount \in Int /\ -e.old_amount \in Int
      /\ {e.player, e.old_player} \ {NoSeat} \subseteq Seats
  BY DEF LedgerEntry
<1>3. w \in [Seats -> Int] /\ z \in SUBSET Seats
  BY <1>1, <1>2, ReplayedColumns, PlusTyped
<1>4. m = [r EXCEPT !.players = z, !.won = w]
  BY <1>1 DEF ApplyEntry, CommitTypes, Replayed
<1> QED
  BY <1>3, <1>4 DEF Replayed, SameBets, SameAdjustments, SameEnd

(* An adjustment is kept apart. *)
LEMMA AdjustmentApplied ==
    ASSUME NEW r \in Replayed, NEW e \in LedgerEntry, NEW m, m = ApplyEntry(r, e),
           e.type = "STACK_ADJUSTED"
    PROVE  /\ m \in Replayed /\ m.adjusted = Plus(r.adjusted, e.player, e.amount)
           /\ SameBets(m, r) /\ SameWins(m, r) /\ SameEnd(m, r)
<1>1. PICK a, z : a = Plus(r.adjusted, e.player, e.amount)
                  /\ z = r.players \cup ({e.player, e.old_player} \ {NoSeat})
  OBVIOUS
<1>2. e.amount \in Int /\ {e.player, e.old_player} \ {NoSeat} \subseteq Seats
  BY DEF LedgerEntry
<1>3. a \in [Seats -> Int] /\ z \in SUBSET Seats
  BY <1>1, <1>2, ReplayedColumns, PlusTyped
<1>4. m = [r EXCEPT !.players = z, !.adjusted = a]
  BY <1>1 DEF ApplyEntry, CommitTypes, Replayed
<1> QED
  BY <1>1, <1>3, <1>4 DEF Replayed, SameBets, SameWins, SameEnd

(* The end of the hand and its reopening move no chips. *)
LEMMA EndApplied ==
    ASSUME NEW r \in Replayed, NEW e \in LedgerEntry, NEW m, m = ApplyEntry(r, e),
           e.type \in {"ROUND_COMPLETED", "HAND_REOPENED"}
    PROVE  /\ m \in Replayed
           /\ SameBets(m, r) /\ SameWins(m, r) /\ SameAdjustments(m, r)
           /\ m.is_completed = (e.type = "ROUND_COMPLETED")
           /\ m.is_reopened = (r.is_reopened \/ e.type = "HAND_REOPENED")
<1>1. PICK yes \in BOOLEAN, no \in BOOLEAN : yes = TRUE /\ no = FALSE
  OBVIOUS
<1>2. PICK z : z = r.players \cup ({e.player, e.old_player} \ {NoSeat})
  OBVIOUS
<1>3. z \in SUBSET Seats
  <2>1. {e.player, e.old_player} \ {NoSeat} \subseteq Seats
    BY DEF LedgerEntry
  <2> QED
    BY <1>2, <2>1, ReplayedColumns
<1>4. CASE e.type = "ROUND_COMPLETED"
  <2>1. m = [r EXCEPT !.players = z, !.is_completed = yes]
    BY <1>1, <1>2, <1>4 DEF ApplyEntry, CommitTypes, Replayed
  <2>2. /\ m \in Replayed
        /\ SameBets(m, r) /\ SameWins(m, r) /\ SameAdjustments(m, r)
        /\ m.is_completed = yes /\ m.is_reopened = r.is_reopened
    BY <1>3, <2>1 DEF Replayed, SameBets, SameWins, SameAdjustments
  <2>3. r.is_reopened \in BOOLEAN
    BY ReplayedColumns
  <2> QED
    BY <1>1, <1>4, <2>2, <2>3, Zenon
<1>5. CASE e.type = "HAND_REOPENED"
  <2>1. m = [r EXCEPT !.players = z, !.is_completed = no, !.is_reopened = yes]
    BY <1>1, <1>2, <1>5 DEF ApplyEntry, CommitTypes, Replayed
  <2>2. /\ m \in Replayed
        /\ SameBets(m, r) /\ SameWins(m, r) /\ SameAdjustments(m, r)
        /\ m.is_completed = no /\ m.is_reopened = yes
    BY <1>3, <2>1 DEF Replayed, SameBets, SameWins, SameAdjustments
  <2>3. e.type # "ROUND_COMPLETED"
    BY <1>5
  <2> QED
    BY <1>1, <1>5, <2>2, <2>3, Zenon
<1> QED
  BY <1>4, <1>5
-----------------------------------------------------------------------------
(* What the entries of a settlement change                                 *)

LEMMA PayoutRowTyped ==
    ASSUME NEW rows \in Seq(PayoutRow), NEW j \in 1..Len(rows)
    PROVE  /\ rows[j].player \in Seats /\ rows[j].amount \in Nat
           /\ Entry("PAYOUT_AWARDED", rows[j].player, rows[j].amount) \in LedgerEntry
<1>1. rows[j] \in PayoutRow
  OBVIOUS
<1>2. rows[j].player \in Seats /\ rows[j].amount \in Nat
  BY <1>1 DEF PayoutRow
<1>3. "PAYOUT_AWARDED" \in EntryTypes
  BY DEF EntryTypes
<1> QED
  BY <1>2, <1>3, EntryTyped

(* e is the n entries of l, then one PAYOUT_AWARDED for each of k rows. *)
Awarding(e, l, n, rows, k) ==
    /\ DOMAIN l = 1..n /\ l = [i \in 1..n |-> l[i]]
    /\ DOMAIN e = 1..(n + k) /\ e = [i \in 1..(n + k) |-> e[i]]
    /\ \A i \in 1..n : e[i] = l[i]
    /\ \A j \in 1..k : e[n + j] = Entry("PAYOUT_AWARDED", rows[j].player, rows[j].amount)

(* m differs from r only in that every seat s has won the sum of w[s] more. *)
WonMore(m, r, w) ==
    /\ m \in Replayed
    /\ SameBets(m, r) /\ SameAdjustments(m, r) /\ SameEnd(m, r)
    /\ \A s \in Seats : m.won[s] = r.won[s] + SumFunction(w[s])

(* The share of every seat in the first j rows. *)
FirstShares(rows, j) == [s \in Seats |-> [i \in 1..j |-> ShareOf(rows, s)[i]]]

LEMMA SharesTyped ==
    ASSUME NEW rows \in Seq(PayoutRow), NEW k \in Nat, k = Len(rows), NEW s \in Seats
    PROVE  /\ ShareOf(rows, s) \in [1..k -> Nat]
           /\ \A i \in 1..k : ShareOf(rows, s)[i] =
                                IF rows[i].player = s THEN rows[i].amount ELSE 0
           /\ FirstShares(rows, k)[s] = ShareOf(rows, s)
           /\ \A j \in 0..k : FirstShares(rows, j)[s] \in [1..j -> Nat]
           /\ \A j \in 0..k : \A i \in 1..j :
                 FirstShares(rows, j)[s][i] = ShareOf(rows, s)[i]
<1>1. PICK f : f = ShareOf(rows, s)
  OBVIOUS
<1>2. f \in [1..k -> Nat]
      /\ \A i \in 1..k : f[i] = IF rows[i].player = s THEN rows[i].amount ELSE 0
  <2>1. \A i \in 1..k : rows[i].amount \in Nat
    BY PayoutRowTyped
  <2>2. DOMAIN rows = 1..k
    OBVIOUS
  <2> QED
    BY <1>1, <2>1, <2>2 DEF ShareOf
<1>3. \A j \in 0..k : FirstShares(rows, j)[s] = [i \in 1..j |-> f[i]]
  BY <1>1 DEF FirstShares
<1>4. FirstShares(rows, k)[s] = f
  BY <1>2, <1>3
<1>5. \A j \in 0..k : FirstShares(rows, j)[s] \in [1..j -> Nat]
  <2> SUFFICES ASSUME NEW j \in 0..k  PROVE FirstShares(rows, j)[s] \in [1..j -> Nat]
    OBVIOUS
  <2>1. \A i \in 1..j : f[i] \in Nat
    BY <1>2
  <2>2. [i \in 1..j |-> f[i]] \in [1..j -> Nat]
    BY <2>1
  <2> QED
    BY <1>3, <2>2
<1>6. \A j \in 0..k : \A i \in 1..j : FirstShares(rows, j)[s][i] = f[i]
  BY <1>3
<1> QED
  BY <1>1, <1>2, <1>4, <1>5, <1>6

(* One more PAYOUT_AWARDED. *)
LEMMA WonOneMore ==
    ASSUME NEW rows \in Seq(PayoutRow), NEW k \in Nat, k = Len(rows),
           NEW p \in Nat, NEW j \in 1..k, j = p + 1,
           NEW r \in Replayed, NEW mp, WonMore(mp, r, FirstShares(rows, p)),
           NEW m, m = ApplyEntry(mp, Entry("PAYOUT_AWARDED", rows[j].player, rows[j].amount))
    PROVE  WonMore(m, r, FirstShares(rows, j))
<1>1. PICK x : x = Entry("PAYOUT_AWARDED", rows[j].player, rows[j].amount)
  OBVIOUS
<1>2. /\ x \in LedgerEntry /\ x.type = "PAYOUT_AWARDED"
      /\ x.player = rows[j].player /\ x.amount = rows[j].amount
      /\ rows[j].player \in Seats /\ rows[j].amount \in Nat
  BY <1>1, PayoutRowTyped DEF Entry
<1>3. /\ mp \in Replayed
      /\ SameBets(mp, r) /\ SameAdjustments(mp, r) /\ SameEnd(mp, r)
      /\ \A s \in Seats : mp.won[s] = r.won[s] + SumFunction(FirstShares(rows, p)[s])
  BY DEF WonMore
<1>4. PICK w : w = Plus(mp.won, x.player, x.amount)
  OBVIOUS
<1>5. /\ m \in Replayed /\ m.won = w
      /\ SameBets(m, mp) /\ SameAdjustments(m, mp) /\ SameEnd(m, mp)
  BY <1>1, <1>2, <1>3, <1>4, PayoutApplied
<1>6. ASSUME NEW s \in Seats
      PROVE  m.won[s] = r.won[s] + SumFunction(FirstShares(rows, j)[s])
  <2>1. PICK f, d : f = FirstShares(rows, j)[s] /\ d = FirstShares(rows, p)[s]
    OBVIOUS
  <2>0. p \in 0..k /\ j \in 0..k /\ j \in 1..j /\ \A i \in 1..p : i \in 1..j
    OBVIOUS
  <2>2. f \in [1..(p + 1) -> Nat] /\ d \in [1..p -> Nat]
    BY <2>0, <2>1, SharesTyped
  <2>3. \A i \in 1..p : d[i] = f[i]
    BY <2>0, <2>1, SharesTyped
  <2>4. f[p + 1] = IF rows[j].player = s THEN rows[j].amount ELSE 0
    <3>1. f[j] = ShareOf(rows, s)[j]
      BY <2>0, <2>1, SharesTyped
    <3> QED
      BY <3>1, SharesTyped
  <2>5. SumFunction(f) = SumFunction(d) + f[p + 1]
    BY <2>2, <2>3, SumSnoc
  <2>6. SumFunction(d) \in Nat
    <3>1. IsFiniteSet(1..p)
      BY FS_Interval
    <3> QED
      BY <2>2, <3>1, SumFunctionNat
  <2>7. mp.won \in [Seats -> Int] /\ r.won[s] \in Int
    BY <1>3, ReplayedColumns
  <2>8. w[s] = IF s = x.player THEN mp.won[s] + x.amount ELSE mp.won[s]
    BY <1>4 DEF Plus
  <2>9. mp.won[s] = r.won[s] + SumFunction(d)
    BY <1>3, <2>1
  <2> QED
    BY <1>2, <1>5, <2>1, <2>4, <2>5, <2>6, <2>7, <2>8, <2>9, SMTT(30)
<1> QED
  BY <1>3, <1>5, <1>6 DEF WonMore, SameBets, SameAdjustments, SameEnd

(* One PAYOUT_AWARDED for every row: every seat wins its share. *)
LEMMA PayoutsReplayed ==
    ASSUME NEW l, NEW n \in Nat, NEW rows \in Seq(PayoutRow), NEW k \in Nat, k = Len(rows),
           NEW e, Awarding(e, l, n, rows, k),
           NEW r \in Replayed, r = RebuildHandState(l), NEW m, m = RebuildHandState(e)
    PROVE  /\ m \in Replayed
           /\ SameBets(m, r) /\ SameAdjustments(m, r) /\ SameEnd(m, r)
           /\ \A s \in Seats : m.won[s] = r.won[s] + Share(rows, s)
<1> DEFINE cut == [j \in 0..k |-> [i \in 1..(n + j) |-> e[i]]]
           M == [j \in 0..k |-> RebuildHandState(cut[j])]
           Bad == {j \in 0..k : ~WonMore(M[j], r, FirstShares(rows, j))}
<1>1. /\ \A j \in 0..k : DOMAIN cut[j] = 1..(n + j)
      /\ \A j \in 0..k : \A i \in 1..(n + j) : cut[j][i] = e[i]
      /\ \A j \in 0..k : M[j] = RebuildHandState(cut[j])
  OBVIOUS
<1>2. cut[k] = e /\ cut[0] = l
  <2>1. cut[k] = [i \in 1..(n + k) |-> e[i]]
    OBVIOUS
  <2>2. cut[0] = [i \in 1..n |-> e[i]]
    OBVIOUS
  <2> HIDE DEF cut
  <2> QED
    BY <2>1, <2>2 DEF Awarding
<1> HIDE DEF cut, M
<1>3. k \in 0..k /\ 0 \in 0..k
  OBVIOUS
<1>4. SUFFICES ASSUME Bad # {}  PROVE FALSE
  <2>1. WonMore(M[k], r, FirstShares(rows, k))
    BY <1>3, <1>4
  <2>2. M[k] = m
    BY <1>1, <1>2, <1>3
  <2>3. \A s \in Seats : SumFunction(FirstShares(rows, k)[s]) = Share(rows, s)
    BY SharesTyped DEF Share
  <2> QED
    BY <2>1, <2>2, <2>3 DEF WonMore
<1>5. PICK j \in Bad : \A i \in Bad : j <= i
  <2>1. Bad \in SUBSET Nat
    OBVIOUS
  <2> HIDE DEF Bad
  <2> QED
    BY <1>4, <2>1, MinNat
<1>6. j \in 0..k /\ ~WonMore(M[j], r, FirstShares(rows, j))
  OBVIOUS
<1>7. j # 0
  <2> SUFFICES ASSUME j = 0  PROVE FALSE
    OBVIOUS
  <2>1. M[j] = r
    BY <1>1, <1>2, <1>6
  <2>2. ASSUME NEW s \in Seats
        PROVE  r.won[s] = r.won[s] + SumFunction(FirstShares(rows, j)[s])
    <3>1. PICK z, E : z = FirstShares(rows, j)[s] /\ E = 1..j
      OBVIOUS
    <3>2. z \in [E -> Nat] /\ E = {}
      BY <1>6, <3>1, SharesTyped
    <3>3. IsFiniteSet(E)
      BY <3>2, FS_EmptySet
    <3>4. SumFunction(z) = 0
      BY <3>2, <3>3, SumFunctionZero
    <3>5. r.won[s] \in Int
      BY ReplayedColumns
    <3> QED
      BY <3>1, <3>4, <3>5
  <2> QED
    BY <1>6, <2>1, <2>2 DEF WonMore, SameBets, SameAdjustments, SameEnd
<1>8. PICK p \in 0..k : j = p + 1
  BY <1>6, <1>7
<1>9. WonMore(M[p], r, FirstShares(rows, p))
  BY <1>5, <1>8
<1> HIDE DEF Bad
<1>10. j \in 1..k /\ p \in Nat
  BY <1>6, <1>7
<1>11. M[j] = ApplyEntry(M[p], Entry("PAYOUT_AWARDED", rows[j].player, rows[j].amount))
  <2>1. PICK q \in Nat : q = n + p
    OBVIOUS
  <2>2. q + 1 = n + j /\ n + j \in 1..(n + j)
    BY <1>8, <1>10, <2>1
  <2>3. cut[j][q + 1] = Entry("PAYOUT_AWARDED", rows[j].player, rows[j].amount)
    <3>1. cut[j][n + j] = e[n + j]
      BY <1>1, <1>6, <2>2
    <3>2. e[n + j] = Entry("PAYOUT_AWARDED", rows[j].player, rows[j].amount)
      BY <1>10 DEF Awarding
    <3> QED
      BY <2>2, <3>1, <3>2
  <2>4. DOMAIN cut[p] = 1..q /\ DOMAIN cut[j] = 1..(q + 1)
    BY <1>1, <1>6, <2>1, <2>2
  <2>5. \A i \in 1..q : cut[j][i] = cut[p][i]
    <3>1. \A i \in 1..q : i \in 1..(n + p) /\ i \in 1..(n + j)
      BY <1>8, <2>1
    <3> QED
      BY <1>1, <1>6, <3>1
  <2>6. PICK a, b : a = cut[p] /\ b = cut[j]
    OBVIOUS
  <2>7. RebuildHandState(b) = ApplyEntry(RebuildHandState(a), b[q + 1])
    BY <2>4, <2>5, <2>6, ReplayAppend
  <2> QED
    BY <1>1, <1>6, <2>3, <2>6, <2>7
<1>12. WonMore(M[j], r, FirstShares(rows, j))
  <2>1. PICK a, b : a = M[p] /\ b = M[j]
    OBVIOUS
  <2>2. WonMore(a, r, FirstShares(rows, p))
        /\ b = ApplyEntry(a, Entry("PAYOUT_AWARDED", rows[j].player, rows[j].amount))
    BY <1>9, <1>11, <2>1
  <2>3. WonMore(b, r, FirstShares(rows, j))
    BY <1>8, <1>10, <2>2, WonOneMore
  <2> QED
    BY <2>1, <2>3
<1> QED
  BY <1>6, <1>12

-----------------------------------------------------------------------------
(* What the first entries say                                              *)

(* Of the seats q the first k have posted what c names, nothing else has   *)
(* happened.                                                               *)
PostedUpTo(r, q, c, k) ==
    /\ r \in Replayed /\ r.committed \in [Seats -> Nat]
    /\ \A s \in Seats : r.committed[s] = IF \E i \in 1..k : q[i] = s THEN c[s] ELSE 0
    /\ r.pot = SumFunction(r.committed)
    /\ SameWins(r, NothingReplayed) /\ SameAdjustments(r, NothingReplayed)
    /\ SameEnd(r, NothingReplayed)

(* The entries start_round writes: one post per seat that committed chips. *)
IsPosting(l, n, q, c) ==
    /\ n \in Nat /\ q \in [1..n -> Seats]
    /\ \A i, j \in 1..n : i < j => q[i] < q[j]
    /\ \A s \in Seats : c[s] > 0 => \E i \in 1..n : q[i] = s
    /\ DOMAIN l = 1..n /\ l = [i \in 1..n |-> l[i]]
    /\ \A i \in 1..n : \E t \in CommitTypes : l[i] = Entry(t, q[i], c[q[i]])

(* One more posting. *)
LEMMA PostedOneMore ==
    ASSUME NEW l, NEW n, NEW q, NEW c \in [Seats -> Nat], IsPosting(l, n, q, c),
           NEW p \in Nat, NEW k \in 1..n, k = p + 1,
           NEW rp, PostedUpTo(rp, q, c, p), NEW r, r = ApplyEntry(rp, l[k])
    PROVE  PostedUpTo(r, q, c, k)
<1>0. /\ n \in Nat /\ q \in [1..n -> Seats]
      /\ \A i, j \in 1..n : i < j => q[i] < q[j]
      /\ \E t \in CommitTypes : l[k] = Entry(t, q[k], c[q[k]])
  BY DEF IsPosting
<1>t. PICK t \in CommitTypes : l[k] = Entry(t, q[k], c[q[k]])
  BY <1>0
<1>1. PICK x, seat : x = Entry(t, q[k], c[q[k]]) /\ seat = q[k] /\ l[k] = x
  BY <1>t
<1>2. seat \in Seats /\ c[seat] \in Nat /\ t \in EntryTypes
  BY <1>0, <1>1 DEF EntryTypes
<1>3. x \in LedgerEntry /\ x.type = t /\ x.player = seat /\ x.amount = c[seat]
  BY <1>1, <1>2, EntryTyped
<1>4. /\ rp \in Replayed /\ rp.committed \in [Seats -> Nat]
      /\ \A s \in Seats : rp.committed[s] = IF \E i \in 1..p : q[i] = s THEN c[s] ELSE 0
      /\ rp.pot = SumFunction(rp.committed)
      /\ SameWins(rp, NothingReplayed) /\ SameAdjustments(rp, NothingReplayed)
      /\ SameEnd(rp, NothingReplayed)
  BY DEF PostedUpTo
<1>5. /\ r \in Replayed
      /\ r.committed = Plus(rp.committed, seat, c[seat]) /\ r.pot = rp.pot + c[seat]
      /\ SameWins(r, rp) /\ SameAdjustments(r, rp) /\ SameEnd(r, rp)
  <2>1. PICK d \in Int : d = x.amount
    BY <1>2, <1>3
  <2>2. x.type \in CommitTypes
    BY <1>3
  <2>3. r = ApplyEntry(rp, x)
    BY <1>1
  <2>4. /\ r \in Replayed
        /\ r.committed = Plus(rp.committed, x.player, d) /\ r.pot = rp.pot + d
        /\ SameWins(r, rp) /\ SameAdjustments(r, rp) /\ SameEnd(r, rp)
    BY <1>3, <1>4, <2>1, <2>2, <2>3, BetApplied
  <2> QED
    BY <1>3, <2>1, <2>4
<1>6. \A i \in 1..p : q[i] # seat
  <2> SUFFICES ASSUME NEW i \in 1..p  PROVE q[i] # seat
    OBVIOUS
  <2>1. i \in 1..n /\ i < k
    BY <1>0
  <2>2. q[i] < q[k]
    BY <1>0, <2>1
  <2>3. seat \in Nat
    BY <1>2, SeatsAssumption
  <2> QED
    BY <1>1, <2>2, <2>3
<1>7. rp.committed[seat] = 0
  BY <1>2, <1>4, <1>6
<1>8. r.committed = [rp.committed EXCEPT ![seat] = @ + c[seat]]
  BY <1>2, <1>4, <1>5 DEF Plus
<1>9. r.committed \in [Seats -> Nat]
  <2>1. PICK f \in [Seats -> Nat], d \in Nat : f = rp.committed /\ d = c[seat]
    BY <1>2, <1>4
  <2>2. [f EXCEPT ![seat] = @ + d] \in [Seats -> Nat]
    BY <1>2
  <2> QED
    BY <1>8, <2>1, <2>2
<1>10. ASSUME NEW s \in Seats
       PROVE  r.committed[s] = IF \E i \in 1..k : q[i] = s THEN c[s] ELSE 0
  <2>1. CASE s = seat
    <3>1. k \in 1..k /\ q[k] = s
      BY <1>1, <2>1
    <3>2. r.committed[s] = c[s]
      BY <1>2, <1>4, <1>7, <1>8, <2>1
    <3> QED
      BY <3>1, <3>2
  <2>2. CASE s # seat
    <3>1. r.committed[s] = rp.committed[s]
      BY <1>4, <1>8, <2>2
    <3>2. (\E i \in 1..k : q[i] = s) <=> (\E i \in 1..p : q[i] = s)
      <4>1. \A i \in 1..k : i \in 1..p \/ i = k
        OBVIOUS
      <4>2. \A i \in 1..p : i \in 1..k
        OBVIOUS
      <4> QED
        BY <1>1, <2>2, <4>1, <4>2
    <3> QED
      BY <1>4, <3>1, <3>2
  <2> QED
    BY <2>1, <2>2
<1>11. r.pot = SumFunction(r.committed)
  <2>1. PICK f \in [Seats -> Nat], g \in [Seats -> Nat] : f = rp.committed /\ g = r.committed
    BY <1>4, <1>9
  <2>2. \A s \in Seats : s # seat => g[s] = f[s]
    BY <1>2, <1>8, <2>1
  <2>3. IsFiniteSet(Seats) /\ seat \in Seats
    BY <1>2, SeatsAssumption
  <2>4. SumFunction(g) + f[seat] = SumFunction(f) + g[seat]
    <3>1. DifferAt(g, f, Seats, seat)
      BY <2>2, <2>3 DEF DifferAt
    <3> QED
      BY ONLY <3>1, SumChange
  <2>5. f[seat] = 0 /\ g[seat] = c[seat]
    BY <1>2, <1>7, <1>8, <2>1
  <2>6. SumFunction(f) \in Nat /\ SumFunction(g) \in Nat
    BY <2>3, SumFunctionNat
  <2> QED
    BY <1>2, <1>4, <1>5, <2>1, <2>4, <2>5, <2>6
<1> QED
  BY <1>4, <1>5, <1>9, <1>10, <1>11
     DEF PostedUpTo, SameWins, SameAdjustments, SameEnd

LEMMA PostingEntriesPost ==
    ASSUME NEW h, NEW c \in [Seats -> Nat], c = h.committed_this_hand,
           NEW pos, NEW l, l = PostingEntries(h, pos)
    PROVE  \E n, q : IsPosting(l, n, q, c)
<1>1. PICK S \in SUBSET Seats : S = {s \in Seats : c[s] > 0}
  OBVIOUS
<1>2. PICK n, q : n = Cardinality(S) /\ q = InOrder(S)
  OBVIOUS
<1>3. S \in SUBSET Nat /\ IsFiniteSet(S)
  BY SeatsAssumption, FS_Subset
<1>4. /\ n \in Nat /\ q \in [1..n -> S]
      /\ \A i, j \in 1..n : i < j => q[i] < q[j]
      /\ \A x \in S : \E i \in 1..n : q[i] = x
  BY <1>2, <1>3, InOrderLists
<1>5. DOMAIN q = 1..n /\ q \in [1..n -> Seats]
  BY <1>4
<1>6. l = [i \in 1..n |->
             Entry(IF q[i] \in {pos.sb, pos.bb} THEN "BLIND_POSTED" ELSE "ANTE_POSTED",
                   q[i], c[q[i]])]
  BY <1>1, <1>2, <1>5 DEF PostingEntries
<1>7. \A i \in 1..n : \E t \in CommitTypes : l[i] = Entry(t, q[i], c[q[i]])
  <2> SUFFICES ASSUME NEW i \in 1..n
               PROVE  \E t \in CommitTypes : l[i] = Entry(t, q[i], c[q[i]])
    OBVIOUS
  <2>1. PICK t \in CommitTypes :
           t = IF q[i] \in {pos.sb, pos.bb} THEN "BLIND_POSTED" ELSE "ANTE_POSTED"
    BY DEF CommitTypes
  <2>2. l[i] = Entry(t, q[i], c[q[i]])
    BY <1>6, <2>1
  <2> QED
    BY <2>2
<1>8. \A s \in Seats : c[s] > 0 => \E i \in 1..n : q[i] = s
  BY <1>1, <1>4
<1>9. DOMAIN l = 1..n /\ l = [i \in 1..n |-> l[i]]
  BY <1>6
<1>10. IsPosting(l, n, q, c)
  BY <1>4, <1>5, <1>7, <1>8, <1>9 DEF IsPosting
<1> QED
  BY <1>10

(* Replayed, they say what every seat posted. *)
LEMMA PostingsReplayed ==
    ASSUME NEW l, NEW n, NEW q, NEW c \in [Seats -> Nat], IsPosting(l, n, q, c),
           NEW r, r = RebuildHandState(l)
    PROVE  /\ r \in Replayed /\ r.committed = c /\ r.pot = SumFunction(c)
           /\ SameWins(r, NothingReplayed) /\ SameAdjustments(r, NothingReplayed)
           /\ SameEnd(r, NothingReplayed)
<1>0. /\ n \in Nat /\ q \in [1..n -> Seats]
      /\ \A i, j \in 1..n : i < j => q[i] < q[j]
      /\ \A s \in Seats : c[s] > 0 => \E i \in 1..n : q[i] = s
      /\ DOMAIN l = 1..n /\ l = [i \in 1..n |-> l[i]]
      /\ \A i \in 1..n : \E t \in CommitTypes : l[i] = Entry(t, q[i], c[q[i]])
  BY DEF IsPosting
<1> DEFINE cut == [j \in 0..n |-> [i \in 1..j |-> l[i]]]
           M == [j \in 0..n |-> RebuildHandState(cut[j])]
           Bad == {j \in 0..n : ~PostedUpTo(M[j], q, c, j)}
<1>1. /\ \A j \in 0..n : DOMAIN cut[j] = 1..j
      /\ \A j \in 0..n : \A i \in 1..j : cut[j][i] = l[i]
      /\ \A j \in 0..n : M[j] = RebuildHandState(cut[j])
  OBVIOUS
<1>2. cut[n] = l
  <2>1. cut[n] = [i \in 1..n |-> l[i]]
    BY <1>0
  <2> QED
    BY <1>0, <2>1
<1> HIDE DEF cut, M
<1>3. n \in 0..n /\ 0 \in 0..n
  BY <1>0
<1>4. SUFFICES ASSUME Bad # {}  PROVE FALSE
  <2>1. PostedUpTo(M[n], q, c, n)
    BY <1>3, <1>4
  <2>2. M[n] = r
    BY <1>1, <1>2, <1>3
  <2>3. /\ r \in Replayed /\ r.committed \in [Seats -> Nat]
        /\ \A s \in Seats : r.committed[s] = IF \E i \in 1..n : q[i] = s THEN c[s] ELSE 0
        /\ r.pot = SumFunction(r.committed)
        /\ SameWins(r, NothingReplayed) /\ SameAdjustments(r, NothingReplayed)
        /\ SameEnd(r, NothingReplayed)
    BY <2>1, <2>2 DEF PostedUpTo
  <2>4. \A s \in Seats : r.committed[s] = c[s]
    BY <1>0, <2>3
  <2>5. r.committed = c
    BY <2>3, <2>4
  <2> QED
    BY <2>3, <2>5
<1>5. PICK j \in Bad : \A i \in Bad : j <= i
  <2>1. Bad \in SUBSET Nat
    BY <1>0
  <2> HIDE DEF Bad
  <2> QED
    BY <1>4, <2>1, MinNat
<1>6. j \in 0..n /\ ~PostedUpTo(M[j], q, c, j)
  OBVIOUS
<1>6a. j \in Nat /\ j <= n
  <2> HIDE DEF Bad
  <2> QED
    BY <1>0, <1>6
<1>7. j # 0
  <2> SUFFICES ASSUME j = 0  PROVE FALSE
    OBVIOUS
  <2>1. PICK e : e = cut[0]
    OBVIOUS
  <2>2. DOMAIN e = {}
    BY <1>1, <1>3, <2>1
  <2>3. RebuildHandState(e) = NothingReplayed
    BY <2>2, ReplayEmpty
  <2>4. M[j] = NothingReplayed
    BY <1>1, <1>3, <2>1, <2>3
  <2>5. PICK zero : zero = [s \in Seats |-> 0]
    OBVIOUS
  <2>6. zero \in [Seats -> Nat] /\ \A s \in Seats : zero[s] = 0
    BY <2>5
  <2>7. NothingReplayed.committed = zero /\ NothingReplayed.pot = 0
    BY <2>5 DEF NothingReplayed
  <2>8. SumFunction(zero) = 0
    BY <2>6, SeatsAssumption, SumFunctionZero
  <2>9. \A s \in Seats : ~\E i \in 1..0 : q[i] = s
    OBVIOUS
  <2>10. PostedUpTo(NothingReplayed, q, c, 0)
    BY <2>6, <2>7, <2>8, <2>9, NothingTyped
       DEF PostedUpTo, SameWins, SameAdjustments, SameEnd
  <2> QED
    BY <1>6, <2>4, <2>10
<1>8. PICK p \in 0..n : j = p + 1
  <2>1. j - 1 \in 0..n /\ j = (j - 1) + 1
    BY ONLY <1>6a, <1>7, <1>0
  <2> HIDE DEF Bad
  <2> QED
    BY ONLY <2>1
<1>9. PostedUpTo(M[p], q, c, p)
  BY <1>0, <1>5, <1>8
<1> HIDE DEF Bad
<1>10. j \in 1..n /\ p \in Nat
  BY <1>0, <1>6, <1>7
<1>12. PICK a, b : a = cut[p] /\ b = cut[j]
  OBVIOUS
<1>13. /\ DOMAIN a = 1..p /\ DOMAIN b = 1..(p + 1)
       /\ \A i \in 1..p : b[i] = a[i]
       /\ b[p + 1] = l[j]
  <2>1. j \in 1..j /\ \A i \in 1..p : i \in 1..j
    BY <1>8, <1>10
  <2>2. DOMAIN a = 1..p /\ DOMAIN b = 1..(p + 1)
    BY <1>1, <1>6, <1>8, <1>12
  <2>3. \A i \in 1..p : b[i] = a[i]
    BY <1>1, <1>6, <1>12, <2>1
  <2>4. b[p + 1] = l[j]
    BY <1>1, <1>6, <1>8, <1>12, <2>1
  <2> QED
    BY <2>2, <2>3, <2>4
<1>14. RebuildHandState(b) = ApplyEntry(RebuildHandState(a), b[p + 1])
  BY <1>10, <1>13, ReplayAppend
<1>15. PICK x, y : x = M[p] /\ y = M[j]
  OBVIOUS
<1>16. y = ApplyEntry(x, l[j]) /\ PostedUpTo(x, q, c, p)
  <2>1. x = RebuildHandState(a) /\ y = RebuildHandState(b)
    BY <1>1, <1>6, <1>12, <1>15
  <2> QED
    BY <1>9, <1>13, <1>14, <1>15, <2>1
<1>17. PostedUpTo(y, q, c, j)
  <2>1. PICK k \in 1..n : k = j
    BY <1>10
  <2>2. p \in Nat /\ k = p + 1 /\ y = ApplyEntry(x, l[k])
    BY <1>8, <1>10, <1>16, <2>1
  <2>3. PostedUpTo(y, q, c, k)
    BY <1>16, <2>2, PostedOneMore
  <2> QED
    BY <2>1, <2>3
<1> QED
  BY <1>6, <1>15, <1>17
-----------------------------------------------------------------------------
(* The invariant                                                           *)

(* What the commands make of entry i of a ledger: only corrections carry   *)
(* negative amounts, chips are committed by a seat, and a reversal names   *)
(* an earlier entry.                                                       *)
EntrySound(e, i) ==
    /\ e \in LedgerEntry
    /\ e.type \notin CorrectionTypes => e.amount \in Nat
    /\ e.type \in CommitTypes => e.player \in Seats
    /\ e.type = "ACTION_REVERSED" => e.original \in 1..(i - 1)
    /\ e.type # "ACTION_REVERSED" => e.original = 0

LedgerSound(l) ==
    l \in Seq(LedgerEntry) /\ \A i \in 1..Len(l) : EntrySound(l[i], i)

ReversedOf(l) ==
    {l[i].original : i \in {k \in DOMAIN l : l[k].type = "ACTION_REVERSED"}}

OnlyBetsReversed(l) == \A i \in ReversedOf(l) : l[i].type \in CommitTypes

(* The posts and bets of seat s that stand, entry by entry. *)
StandingOf(l, s) ==
    [i \in DOMAIN l |->
       IF l[i].type \in CommitTypes /\ l[i].player = s /\ i \notin ReversedOf(l)
       THEN l[i].amount ELSE 0]
Standing(l, s) == SumFunction(StandingOf(l, s))

(* The replay r accounts for the stacks of h, dealt as d. *)
StacksExplained(h, d, r) ==
    \A s \in Seats : h.stack_remaining[s] = d[s] - r.committed[s] + r.won[s] + r.adjusted[s]

(* It has the pot and the commitments of h; the commitments add up to the  *)
(* pot, and every one of them is the sum of the entries that stand, which  *)
(* is why taking one of those back never meets a clamp.                    *)
PotExplained(h, l, r) ==
    /\ r.pot = h.pot_amount /\ r.committed = h.committed_this_hand
    /\ h.pot_amount = SumFunction(h.committed_this_hand)
    /\ \A s \in Seats : h.committed_this_hand[s] = Standing(l, s)

Explained(h, d, l, r) ==
    /\ h \in HandState /\ d \in [Seats -> Nat] /\ LedgerSound(l)
    /\ r = RebuildHandState(l) /\ r \in Replayed
    /\ StacksExplained(h, d, r)
    /\ OnlyBetsReversed(l) => PotExplained(h, l, r)
    /\ r.is_completed = (h.status = "COMPLETED")

LedgerInv ==
    /\ Explained(hand, dealt, ledger, RebuildHandState(ledger))
    /\ payout_rows \in Seq(PayoutRow)
    /\ counted = IF Completions = {} THEN 0 ELSE 1

-----------------------------------------------------------------------------
(* A ledger that grows                                                     *)

(* What is known of the places and the standing entries of a ledger. *)
LEMMA LedgerPlaces ==
    ASSUME NEW l, LedgerSound(l), NEW n, n = Len(l)
    PROVE  /\ n \in Nat /\ DOMAIN l = 1..n /\ l = [i \in 1..n |-> l[i]]
           /\ \A i \in 1..n : EntrySound(l[i], i) /\ l[i] \in LedgerEntry
           /\ \A i \in ReversedOf(l) : i \in 1..n
           /\ \A s \in Seats : StandingOf(l, s) \in [1..n -> Nat]
           /\ \A s \in Seats : Standing(l, s) \in Nat
<1>1. l \in Seq(LedgerEntry) /\ \A i \in 1..n : EntrySound(l[i], i)
  BY DEF LedgerSound
<1>2. n \in Nat /\ DOMAIN l = 1..n /\ l = [i \in 1..n |-> l[i]]
  BY <1>1
<1>3. \A i \in 1..n : l[i] \in LedgerEntry
  BY <1>1, <1>2
<1>4. \A i \in ReversedOf(l) : i \in 1..n
  <2> SUFFICES ASSUME NEW k \in 1..n, l[k].type = "ACTION_REVERSED"
               PROVE  l[k].original \in 1..n
    BY <1>2 DEF ReversedOf
  <2>1. l[k].original \in 1..(k - 1)
    BY <1>1 DEF EntrySound
  <2> QED
    BY <1>2, <2>1
<1>5. ASSUME NEW s \in Seats  PROVE StandingOf(l, s) \in [1..n -> Nat]
  <2>1. \A i \in 1..n : l[i].type \in CommitTypes => l[i].amount \in Nat
    BY <1>1 DEF EntrySound, CommitTypes, CorrectionTypes
  <2> QED
    BY <1>2, <2>1 DEF StandingOf
<1>6. ASSUME NEW s \in Seats  PROVE Standing(l, s) \in Nat
  <2>1. PICK D : D = 1..n
    OBVIOUS
  <2>2. IsFiniteSet(D)
    BY <1>2, <2>1, FS_Interval
  <2>3. StandingOf(l, s) \in [D -> Nat]
    BY <1>5, <2>1
  <2> QED
    BY <2>2, <2>3, SumFunctionNat DEF Standing
<1> QED
  BY <1>1, <1>2, <1>3, <1>4, <1>5, <1>6

(* e is the ledger l followed by the k entries p. *)
Grown(e, l, n, p, k) ==
    /\ LedgerSound(l) /\ n = Len(l)
    /\ k \in Nat /\ p \in [1..k -> LedgerEntry]
    /\ \A j \in 1..k : EntrySound(p[j], 1) /\ p[j].type # "ACTION_REVERSED"
    /\ e \in Seq(LedgerEntry) /\ Len(e) = n + k
    /\ \A i \in 1..n : e[i] = l[i]
    /\ \A j \in 1..k : e[n + j] = p[j]

(* Entries that reverse nothing leave what stands as it was. *)
LEMMA GrownSound ==
    ASSUME NEW e, NEW l, NEW n, NEW p, NEW k, Grown(e, l, n, p, k)
    PROVE  /\ LedgerSound(e) /\ ReversedOf(e) = ReversedOf(l)
           /\ OnlyBetsReversed(e) <=> OnlyBetsReversed(l)
           /\ \A s \in Seats : \A i \in 1..n : StandingOf(e, s)[i] = StandingOf(l, s)[i]
           /\ \A s \in Seats : \A j \in 1..k :
                 StandingOf(e, s)[n + j] =
                    IF p[j].type \in CommitTypes /\ p[j].player = s THEN p[j].amount ELSE 0
<1>1. /\ LedgerSound(l) /\ n = Len(l) /\ k \in Nat
      /\ \A j \in 1..k : EntrySound(p[j], 1) /\ p[j].type # "ACTION_REVERSED"
      /\ e \in Seq(LedgerEntry) /\ Len(e) = n + k
      /\ \A i \in 1..n : e[i] = l[i]
      /\ \A j \in 1..k : e[n + j] = p[j]
  BY DEF Grown
<1>2. /\ n \in Nat /\ DOMAIN l = 1..n /\ \A i \in 1..n : EntrySound(l[i], i)
      /\ \A i \in ReversedOf(l) : i \in 1..n
  BY <1>1, LedgerPlaces
<1>3. DOMAIN e = 1..(n + k)
  BY <1>1
<1>4. \A i \in 1..(n + k) : i \in 1..n \/ \E j \in 1..k : i = n + j
  <2> SUFFICES ASSUME NEW i \in 1..(n + k), i \notin 1..n
               PROVE  \E j \in 1..k : i = n + j
    OBVIOUS
  <2>1. i - n \in 1..k /\ i = n + (i - n)
    BY <1>1, <1>2
  <2> QED
    BY <2>1
<1>5. \A i \in 1..n : i \in 1..(n + k)
  BY <1>1, <1>2
<1>6. \A j \in 1..k : n + j \in 1..(n + k) /\ n + j \notin 1..n
  BY <1>1, <1>2
<1>7. LedgerSound(e)
  <2> SUFFICES ASSUME NEW i \in 1..(n + k)  PROVE EntrySound(e[i], i)
    BY <1>1 DEF LedgerSound
  <2>1. CASE i \in 1..n
    BY <1>1, <1>2, <2>1
  <2>2. CASE \E j \in 1..k : i = n + j
    <3>1. PICK j \in 1..k : i = n + j
      BY <2>2
    <3>2. e[i] = p[j] /\ EntrySound(p[j], 1) /\ p[j].type # "ACTION_REVERSED"
      BY <1>1, <3>1
    <3> QED
      BY <3>2 DEF EntrySound
  <2> QED
    BY <1>4, <2>1, <2>2
<1>8. {i \in DOMAIN e : e[i].type = "ACTION_REVERSED"}
        = {i \in DOMAIN l : l[i].type = "ACTION_REVERSED"}
  <2>1. ASSUME NEW i \in 1..(n + k), e[i].type = "ACTION_REVERSED"  PROVE i \in 1..n
    <3> SUFFICES ASSUME NEW j \in 1..k, i = n + j  PROVE FALSE
      BY <1>4
    <3>1. e[n + j] = p[j] /\ p[j].type # "ACTION_REVERSED"
      BY <1>1
    <3> QED
      BY <2>1, <3>1
  <2> QED
    BY <1>1, <1>2, <1>3, <1>5, <2>1, SMTT(30)
<1>9. ReversedOf(e) = ReversedOf(l)
  <2>1. PICK R : R = {i \in DOMAIN l : l[i].type = "ACTION_REVERSED"}
    OBVIOUS
  <2>2. \A i \in R : e[i] = l[i]
    BY <1>1, <1>2, <2>1
  <2>3. ReversedOf(l) = {l[i].original : i \in R} /\ ReversedOf(e) = {e[i].original : i \in R}
    BY <1>8, <2>1 DEF ReversedOf
  <2> QED
    BY <2>2, <2>3
<1>10. OnlyBetsReversed(e) <=> OnlyBetsReversed(l)
  BY <1>1, <1>2, <1>9 DEF OnlyBetsReversed
<1>11. ASSUME NEW s \in Seats, NEW i \in 1..n
       PROVE  StandingOf(e, s)[i] = StandingOf(l, s)[i]
  BY <1>1, <1>2, <1>3, <1>5, <1>9 DEF StandingOf
<1>12. ASSUME NEW s \in Seats, NEW j \in 1..k
       PROVE  StandingOf(e, s)[n + j] =
                 IF p[j].type \in CommitTypes /\ p[j].player = s THEN p[j].amount ELSE 0
  <2>1. PICK i \in 1..(n + k) : i = n + j
    BY <1>6
  <2>2. i \notin ReversedOf(e)
    BY <1>2, <1>6, <1>9, <2>1
  <2>3. e[i] = p[j]
    BY <1>1, <2>1
  <2>4. StandingOf(e, s)[i] =
           IF p[j].type \in CommitTypes /\ p[j].player = s THEN p[j].amount ELSE 0
    BY <1>3, <2>2, <2>3 DEF StandingOf
  <2> QED
    BY <2>1, <2>4
<1> QED
  BY <1>7, <1>9, <1>10, <1>11, <1>12

(* One more entry that reverses nothing. *)
LEMMA EntryAppended ==
    ASSUME NEW l, LedgerSound(l), NEW x, EntrySound(x, 1), x.type # "ACTION_REVERSED",
           NEW e, e = Append(l, x)
    PROVE  /\ LedgerSound(e) /\ (OnlyBetsReversed(e) <=> OnlyBetsReversed(l))
           /\ RebuildHandState(e) = ApplyEntry(RebuildHandState(l), x)
           /\ \A s \in Seats :
                 Standing(e, s) = Standing(l, s)
                    + IF x.type \in CommitTypes /\ x.player = s THEN x.amount ELSE 0
<1>1. PICK n : n = Len(l)
  OBVIOUS
<1>2. /\ n \in Nat /\ DOMAIN l = 1..n /\ l \in Seq(LedgerEntry)
      /\ \A s \in Seats : StandingOf(l, s) \in [1..n -> Nat]
  BY <1>1, LedgerPlaces DEF LedgerSound
<1>3. x \in LedgerEntry
  BY DEF EntrySound
<1>4. /\ e \in Seq(LedgerEntry) /\ Len(e) = n + 1 /\ DOMAIN e = 1..(n + 1)
      /\ \A i \in 1..n : e[i] = l[i]
      /\ e[n + 1] = x
  BY <1>1, <1>2, <1>3
<1>5. PICK p : p = [j \in 1..1 |-> x]
  OBVIOUS
<1>6. p \in [1..1 -> LedgerEntry] /\ p[1] = x /\ 1 \in 1..1 /\ \A j \in 1..1 : j = 1
  BY <1>3, <1>5
<1>7. Grown(e, l, n, p, 1)
  BY <1>1, <1>4, <1>6 DEF Grown
<1>8. /\ LedgerSound(e) /\ (OnlyBetsReversed(e) <=> OnlyBetsReversed(l))
      /\ \A s \in Seats : \A i \in 1..n : StandingOf(e, s)[i] = StandingOf(l, s)[i]
      /\ \A s \in Seats :
            StandingOf(e, s)[n + 1] =
               IF x.type \in CommitTypes /\ x.player = s THEN x.amount ELSE 0
  <2>1. /\ LedgerSound(e) /\ (OnlyBetsReversed(e) <=> OnlyBetsReversed(l))
        /\ \A s \in Seats : \A i \in 1..n : StandingOf(e, s)[i] = StandingOf(l, s)[i]
        /\ \A s \in Seats : \A j \in 1..1 :
              StandingOf(e, s)[n + j] =
                 IF p[j].type \in CommitTypes /\ p[j].player = s THEN p[j].amount ELSE 0
    BY <1>7, GrownSound
  <2> QED
    BY <1>6, <2>1
<1>9. RebuildHandState(e) = ApplyEntry(RebuildHandState(l), x)
  BY <1>2, <1>4, ReplayAppend
<1>10. ASSUME NEW s \in Seats
       PROVE  Standing(e, s) = Standing(l, s)
                 + IF x.type \in CommitTypes /\ x.player = s THEN x.amount ELSE 0
  <2>1. PICK m : m = Len(e)
    OBVIOUS
  <2>2. StandingOf(e, s) \in [1..m -> Nat]
    BY ONLY <1>8, <2>1, s \in Seats, LedgerPlaces
  <2>3. PICK f, r : f = StandingOf(e, s) /\ r = StandingOf(l, s)
    OBVIOUS
  <2>4. f \in [1..(n + 1) -> Nat] /\ r \in [1..n -> Nat] /\ \A i \in 1..n : r[i] = f[i]
    BY <1>2, <1>4, <1>8, <2>1, <2>2, <2>3
  <2>5. SumFunction(f) = SumFunction(r) + f[n + 1]
    BY <1>2, <2>4, SumSnoc
  <2> QED
    BY <1>8, <2>3, <2>5 DEF Standing
<1> QED
  BY <1>8, <1>9, <1>10

(* Nothing was reversed and the hand not reopened. *)
Untouched(l) ==
    \A i \in DOMAIN l : l[i].type \notin {"ACTION_REVERSED", "HAND_REOPENED"}

(* The amounts the ledger paid, entry by entry. *)
Paid(l) == [i \in DOMAIN l |-> IF l[i].type = "PAYOUT_AWARDED" THEN l[i].amount ELSE 0]

(* The amounts of rows of round_payouts. *)
RowAmounts(rows) == [i \in DOMAIN rows |-> rows[i].amount]

LEMMA PaidTyped ==
    ASSUME NEW l, LedgerSound(l), NEW n, n = Len(l)
    PROVE  /\ n \in Nat /\ DOMAIN l = 1..n /\ Paid(l) \in [1..n -> Nat]
           /\ \A i \in 1..n :
                 Paid(l)[i] = IF l[i].type = "PAYOUT_AWARDED" THEN l[i].amount ELSE 0
<1>1. /\ n \in Nat /\ DOMAIN l = 1..n
      /\ \A i \in 1..n : EntrySound(l[i], i)
  BY LedgerPlaces
<1>2. \A i \in 1..n : l[i].type = "PAYOUT_AWARDED" => l[i].amount \in Nat
  BY <1>1 DEF EntrySound, CorrectionTypes
<1> QED
  BY ONLY <1>1, <1>2 DEF Paid

LEMMA RowAmountsTyped ==
    ASSUME NEW rows \in Seq(PayoutRow), NEW k, k = Len(rows)
    PROVE  /\ k \in Nat /\ DOMAIN rows = 1..k /\ RowAmounts(rows) \in [1..k -> Nat]
           /\ \A i \in 1..k : RowAmounts(rows)[i] = rows[i].amount
<1>1. k \in Nat /\ DOMAIN rows = 1..k
  OBVIOUS
<1>2. \A i \in 1..k : rows[i].amount \in Nat
  BY PayoutRowTyped
<1> QED
  BY ONLY <1>1, <1>2 DEF RowAmounts

(* Entries of other types pay nothing. *)
LEMMA PaidAppended ==
    ASSUME NEW l, LedgerSound(l), NEW x \in LedgerEntry, x.type # "PAYOUT_AWARDED",
           NEW e, e = Append(l, x), LedgerSound(e)
    PROVE  /\ SumFunction(Paid(e)) = SumFunction(Paid(l))
           /\ Untouched(e) => Untouched(l)
           /\ Untouched(e) => x.type \notin {"ACTION_REVERSED", "HAND_REOPENED"}
<1>1. PICK n, m : n = Len(l) /\ m = Len(e)
  OBVIOUS
<1>2. /\ n \in Nat /\ DOMAIN l = 1..n /\ Paid(l) \in [1..n -> Nat]
      /\ \A i \in 1..n :
            Paid(l)[i] = IF l[i].type = "PAYOUT_AWARDED" THEN l[i].amount ELSE 0
  BY <1>1, PaidTyped
<1>3. /\ m = n + 1 /\ (\A i \in 1..n : e[i] = l[i]) /\ e[n + 1] = x
  BY <1>1, <1>2 DEF LedgerSound
<1>4. /\ DOMAIN e = 1..(n + 1) /\ Paid(e) \in [1..(n + 1) -> Nat]
      /\ \A i \in 1..(n + 1) :
            Paid(e)[i] = IF e[i].type = "PAYOUT_AWARDED" THEN e[i].amount ELSE 0
  <2>1. /\ DOMAIN e = 1..m /\ Paid(e) \in [1..m -> Nat]
        /\ \A i \in 1..m :
              Paid(e)[i] = IF e[i].type = "PAYOUT_AWARDED" THEN e[i].amount ELSE 0
    BY ONLY <1>1, LedgerSound(e), PaidTyped
  <2> QED
    BY ONLY <1>3, <2>1
<1>5. n + 1 \in 1..(n + 1) /\ \A i \in 1..n : i \in 1..(n + 1)
  BY <1>2
<1>6. PICK f, r : f = Paid(e) /\ r = Paid(l)
  OBVIOUS
<1>7. /\ f \in [1..(n + 1) -> Nat] /\ r \in [1..n -> Nat]
      /\ \A i \in 1..n : r[i] = f[i]
      /\ f[n + 1] = 0
  BY ONLY <1>2, <1>3, <1>4, <1>5, <1>6, x.type # "PAYOUT_AWARDED"
<1>8. SumFunction(f) = SumFunction(r) + f[n + 1]
  BY ONLY <1>2, <1>7, SumSnoc
<1>9. SumFunction(r) \in Nat
  <2>1. 1 \in Int /\ n \in Int
    BY <1>2
  <2>2. IsFiniteSet(1..n)
    BY ONLY <2>1, FS_Interval
  <2> QED
    BY ONLY <1>7, <2>2, SumFunctionNat
<1>10. SumFunction(Paid(e)) = SumFunction(Paid(l))
  BY ONLY <1>6, <1>7, <1>8, <1>9
<1>11. Untouched(e) => Untouched(l)
  BY ONLY <1>2, <1>3, <1>4, <1>5 DEF Untouched
<1>12. Untouched(e) => x.type \notin {"ACTION_REVERSED", "HAND_REOPENED"}
  BY ONLY <1>3, <1>4, <1>5 DEF Untouched
<1> QED
  BY <1>10, <1>11, <1>12

(* e is the ledger l after a settlement of the hand h. *)
Settling(e, l, h, payouts) ==
    /\ h.pot_amount \in Nat /\ payouts \in PayoutRequest /\ payouts # <<>>
    /\ e = l \o PayoutEntries(h, payouts)

(* Every chip of it goes to a winner, and nothing else is replayed.        *)
Settled(e, l, m, r, payouts) ==
    /\ LedgerSound(e) /\ (OnlyBetsReversed(e) <=> OnlyBetsReversed(l))
    /\ \A s \in Seats : Standing(e, s) = Standing(l, s)
    /\ m \in Replayed /\ SameBets(m, r) /\ SameAdjustments(m, r)
    /\ m.is_completed = TRUE
    /\ \A s \in Seats : m.won[s] = r.won[s] + Winnings(payouts, s)
    /\ Len(e) \in DOMAIN e /\ e[Len(e)].type = "ROUND_COMPLETED"
    /\ SumFunction(Paid(e))
          = SumFunction(Paid(l)) + SumFunction(RowAmounts(PayoutRows(payouts)))
    /\ Untouched(e) => Untouched(l)

(* Every settlement is of that kind. *)
LEMMA SettlementAppended ==
    ASSUME NEW l, LedgerSound(l), NEW r, r = RebuildHandState(l), r \in Replayed,
           NEW h, NEW payouts, NEW e, Settling(e, l, h, payouts),
           NEW m, m = RebuildHandState(e)
    PROVE  Settled(e, l, m, r, payouts)
<1>0. /\ h.pot_amount \in Nat /\ payouts \in PayoutRequest /\ payouts # <<>>
      /\ e = l \o PayoutEntries(h, payouts)
  BY DEF Settling
<1>1. PICK n, rows, k : n = Len(l) /\ rows = PayoutRows(payouts) /\ k = Len(rows)
  OBVIOUS
<1>2. /\ n \in Nat /\ DOMAIN l = 1..n /\ l = [i \in 1..n |-> l[i]] /\ l \in Seq(LedgerEntry)
      /\ \A s \in Seats : StandingOf(l, s) \in [1..n -> Nat]
  BY <1>1, LedgerPlaces DEF LedgerSound
<1>3. /\ rows \in Seq(PayoutRow) /\ k \in Nat /\ DOMAIN rows = 1..k
      /\ \A s \in Seats : Share(rows, s) = Winnings(payouts, s)
  <2>1. rows \in Seq(PayoutRow) /\ \A s \in Seats : Share(rows, s) = Winnings(payouts, s)
    BY <1>0, <1>1, PayoutRowsPay
  <2> QED
    BY <1>1, <2>1
<1>4. PICK p : p = [j \in 1..k |-> Entry("PAYOUT_AWARDED", rows[j].player, rows[j].amount)]
  OBVIOUS
<1>5. ASSUME NEW j \in 1..k
      PROVE  /\ p[j] \in LedgerEntry /\ EntrySound(p[j], 1)
             /\ p[j].type = "PAYOUT_AWARDED"
  <2>1. p[j] = Entry("PAYOUT_AWARDED", rows[j].player, rows[j].amount)
    BY <1>4
  <2>2. rows[j].player \in Seats /\ rows[j].amount \in Nat
    BY <1>1, <1>3, PayoutRowTyped
  <2>3. "PAYOUT_AWARDED" \in EntryTypes
    BY DEF EntryTypes
  <2>4. /\ p[j] \in LedgerEntry /\ p[j].type = "PAYOUT_AWARDED"
        /\ p[j].amount = rows[j].amount /\ p[j].original = 0
    BY <2>1, <2>2, <2>3, EntryTyped
  <2> QED
    BY <2>2, <2>4 DEF EntrySound, CommitTypes
<1>6. p \in [1..k -> LedgerEntry] /\ p \in Seq(LedgerEntry) /\ Len(p) = k
  <2>1. p \in [1..k -> LedgerEntry]
    BY <1>4, <1>5
  <2> QED
    BY <1>3, <2>1, FunctionIsSeq
<1>7. PICK x : x = Entry("ROUND_COMPLETED", NoSeat, h.pot_amount)
  OBVIOUS
<1>8. EntrySound(x, 1) /\ x \in LedgerEntry /\ x.type = "ROUND_COMPLETED"
  <2>1. "ROUND_COMPLETED" \in EntryTypes
    BY DEF EntryTypes
  <2>2. /\ x \in LedgerEntry /\ x.type = "ROUND_COMPLETED" /\ x.amount = h.pot_amount
        /\ x.original = 0
    <3>1. PICK a \in Int, none \in Seats \cup {NoSeat} : a = h.pot_amount /\ none = NoSeat
      BY <1>0
    <3>2. x = Entry("ROUND_COMPLETED", none, a)
      BY <1>7, <3>1
    <3>3. /\ x \in LedgerEntry /\ x.type = "ROUND_COMPLETED" /\ x.amount = a
          /\ x.original = 0
      BY ONLY <2>1, <3>2, a \in Int, none \in Seats \cup {NoSeat}, EntryTyped
    <3> QED
      BY <3>1, <3>3
  <2> QED
    BY <1>0, <2>2 DEF EntrySound, CommitTypes
<1>9. PICK q : q = l \o p
  OBVIOUS
<1>10. e = Append(q, x)
  <2>1. PayoutEntries(h, payouts) = Append(p, x)
    BY <1>1, <1>3, <1>4, <1>7 DEF PayoutEntries
  <2>2. l \o Append(p, x) = Append(l \o p, x)
    <3>1. l \in Seq(LedgerEntry) /\ p \in Seq(LedgerEntry) /\ x \in LedgerEntry
      BY <1>2, <1>6, <1>8
    <3> QED
      BY ONLY <3>1, AppendConcat
  <2> QED
    BY <1>0, <1>9, <2>1, <2>2
<1>11. /\ q \in Seq(LedgerEntry) /\ Len(q) = n + k /\ DOMAIN q = 1..(n + k)
       /\ \A i \in 1..n : q[i] = l[i]
       /\ \A j \in 1..k : q[n + j] = p[j]
  <2>1. n \in Nat /\ k \in Nat
    BY <1>2, <1>3
  <2>2. l \in Seq(LedgerEntry) /\ p \in Seq(LedgerEntry) /\ n = Len(l) /\ k = Len(p)
    BY <1>1, <1>2, <1>6
  <2>3. q \in Seq(LedgerEntry) /\ Len(q) = n + k /\ DOMAIN q = 1..(n + k)
    BY ONLY <1>9, <2>1, <2>2
  <2>4. \A i \in 1..n : q[i] = l[i]
    BY ONLY <1>9, <2>1, <2>2
  <2>5. \A j \in 1..k : q[n + j] = p[j]
    BY ONLY <1>9, <2>1, <2>2
  <2> QED
    BY <2>3, <2>4, <2>5
<1>12. Grown(q, l, n, p, k)
  BY <1>1, <1>3, <1>5, <1>6, <1>11 DEF Grown
<1>13. /\ LedgerSound(q) /\ (OnlyBetsReversed(q) <=> OnlyBetsReversed(l))
       /\ \A s \in Seats : \A i \in 1..n : StandingOf(q, s)[i] = StandingOf(l, s)[i]
       /\ \A s \in Seats : \A j \in 1..k :
             StandingOf(q, s)[n + j] =
                IF p[j].type \in CommitTypes /\ p[j].player = s THEN p[j].amount ELSE 0
  BY <1>12, GrownSound
<1>14. ASSUME NEW s \in Seats  PROVE Standing(q, s) = Standing(l, s)
  <2>1. PICK a, b, c : /\ a = StandingOf(l, s) /\ b = [j \in 1..k |-> 0]
                       /\ c = StandingOf(q, s)
    OBVIOUS
  <2>2. c \in [1..(n + k) -> Nat]
    <3>1. PICK z : z = Len(q)
      OBVIOUS
    <3>2. StandingOf(q, s) \in [1..z -> Nat]
      BY ONLY <1>13, <3>1, s \in Seats, LedgerPlaces
    <3> QED
      BY <1>11, <2>1, <3>1, <3>2
  <2>3. a \in [1..n -> Nat] /\ b \in [1..k -> Nat] /\ \A j \in 1..k : b[j] = 0
    BY <1>2, <2>1
  <2>4. \A i \in 1..n : c[i] = a[i]
    BY <1>13, <2>1
  <2>5. \A j \in 1..k : c[n + j] = b[j]
    BY <1>5, <1>13, <2>1, <2>3 DEF CommitTypes
  <2>6. SumFunction(c) = SumFunction(a) + SumFunction(b)
    <3>1. n \in Nat /\ k \in Nat
      BY <1>2, <1>3
    <3>2. a \in [1..n -> Nat] /\ b \in [1..k -> Nat]
      BY <2>3
    <3> QED
      BY ONLY <3>1, <3>2, <2>2, <2>4, <2>5, SumConcat, ZenonT(60)
  <2>7. SumFunction(b) = 0
    <3>1. PICK D : D = 1..k
      OBVIOUS
    <3>2. IsFiniteSet(D) /\ b \in [D -> Nat] /\ \A j \in D : b[j] = 0
      BY ONLY <1>3, <2>3, <3>1, 1 \in Int, k \in Int, FS_Interval
    <3> QED
      BY <3>2, SumFunctionZero
  <2>8. SumFunction(a) \in Nat
    BY <2>1, LedgerPlaces DEF Standing
  <2> QED
    BY <2>1, <2>6, <2>7, <2>8 DEF Standing
<1>15. PICK mq : mq = RebuildHandState(q)
  OBVIOUS
<1>16. /\ mq \in Replayed /\ SameBets(mq, r) /\ SameAdjustments(mq, r)
       /\ \A s \in Seats : mq.won[s] = r.won[s] + Share(rows, s)
  <2>1. q = [i \in 1..(n + k) |-> q[i]]
    BY <1>11
  <2>2. \A j \in 1..k : q[n + j] = Entry("PAYOUT_AWARDED", rows[j].player, rows[j].amount)
    BY <1>4, <1>11
  <2>3. Awarding(q, l, n, rows, k)
    BY <1>2, <1>11, <2>1, <2>2 DEF Awarding
  <2> QED
    <3>1. /\ n \in Nat /\ rows \in Seq(PayoutRow) /\ k \in Nat /\ k = Len(rows)
          /\ r \in Replayed /\ r = RebuildHandState(l)
      BY <1>1, <1>2, <1>3
    <3> QED
      BY ONLY <1>15, <2>3, <3>1, PayoutsReplayed
<1>17. /\ LedgerSound(e) /\ (OnlyBetsReversed(e) <=> OnlyBetsReversed(q))
       /\ RebuildHandState(e) = ApplyEntry(RebuildHandState(q), x)
       /\ \A s \in Seats : Standing(e, s) = Standing(q, s)
  <2>1. /\ LedgerSound(e) /\ (OnlyBetsReversed(e) <=> OnlyBetsReversed(q))
        /\ RebuildHandState(e) = ApplyEntry(RebuildHandState(q), x)
        /\ \A s \in Seats : Standing(e, s) = Standing(q, s)
              + IF x.type \in CommitTypes /\ x.player = s THEN x.amount ELSE 0
    <3>1. LedgerSound(q) /\ EntrySound(x, 1) /\ x.type # "ACTION_REVERSED"
      BY <1>8, <1>13
    <3> QED
      BY ONLY <1>10, <3>1, EntryAppended
  <2>2. x.type \notin CommitTypes
    BY <1>8 DEF CommitTypes
  <2>3. \A s \in Seats : Standing(q, s) \in Nat
    BY ONLY <1>13, LedgerPlaces
  <2> QED
    BY <2>1, <2>2, <2>3
<1>18. /\ m \in Replayed /\ SameBets(m, mq) /\ SameWins(m, mq) /\ SameAdjustments(m, mq)
       /\ m.is_completed = TRUE
  <2>1. m = ApplyEntry(mq, x)
    BY <1>15, <1>17
  <2>2. x.type \in {"ROUND_COMPLETED", "HAND_REOPENED"}
    BY <1>8
  <2>3. /\ m \in Replayed /\ SameBets(m, mq) /\ SameWins(m, mq) /\ SameAdjustments(m, mq)
        /\ m.is_completed = (x.type = "ROUND_COMPLETED")
    BY <1>8, <1>16, <2>1, <2>2, EndApplied
  <2> QED
    BY <1>8, <2>3
<1>19. /\ m \in Replayed /\ SameBets(m, r) /\ SameAdjustments(m, r)
       /\ \A s \in Seats : m.won[s] = r.won[s] + Winnings(payouts, s)
  BY <1>3, <1>16, <1>18 DEF SameBets, SameWins, SameAdjustments
<1>20. Len(e) \in DOMAIN e /\ e[Len(e)].type = "ROUND_COMPLETED"
  BY <1>2, <1>3, <1>8, <1>10, <1>11
<1>21. SumFunction(Paid(q)) = SumFunction(Paid(l)) + SumFunction(RowAmounts(rows))
  <2>1. PICK a, b, c : a = Paid(l) /\ b = RowAmounts(rows) /\ c = Paid(q)
    OBVIOUS
  <2>2. /\ n \in Nat /\ a \in [1..n -> Nat]
        /\ \A i \in 1..n : a[i] = IF l[i].type = "PAYOUT_AWARDED" THEN l[i].amount ELSE 0
    BY ONLY <1>1, <2>1, LedgerSound(l), PaidTyped
  <2>3. k \in Nat /\ b \in [1..k -> Nat] /\ \A j \in 1..k : b[j] = rows[j].amount
    BY ONLY <1>1, <1>3, <2>1, RowAmountsTyped
  <2>4. PICK z : z = Len(q)
    OBVIOUS
  <2>5. /\ c \in [1..z -> Nat]
        /\ \A i \in 1..z : c[i] = IF q[i].type = "PAYOUT_AWARDED" THEN q[i].amount ELSE 0
    BY ONLY <1>13, <2>1, <2>4, PaidTyped
  <2>6. z = n + k
    BY ONLY <1>11, <2>4
  <2>7. \A i \in 1..n : c[i] = a[i]
    <3>1. \A i \in 1..n : i \in 1..z
      BY ONLY <2>2, <2>3, <2>6
    <3> QED
      BY ONLY <1>11, <2>2, <2>5, <3>1
  <2>8. ASSUME NEW j \in 1..k  PROVE c[n + j] = b[j]
    <3>1. n + j \in 1..z
      BY ONLY <2>2, <2>3, <2>6, j \in 1..k
    <3>2. q[n + j] = p[j] /\ p[j].type = "PAYOUT_AWARDED"
      BY ONLY <1>5, <1>11, j \in 1..k
    <3>3. p[j].amount = rows[j].amount
      BY ONLY <1>4, j \in 1..k DEF Entry
    <3> QED
      BY ONLY <2>3, <2>5, <3>1, <3>2, <3>3, j \in 1..k
  <2>9. SumFunction(c) = SumFunction(a) + SumFunction(b)
    <3>1. n \in Nat /\ k \in Nat /\ a \in [1..n -> Nat] /\ b \in [1..k -> Nat]
      BY ONLY <2>2, <2>3
    <3>2. c \in [1..(n + k) -> Nat]
      BY ONLY <2>5, <2>6
    <3> QED
      BY ONLY <2>7, <2>8, <3>1, <3>2, SumConcat, ZenonT(60)
  <2> QED
    BY ONLY <2>1, <2>9
<1>22. SumFunction(Paid(e)) = SumFunction(Paid(q)) /\ (Untouched(e) => Untouched(q))
  <2>1. x.type # "PAYOUT_AWARDED" /\ x \in LedgerEntry
    BY <1>8
  <2> QED
    BY ONLY <1>10, <1>13, <1>17, <2>1, PaidAppended
<1>23. Untouched(q) => Untouched(l)
  <2>1. \A i \in 1..n : i \in 1..(n + k)
    BY <1>2, <1>3
  <2> QED
    BY ONLY <1>2, <1>11, <2>1 DEF Untouched
<1> QED
  BY <1>1, <1>13, <1>14, <1>17, <1>18, <1>19, <1>20, <1>21, <1>22, <1>23 DEF Settled

(* The correction entry reverse_action writes for entry i. *)
ReversalOf(l, i) ==
    [Entry("ACTION_REVERSED", l[i].player, l[i].amount) EXCEPT !.original = i]

LEMMA ReversalTyped ==
    ASSUME NEW l, LedgerSound(l), NEW i \in 1..Len(l), NEW x, x = ReversalOf(l, i)
    PROVE  /\ x \in LedgerEntry /\ x.type = "ACTION_REVERSED" /\ x.original = i
           /\ x.player = l[i].player /\ x.amount = l[i].amount
<1>1. l[i] \in LedgerEntry /\ i \in Nat
  BY LedgerPlaces
<1>2. l[i].player \in Seats \cup {NoSeat} /\ l[i].amount \in Int
  BY <1>1 DEF LedgerEntry
<1>3. "ACTION_REVERSED" \in EntryTypes
  BY DEF EntryTypes, CorrectionTypes
<1>4. PICK y : y = Entry("ACTION_REVERSED", l[i].player, l[i].amount)
  OBVIOUS
<1>5. /\ y \in LedgerEntry /\ y.type = "ACTION_REVERSED"
      /\ y.player = l[i].player /\ y.amount = l[i].amount
  <2>1. PICK t \in EntryTypes, q \in Seats \cup {NoSeat}, a \in Int :
           t = "ACTION_REVERSED" /\ q = l[i].player /\ a = l[i].amount
    BY <1>2, <1>3
  <2>2. y = Entry(t, q, a)
    BY <1>4, <2>1
  <2>3. y \in LedgerEntry /\ y.type = t /\ y.player = q /\ y.amount = a
    BY <2>2, EntryTyped
  <2> QED
    BY <2>1, <2>3
<1>6. x = [y EXCEPT !.original = i]
  BY <1>4 DEF ReversalOf
<1> QED
  <2>1. x.original = i /\ x.type = y.type /\ x.player = y.player /\ x.amount = y.amount
    BY <1>5, <1>6 DEF LedgerEntry
  <2>2. x \in LedgerEntry
    BY <1>1, <1>5, <1>6 DEF LedgerEntry
  <2> QED
    BY <1>5, <2>1, <2>2

(* In e, the ledger l with the reversal x of entry i, exactly the chips of *)
(* that entry no longer stand.                                             *)
TakenBack(e, l, i, x) ==
    /\ LedgerSound(e)
    /\ OnlyBetsReversed(e) => OnlyBetsReversed(l) /\ l[i].type \in CommitTypes
    /\ RebuildHandState(e) = ApplyEntry(RebuildHandState(l), x)
    /\ l[i].type \in CommitTypes =>
          \A s \in Seats :
             Standing(e, s) = Standing(l, s) - IF l[i].player = s THEN l[i].amount ELSE 0

(* A reversal of an entry that stands takes exactly that one away. *)
LEMMA ReversalAppended ==
    ASSUME NEW l, LedgerSound(l), NEW i \in 1..Len(l), i \notin ReversedOf(l),
           NEW x, x = ReversalOf(l, i), NEW e, e = Append(l, x)
    PROVE  TakenBack(e, l, i, x)
<1>1. PICK n : n = Len(l)
  OBVIOUS
<1>2. /\ n \in Nat /\ DOMAIN l = 1..n /\ l \in Seq(LedgerEntry)
      /\ \A k \in 1..n : EntrySound(l[k], k)
      /\ \A k \in ReversedOf(l) : k \in 1..n
      /\ \A s \in Seats : StandingOf(l, s) \in [1..n -> Nat]
  BY <1>1, LedgerPlaces DEF LedgerSound
<1>3. /\ x \in LedgerEntry /\ x.type = "ACTION_REVERSED" /\ x.original = i
      /\ x.player = l[i].player /\ x.amount = l[i].amount
  BY ONLY LedgerSound(l), i \in 1..Len(l), x = ReversalOf(l, i), ReversalTyped
<1>4. /\ e \in Seq(LedgerEntry) /\ Len(e) = n + 1 /\ DOMAIN e = 1..(n + 1)
      /\ \A k \in 1..n : e[k] = l[k]
      /\ e[n + 1] = x
  BY <1>1, <1>2, <1>3
<1>5. i \in 1..n /\ \A k \in 1..(n + 1) : k \in 1..n \/ k = n + 1
  BY <1>1, <1>2
<1>6. LedgerSound(e)
  <2> SUFFICES ASSUME NEW k \in 1..(n + 1)  PROVE EntrySound(e[k], k)
    BY <1>4 DEF LedgerSound
  <2>1. CASE k \in 1..n
    BY <1>2, <1>4, <2>1
  <2>2. CASE k = n + 1
    <3>1. e[k] = x /\ i \in 1..(k - 1)
      BY <1>2, <1>4, <1>5, <2>2
    <3> QED
      BY <1>3, <3>1 DEF EntrySound, CorrectionTypes, CommitTypes
  <2> QED
    BY <1>5, <2>1, <2>2
<1>7. ReversedOf(e) = ReversedOf(l) \cup {i}
  <2>1. PICK R, Q : /\ R = {k \in DOMAIN l : l[k].type = "ACTION_REVERSED"}
                    /\ Q = {k \in DOMAIN e : e[k].type = "ACTION_REVERSED"}
    OBVIOUS
  <2>2. Q = R \cup {n + 1}
    BY <1>2, <1>3, <1>4, <1>5, <2>1
  <2>3. \A k \in R : e[k] = l[k]
    BY <1>2, <1>4, <2>1
  <2>4. ReversedOf(l) = {l[k].original : k \in R} /\ ReversedOf(e) = {e[k].original : k \in Q}
    BY <2>1 DEF ReversedOf
  <2>5. e[n + 1].original = i
    BY <1>3, <1>4
  <2>6. ASSUME NEW z \in ReversedOf(e)  PROVE z \in ReversedOf(l) \cup {i}
    <3>1. PICK k \in Q : z = e[k].original
      BY <2>4
    <3>2. CASE k \in R
      BY <2>3, <2>4, <3>1, <3>2
    <3>3. CASE k = n + 1
      BY <2>5, <3>1, <3>3
    <3> QED
      BY <2>2, <3>2, <3>3
  <2>7. ASSUME NEW z \in ReversedOf(l)  PROVE z \in ReversedOf(e)
    <3>1. PICK k \in R : z = l[k].original
      BY <2>4
    <3>2. k \in Q /\ z = e[k].original
      BY <2>2, <2>3, <3>1
    <3> QED
      BY <2>4, <3>2
  <2>8. i \in ReversedOf(e)
    BY <2>2, <2>4, <2>5
  <2> QED
    BY <2>6, <2>7, <2>8
<1>8. OnlyBetsReversed(e) => OnlyBetsReversed(l) /\ l[i].type \in CommitTypes
  <2>1. \A k \in ReversedOf(l) \cup {i} : e[k] = l[k]
    BY <1>2, <1>4, <1>5
  <2> QED
    BY <1>7, <2>1 DEF OnlyBetsReversed
<1>9. RebuildHandState(e) = ApplyEntry(RebuildHandState(l), x)
  <2>1. /\ n \in Nat /\ DOMAIN l = 1..n /\ DOMAIN e = 1..(n + 1)
        /\ \A k \in 1..n : e[k] = l[k]
    BY <1>2, <1>4
  <2>2. RebuildHandState(e) = ApplyEntry(RebuildHandState(l), e[n + 1])
    BY ONLY <2>1, ReplayAppend
  <2> QED
    BY <1>4, <2>2
<1>10. ASSUME l[i].type \in CommitTypes, NEW s \in Seats
       PROVE  Standing(e, s) = Standing(l, s) - IF l[i].player = s THEN l[i].amount ELSE 0
  <2>1. PICK a, b, c : /\ a = StandingOf(l, s) /\ c = StandingOf(e, s)
                       /\ b = [k \in 1..n |-> c[k]]
    OBVIOUS
  <2>2. c \in [1..(n + 1) -> Nat]
    <3>1. PICK z : z = Len(e)
      OBVIOUS
    <3>2. StandingOf(e, s) \in [1..z -> Nat]
      BY ONLY <1>6, <3>1, s \in Seats, LedgerPlaces
    <3> QED
      BY <1>4, <2>1, <3>1, <3>2
  <2>3. a \in [1..n -> Nat] /\ b \in [1..n -> Nat] /\ \A k \in 1..n : b[k] = c[k]
    BY <1>2, <2>1, <2>2
  <2>4. c[n + 1] = 0
    <3>1. e[n + 1].type \notin CommitTypes /\ n + 1 \in DOMAIN e
      BY <1>2, <1>3, <1>4 DEF CommitTypes
    <3> QED
      BY <2>1, <3>1 DEF StandingOf
  <2>5. SumFunction(c) = SumFunction(b)
    <3>1. SumFunction(c) = SumFunction(b) + c[n + 1]
      BY ONLY <1>2, <2>2, <2>3, SumSnoc
    <3>2. PICK D : D = 1..n
      OBVIOUS
    <3>3. IsFiniteSet(D) /\ b \in [D -> Nat]
      <4>1. 1 \in Int /\ n \in Int
        BY <1>2
      <4> QED
        BY ONLY <2>3, <3>2, <4>1, FS_Interval
    <3>4. SumFunction(b) \in Nat
      BY <3>3, SumFunctionNat
    <3> QED
      BY <2>4, <3>1, <3>4
  <2>6. \A k \in 1..n : k # i => b[k] = a[k]
    <3> SUFFICES ASSUME NEW k \in 1..n, k # i  PROVE b[k] = a[k]
      OBVIOUS
    <3>1. k \in DOMAIN e /\ k \in DOMAIN l /\ e[k] = l[k]
      BY <1>2, <1>4
    <3>2. k \in ReversedOf(e) <=> k \in ReversedOf(l)
      BY <1>7
    <3>3. c[k] = a[k]
      BY <2>1, <3>1, <3>2 DEF StandingOf
    <3> QED
      BY <2>3, <3>3
  <2>7. b[i] = 0 /\ a[i] = IF l[i].player = s THEN l[i].amount ELSE 0
    <3>1. i \in DOMAIN e /\ i \in DOMAIN l /\ i \in ReversedOf(e)
      BY <1>2, <1>4, <1>5, <1>7
    <3>2. c[i] = 0
      BY <2>1, <3>1 DEF StandingOf
    <3>3. a[i] = IF l[i].player = s THEN l[i].amount ELSE 0
      BY <1>10, <2>1, <3>1 DEF StandingOf
    <3> QED
      BY <1>5, <2>3, <3>2, <3>3
  <2>8. SumFunction(b) + a[i] = SumFunction(a) + b[i]
    <3>1. PICK D : D = 1..n
      OBVIOUS
    <3>2. IsFiniteSet(D)
      BY <1>2, <3>1, FS_Interval
    <3>3. a \in [D -> Nat] /\ b \in [D -> Nat] /\ i \in D
      BY <1>5, <2>3, <3>1
    <3>4. \A k \in D : k # i => b[k] = a[k]
      BY <2>6, <3>1
    <3>5. DifferAt(b, a, D, i)
      BY ONLY <3>2, <3>3, <3>4 DEF DifferAt
    <3> QED
      BY ONLY <3>5, SumChange
  <2>9. a[i] \in Nat /\ SumFunction(a) \in Nat /\ SumFunction(c) \in Nat
    <3>1. Standing(l, s) \in Nat
      BY ONLY LedgerSound(l), s \in Seats, LedgerPlaces
    <3>2. Standing(e, s) \in Nat
      BY ONLY <1>6, s \in Seats, LedgerPlaces
    <3> QED
      BY <1>5, <2>1, <2>3, <3>1, <3>2 DEF Standing
  <2>10. SumFunction(c) = SumFunction(a) - a[i]
    BY <2>5, <2>7, <2>8, <2>9
  <2> QED
    BY <2>1, <2>7, <2>10 DEF Standing
<1> QED
  BY <1>6, <1>8, <1>9, <1>10 DEF TakenBack
-----------------------------------------------------------------------------
(* The commands and the corrections keep the hand explained                *)

LEMMA ExplainedParts ==
    ASSUME NEW h, NEW d, NEW l, NEW r, Explained(h, d, l, r)
    PROVE  /\ h \in HandState /\ d \in [Seats -> Nat] /\ LedgerSound(l)
           /\ r = RebuildHandState(l) /\ r \in Replayed
           /\ StacksExplained(h, d, r)
           /\ OnlyBetsReversed(l) => PotExplained(h, l, r)
           /\ r.is_completed = (h.status = "COMPLETED")
BY DEF Explained

(* x chips of seat p, none if p is NoSeat, have gone from the stack into   *)
(* the pot, or for a negative x back; the commitments matter only as long  *)
(* as nothing but posts and bets was reversed.                             *)
Moved(h, h2, l, l2, p, x) ==
    /\ h2 \in HandState /\ h2.status = h.status /\ LedgerSound(l2)
    /\ \A s \in Seats :
          h2.stack_remaining[s] = h.stack_remaining[s] - IF s = p THEN x ELSE 0
    /\ OnlyBetsReversed(l2) =>
          /\ OnlyBetsReversed(l) /\ p \in Seats
          /\ \A s \in Seats : h2.committed_this_hand[s]
                                 = h.committed_this_hand[s] + IF s = p THEN x ELSE 0
          /\ h2.pot_amount = h.pot_amount + x
          /\ \A s \in Seats : Standing(l2, s) = Standing(l, s) + IF s = p THEN x ELSE 0

LEMMA MoveExplained ==
    ASSUME NEW h, NEW d, NEW l, NEW r, Explained(h, d, l, r),
           NEW h2, NEW l2, NEW p, NEW x \in Int, Moved(h, h2, l, l2, p, x),
           NEW m \in Replayed, m = RebuildHandState(l2),
           m.committed = Plus(r.committed, p, x), m.pot = r.pot + x,
           SameWins(m, r), SameAdjustments(m, r), SameEnd(m, r)
    PROVE  Explained(h2, d, l2, m)
<1>1. /\ h \in HandState /\ d \in [Seats -> Nat] /\ LedgerSound(l) /\ r \in Replayed
      /\ StacksExplained(h, d, r)
      /\ OnlyBetsReversed(l) => PotExplained(h, l, r)
      /\ r.is_completed = (h.status = "COMPLETED")
  BY ExplainedParts
<1>2. /\ h2 \in HandState /\ h2.status = h.status /\ LedgerSound(l2)
      /\ \A s \in Seats :
            h2.stack_remaining[s] = h.stack_remaining[s] - IF s = p THEN x ELSE 0
  BY DEF Moved
<1>3. /\ r.committed \in [Seats -> Int] /\ r.won \in [Seats -> Int]
      /\ r.adjusted \in [Seats -> Int] /\ r.pot \in Int
  BY <1>1, ReplayedColumns
<1>4. \A s \in Seats : m.committed[s] = r.committed[s] + IF s = p THEN x ELSE 0
  BY <1>3, PlusTyped
<1>5. StacksExplained(h2, d, m)
  <2> SUFFICES ASSUME NEW s \in Seats
               PROVE  h2.stack_remaining[s]
                         = d[s] - m.committed[s] + m.won[s] + m.adjusted[s]
    BY DEF StacksExplained
  <2>1. h.stack_remaining[s] = d[s] - r.committed[s] + r.won[s] + r.adjusted[s]
    BY <1>1 DEF StacksExplained
  <2>2. m.won[s] = r.won[s] /\ m.adjusted[s] = r.adjusted[s]
    BY DEF SameWins, SameAdjustments
  <2>3. /\ d[s] \in Int /\ r.committed[s] \in Int /\ r.won[s] \in Int
        /\ r.adjusted[s] \in Int
    BY <1>1, <1>3
  <2> QED
    BY <1>2, <1>4, <2>1, <2>2, <2>3
<1>6. ASSUME OnlyBetsReversed(l2)  PROVE PotExplained(h2, l2, m)
  <2>1. /\ OnlyBetsReversed(l) /\ p \in Seats
        /\ \A s \in Seats : h2.committed_this_hand[s]
                               = h.committed_this_hand[s] + IF s = p THEN x ELSE 0
        /\ h2.pot_amount = h.pot_amount + x
        /\ \A s \in Seats : Standing(l2, s) = Standing(l, s) + IF s = p THEN x ELSE 0
    BY <1>6 DEF Moved
  <2>2. /\ r.pot = h.pot_amount /\ r.committed = h.committed_this_hand
        /\ h.pot_amount = SumFunction(h.committed_this_hand)
        /\ \A s \in Seats : h.committed_this_hand[s] = Standing(l, s)
    BY <1>1, <2>1 DEF PotExplained
  <2>3. PICK f \in [Seats -> Nat], g \in [Seats -> Nat] :
           f = h.committed_this_hand /\ g = h2.committed_this_hand
    BY <1>1, <1>2, HandColumns
  <2>4. m.committed = g
    <3>1. \A s \in Seats : m.committed[s] = g[s]
      BY <1>4, <2>1, <2>2, <2>3
    <3>2. m.committed \in [Seats -> Int]
      BY ReplayedColumns
    <3> QED
      BY <3>1, <3>2
  <2>5. SumFunction(g) = SumFunction(f) + x
    <3>1. \A s \in Seats : s # p => g[s] = f[s]
      BY <2>1, <2>3
    <3>2. g[p] = f[p] + x /\ f[p] \in Nat /\ g[p] \in Nat
      BY <2>1, <2>3
    <3>3. IsFiniteSet(Seats) /\ p \in Seats
      BY <2>1, SeatsAssumption
    <3>4. SumFunction(g) + f[p] = SumFunction(f) + g[p]
      <4>1. DifferAt(g, f, Seats, p)
        BY <3>1, <3>3 DEF DifferAt
      <4> QED
        BY ONLY <4>1, SumChange
    <3>5. SumFunction(f) \in Nat /\ SumFunction(g) \in Nat
      BY ONLY <3>3, f \in [Seats -> Nat], g \in [Seats -> Nat], SumFunctionNat
    <3> QED
      BY <3>2, <3>4, <3>5
  <2>6. m.pot = h2.pot_amount /\ h2.pot_amount = SumFunction(h2.committed_this_hand)
    BY <2>1, <2>2, <2>3, <2>5
  <2>7. \A s \in Seats : h2.committed_this_hand[s] = Standing(l2, s)
    BY <2>1, <2>2
  <2> QED
    BY <2>3, <2>4, <2>6, <2>7 DEF PotExplained
<1>7. m.is_completed = (h2.status = "COMPLETED")
  BY <1>1, <1>2 DEF SameEnd
<1> QED
  BY <1>1, <1>2, <1>5, <1>6, <1>7 DEF Explained

(* A step that leaves commitments, pot and posts alone. *)
Quiet(h, h2, l, l2) ==
    /\ h2 \in HandState /\ LedgerSound(l2)
    /\ h2.committed_this_hand = h.committed_this_hand /\ h2.pot_amount = h.pot_amount
    /\ OnlyBetsReversed(l2) => OnlyBetsReversed(l)
    /\ \A s \in Seats : Standing(l2, s) = Standing(l, s)

LEMMA QuietExplained ==
    ASSUME NEW h, NEW d, NEW l, NEW r, Explained(h, d, l, r),
           NEW h2, NEW l2, Quiet(h, h2, l, l2),
           NEW m \in Replayed, m = RebuildHandState(l2), SameBets(m, r),
           StacksExplained(h2, d, m), m.is_completed = (h2.status = "COMPLETED")
    PROVE  Explained(h2, d, l2, m)
<1>1. d \in [Seats -> Nat] /\ (OnlyBetsReversed(l) => PotExplained(h, l, r))
  BY ExplainedParts
<1>2. OnlyBetsReversed(l2) => PotExplained(h2, l2, m)
  BY <1>1 DEF Quiet, PotExplained, SameBets
<1> QED
  BY <1>1, <1>2 DEF Explained, Quiet

(* place_bet, record_bet_action: the entry carries the chips that moved. *)
LEMMA BetExplained ==
    ASSUME NEW h, NEW d, NEW l, NEW r, Explained(h, d, l, r),
           NEW p \in Seats, NEW action \in Actions, NEW amount \in Nat,
           ValidateBet(h, p, action, amount),
           NEW h2, h2 = ApplyAction(h, p, action, amount),
           NEW l2, l2 = Append(l, BetEntry(h, p, action, amount))
    PROVE  Explained(h2, d, l2, RebuildHandState(l2))
<1>1. h \in HandState /\ LedgerSound(l) /\ r = RebuildHandState(l) /\ r \in Replayed
  BY ExplainedParts
<1>2. PICK x : x = Chips(h, p, action, amount)
  OBVIOUS
<1>3. x \in Nat /\ x \in Int
  BY <1>1, <1>2, ChipsBound
<1>4. /\ h2 \in HandState /\ h2.status = h.status
      /\ h2.stack_remaining = [h.stack_remaining EXCEPT ![p] = @ - x]
      /\ h2.committed_this_hand = [h.committed_this_hand EXCEPT ![p] = @ + x]
      /\ h2.pot_amount = h.pot_amount + x
  <2>1. PICK k, effective, post : /\ k = Committed(h, p, action, amount)
                                  /\ effective = EffectiveAction(h, p, action, amount)
                                  /\ post = h.committed_this_street[p] + x
    OBVIOUS
  <2>2. k \in HandState
    BY <1>1, <2>1, CommittedTyped
  <2>3. /\ k.stack_remaining = [h.stack_remaining EXCEPT ![p] = @ - x]
        /\ k.committed_this_hand = [h.committed_this_hand EXCEPT ![p] = @ + x]
        /\ k.pot_amount = h.pot_amount + x /\ k.status = h.status
    BY <1>1, <1>2, <2>1 DEF Committed, HandState
  <2>4. h2 = PassTurn(k, p)
    BY <2>1 DEF ApplyAction
  <2>5. /\ h2 \in HandState /\ h2.status = k.status
        /\ h2.stack_remaining = k.stack_remaining
        /\ h2.committed_this_hand = k.committed_this_hand
        /\ h2.pot_amount = k.pot_amount
    BY ONLY <2>2, <2>4, p \in Seats, PassTurnSound
  <2> QED
    BY <2>3, <2>5
<1>5. PICK y : y = BetEntry(h, p, action, amount)
  OBVIOUS
<1>6. y \in LedgerEntry /\ y.type = "BET_PLACED" /\ y.player = p /\ y.amount = x
      /\ y.original = 0
  <2>1. y = Entry("BET_PLACED", p, x)
    BY <1>2, <1>5 DEF BetEntry
  <2>2. "BET_PLACED" \in EntryTypes /\ p \in Seats \cup {NoSeat}
    BY DEF EntryTypes, CommitTypes
  <2> QED
    BY ONLY <1>3, <2>1, <2>2, EntryTyped
<1>7. EntrySound(y, 1) /\ y.type # "ACTION_REVERSED" /\ y.type \in CommitTypes
  BY <1>3, <1>6 DEF EntrySound, CommitTypes
<1>8. /\ LedgerSound(l2) /\ (OnlyBetsReversed(l2) <=> OnlyBetsReversed(l))
      /\ RebuildHandState(l2) = ApplyEntry(r, y)
      /\ \A s \in Seats : Standing(l2, s) = Standing(l, s)
            + IF y.type \in CommitTypes /\ y.player = s THEN y.amount ELSE 0
  <2>1. l2 = Append(l, y) /\ LedgerSound(l)
    BY <1>1, <1>5
  <2>2. /\ LedgerSound(l2) /\ (OnlyBetsReversed(l2) <=> OnlyBetsReversed(l))
        /\ RebuildHandState(l2) = ApplyEntry(RebuildHandState(l), y)
        /\ \A s \in Seats : Standing(l2, s) = Standing(l, s)
              + IF y.type \in CommitTypes /\ y.player = s THEN y.amount ELSE 0
    BY ONLY <1>7, <2>1, EntryAppended
  <2> QED
    BY <1>1, <2>2
<1>9. PICK m : m = RebuildHandState(l2)
  OBVIOUS
<1>10. /\ m \in Replayed /\ m.committed = Plus(r.committed, p, x) /\ m.pot = r.pot + x
       /\ SameWins(m, r) /\ SameAdjustments(m, r) /\ SameEnd(m, r)
  <2>1. m = ApplyEntry(r, y)
    BY <1>8, <1>9
  <2>2. /\ m \in Replayed /\ m.committed = Plus(r.committed, y.player, x)
        /\ m.pot = r.pot + x
        /\ SameWins(m, r) /\ SameAdjustments(m, r) /\ SameEnd(m, r)
    BY ONLY <1>1, <1>3, <1>6, <1>7, <2>1, BetApplied
  <2> QED
    BY <1>6, <2>2
<1>11. Moved(h, h2, l, l2, p, x)
  <2>1. /\ h.stack_remaining \in [Seats -> Nat] /\ h.committed_this_hand \in [Seats -> Nat]
    BY <1>1, HandColumns
  <2>2. \A s \in Seats :
           h2.stack_remaining[s] = h.stack_remaining[s] - IF s = p THEN x ELSE 0
    BY <1>3, <1>4, <2>1
  <2>3. \A s \in Seats :
           h2.committed_this_hand[s] = h.committed_this_hand[s] + IF s = p THEN x ELSE 0
    BY <1>3, <1>4, <2>1
  <2>4. \A s \in Seats : Standing(l2, s) = Standing(l, s) + IF s = p THEN x ELSE 0
    BY <1>6, <1>7, <1>8
  <2> QED
    BY <1>4, <1>8, <2>2, <2>3, <2>4 DEF Moved
<1>12. Explained(h2, d, l2, m)
  BY <1>3, <1>9, <1>10, <1>11, MoveExplained
<1> QED
  BY <1>9, <1>12

(* advance_street writes no entry. *)
LEMMA StreetExplained ==
    ASSUME NEW h, NEW d, NEW l, NEW r, Explained(h, d, l, r),
           h.street # "SHOWDOWN", NEW h2, h2 = AdvancedHand(h)
    PROVE  Explained(h2, d, l, RebuildHandState(l))
<1>1. /\ h \in HandState /\ LedgerSound(l) /\ r = RebuildHandState(l) /\ r \in Replayed
      /\ StacksExplained(h, d, r) /\ r.is_completed = (h.status = "COMPLETED")
  BY ExplainedParts
<1>2. /\ h2 \in HandState /\ h2.status = h.status
      /\ h2.stack_remaining = h.stack_remaining
      /\ h2.committed_this_hand = h.committed_this_hand
      /\ h2.pot_amount = h.pot_amount
  BY <1>1, AdvancedHandSound
<1>3. Quiet(h, h2, l, l)
  BY <1>1, <1>2 DEF Quiet
<1>4. StacksExplained(h2, d, r)
  BY <1>1, <1>2 DEF StacksExplained
<1>5. SameBets(r, r) /\ r.is_completed = (h2.status = "COMPLETED")
  BY <1>1, <1>2 DEF SameBets
<1>6. Explained(h2, d, l, r)
  BY <1>1, <1>3, <1>4, <1>5, QuietExplained
<1> QED
  BY <1>1, <1>6

(* resolve_hand: what the entries award is what the stacks receive. *)
LEMMA SettlementExplained ==
    ASSUME NEW h, NEW d, NEW l, NEW r, Explained(h, d, l, r),
           NEW payouts, PayoutsAccepted(h, payouts),
           NEW h2, h2 = ResolvedHand(h, payouts),
           NEW l2, l2 = l \o PayoutEntries(h, payouts)
    PROVE  Explained(h2, d, l2, RebuildHandState(l2))
<1>1. /\ h \in HandState /\ d \in [Seats -> Nat] /\ LedgerSound(l)
      /\ r = RebuildHandState(l) /\ r \in Replayed /\ StacksExplained(h, d, r)
  BY ExplainedParts
<1>2. payouts \in PayoutRequest /\ payouts # <<>>
  BY DEF PayoutsAccepted
<1>3. PICK w : w = [s \in Seats |-> Winnings(payouts, s)]
  OBVIOUS
<1>4. \A s \in Seats : Winnings(payouts, s) \in Nat
  BY <1>2, SubmissionSums
<1>5. w \in [Seats -> Nat] /\ \A s \in Seats : w[s] = Winnings(payouts, s)
  BY <1>3, <1>4
<1>6. /\ h2 \in HandState /\ h2.status = "COMPLETED"
      /\ h2.stack_remaining = [s \in Seats |-> h.stack_remaining[s] + w[s]]
      /\ h2.committed_this_hand = h.committed_this_hand
      /\ h2.pot_amount = h.pot_amount
  <2>1. w \in [Seats -> Nat] /\ h \in HandState /\ h2 = ResolvedHand(h, payouts)
    BY <1>1, <1>5
  <2> QED
    BY ONLY <1>3, <2>1, ResolvedHandSound
<1>7. PICK m : m = RebuildHandState(l2)
  OBVIOUS
<1>8. /\ LedgerSound(l2) /\ (OnlyBetsReversed(l2) <=> OnlyBetsReversed(l))
      /\ \A s \in Seats : Standing(l2, s) = Standing(l, s)
      /\ m \in Replayed /\ SameBets(m, r) /\ SameAdjustments(m, r)
      /\ m.is_completed = TRUE
      /\ \A s \in Seats : m.won[s] = r.won[s] + Winnings(payouts, s)
  <2>1. /\ LedgerSound(l) /\ r = RebuildHandState(l) /\ r \in Replayed
        /\ h.pot_amount \in Nat
    BY <1>1, HandColumns
  <2>2. Settling(l2, l, h, payouts)
    BY <1>2, <2>1 DEF Settling
  <2>3. Settled(l2, l, m, r, payouts)
    BY ONLY <1>7, <2>1, <2>2, SettlementAppended
  <2> QED
    BY <2>3 DEF Settled
<1>9. StacksExplained(h2, d, m)
  <2> SUFFICES ASSUME NEW s \in Seats
               PROVE  h2.stack_remaining[s]
                         = d[s] - m.committed[s] + m.won[s] + m.adjusted[s]
    BY DEF StacksExplained
  <2>1. h.stack_remaining[s] = d[s] - r.committed[s] + r.won[s] + r.adjusted[s]
    BY <1>1 DEF StacksExplained
  <2>2. m.committed[s] = r.committed[s] /\ m.adjusted[s] = r.adjusted[s]
    BY <1>8 DEF SameBets, SameAdjustments
  <2>3. /\ d[s] \in Int /\ r.committed[s] \in Int /\ r.won[s] \in Int
        /\ r.adjusted[s] \in Int /\ w[s] \in Int
    BY <1>1, <1>5, ReplayedColumns
  <2>4. m.won[s] = r.won[s] + w[s] /\ h2.stack_remaining[s] = h.stack_remaining[s] + w[s]
    BY <1>5, <1>6, <1>8
  <2> QED
    BY <2>1, <2>2, <2>3, <2>4
<1>10. Quiet(h, h2, l, l2)
  BY <1>6, <1>8 DEF Quiet
<1>11. m.is_completed = (h2.status = "COMPLETED")
  BY <1>6, <1>8
<1>12. Explained(h2, d, l2, m)
  BY <1>7, <1>8, <1>9, <1>10, <1>11, QuietExplained
<1> QED
  BY <1>7, <1>12

(* An entry that moves no bets and reverses nothing. *)
LEMMA PlainEntryExplained ==
    ASSUME NEW h, NEW d, NEW l, NEW r, Explained(h, d, l, r),
           NEW y, EntrySound(y, 1), y.type # "ACTION_REVERSED", y.type \notin CommitTypes,
           NEW l2, l2 = Append(l, y), NEW m \in Replayed, m = ApplyEntry(r, y),
           SameBets(m, r),
           NEW h2 \in HandState, h2.committed_this_hand = h.committed_this_hand,
           h2.pot_amount = h.pot_amount,
           StacksExplained(h2, d, m), m.is_completed = (h2.status = "COMPLETED")
    PROVE  Explained(h2, d, l2, RebuildHandState(l2))
<1>1. LedgerSound(l) /\ r = RebuildHandState(l)
  BY ExplainedParts
<1>2. /\ LedgerSound(l2) /\ (OnlyBetsReversed(l2) <=> OnlyBetsReversed(l))
      /\ RebuildHandState(l2) = ApplyEntry(RebuildHandState(l), y)
      /\ \A s \in Seats : Standing(l2, s) = Standing(l, s)
            + IF y.type \in CommitTypes /\ y.player = s THEN y.amount ELSE 0
  <2>1. EntrySound(y, 1) /\ y.type # "ACTION_REVERSED" /\ l2 = Append(l, y)
    OBVIOUS
  <2> QED
    BY ONLY <1>1, <2>1, EntryAppended
<1>3. \A s \in Seats : Standing(l2, s) = Standing(l, s)
  <2>1. \A s \in Seats : Standing(l, s) \in Nat
    BY ONLY <1>1, LedgerPlaces
  <2> QED
    BY <1>2, <2>1
<1>4. Quiet(h, h2, l, l2)
  BY <1>2, <1>3 DEF Quiet
<1>5. m = RebuildHandState(l2)
  BY <1>1, <1>2
<1>6. Explained(h2, d, l2, m)
  BY <1>4, <1>5, QuietExplained
<1> QED
  BY <1>5, <1>6

(* adjust_stack: a stack may be raised or lowered, never below zero. *)
LEMMA AdjustmentExplained ==
    ASSUME NEW h, NEW d, NEW l, NEW r, Explained(h, d, l, r),
           NEW p \in Seats, NEW x \in Int, NEW stacks,
           stacks = Plus(h.stack_remaining, p, x), \A s \in Seats : stacks[s] >= 0,
           NEW h2, h2 = [h EXCEPT !.stack_remaining = stacks],
           NEW l2, l2 = Append(l, Entry("STACK_ADJUSTED", p, x))
    PROVE  Explained(h2, d, l2, RebuildHandState(l2))
<1>1. /\ h \in HandState /\ d \in [Seats -> Nat] /\ LedgerSound(l)
      /\ r = RebuildHandState(l) /\ r \in Replayed
      /\ StacksExplained(h, d, r) /\ r.is_completed = (h.status = "COMPLETED")
  BY ExplainedParts
<1>2. h.stack_remaining \in [Seats -> Nat]
  BY <1>1, HandColumns
<1>3. /\ stacks \in [Seats -> Int]
      /\ \A s \in Seats : stacks[s] = IF s = p THEN h.stack_remaining[s] + x
                                               ELSE h.stack_remaining[s]
  BY <1>2, PlusTyped
<1>4. stacks \in [Seats -> Nat]
  BY <1>3
<1>5. /\ h2 \in HandState /\ h2.stack_remaining = stacks /\ h2.status = h.status
      /\ h2.committed_this_hand = h.committed_this_hand /\ h2.pot_amount = h.pot_amount
  BY <1>1, <1>4 DEF HandState
<1>6. PICK y : y = Entry("STACK_ADJUSTED", p, x)
  OBVIOUS
<1>7. /\ y \in LedgerEntry /\ y.type = "STACK_ADJUSTED" /\ y.player = p /\ y.amount = x
      /\ y.original = 0
  <2>1. "STACK_ADJUSTED" \in EntryTypes /\ p \in Seats \cup {NoSeat} /\ x \in Int
    BY DEF EntryTypes, CorrectionTypes
  <2> QED
    BY ONLY <1>6, <2>1, EntryTyped
<1>8. EntrySound(y, 1) /\ y.type # "ACTION_REVERSED" /\ y.type \notin CommitTypes
  BY <1>7 DEF EntrySound, CommitTypes, CorrectionTypes
<1>9. PICK m : m = ApplyEntry(r, y)
  OBVIOUS
<1>10. /\ m \in Replayed /\ m.adjusted = Plus(r.adjusted, p, x)
       /\ SameBets(m, r) /\ SameWins(m, r) /\ SameEnd(m, r)
  <2>1. /\ m \in Replayed /\ m.adjusted = Plus(r.adjusted, y.player, y.amount)
        /\ SameBets(m, r) /\ SameWins(m, r) /\ SameEnd(m, r)
    BY ONLY <1>1, <1>7, <1>9, AdjustmentApplied
  <2> QED
    BY <1>7, <2>1
<1>11. StacksExplained(h2, d, m)
  <2> SUFFICES ASSUME NEW s \in Seats
               PROVE  h2.stack_remaining[s]
                         = d[s] - m.committed[s] + m.won[s] + m.adjusted[s]
    BY DEF StacksExplained
  <2>1. h.stack_remaining[s] = d[s] - r.committed[s] + r.won[s] + r.adjusted[s]
    BY <1>1 DEF StacksExplained
  <2>2. m.committed[s] = r.committed[s] /\ m.won[s] = r.won[s]
    BY <1>10 DEF SameBets, SameWins
  <2>3. /\ r.committed \in [Seats -> Int] /\ r.won \in [Seats -> Int]
        /\ r.adjusted \in [Seats -> Int]
    BY <1>1, ReplayedColumns
  <2>4. m.adjusted[s] = IF s = p THEN r.adjusted[s] + x ELSE r.adjusted[s]
    BY ONLY <1>10, <2>3, s \in Seats DEF Plus
  <2>5. /\ d[s] \in Int /\ r.committed[s] \in Int /\ r.won[s] \in Int
        /\ r.adjusted[s] \in Int
    BY <1>1, <2>3
  <2> QED
    BY ONLY <1>3, <1>5, <2>1, <2>2, <2>4, <2>5, s \in Seats, x \in Int
<1>12. m.is_completed = (h2.status = "COMPLETED")
  BY <1>1, <1>5, <1>10 DEF SameEnd
<1>13. l2 = Append(l, y)
  BY <1>6
<1> QED
  BY ONLY Explained(h, d, l, r), <1>5, <1>8, <1>9, <1>10, <1>11, <1>12, <1>13,
          PlainEntryExplained, ZenonT(60)

(* correct_payout: the old winner pays back, the new one receives. *)
LEMMA CorrectionExplained ==
    ASSUME NEW h, NEW d, NEW l, NEW r, Explained(h, d, l, r),
           NEW old \in Seats, NEW new \in Seats, NEW a \in Nat, NEW b \in Nat, NEW stacks,
           stacks = Plus(Plus(h.stack_remaining, old, -a), new, b),
           \A s \in Seats : stacks[s] >= 0,
           NEW h2, h2 = [h EXCEPT !.stack_remaining = stacks],
           NEW l2, l2 = Append(l, [Entry("PAYOUT_CORRECTED", new, b)
                                     EXCEPT !.old_player = old, !.old_amount = a])
    PROVE  Explained(h2, d, l2, RebuildHandState(l2))
<1>1. /\ h \in HandState /\ d \in [Seats -> Nat] /\ LedgerSound(l)
      /\ r = RebuildHandState(l) /\ r \in Replayed
      /\ StacksExplained(h, d, r) /\ r.is_completed = (h.status = "COMPLETED")
  BY ExplainedParts
<1>2. PICK f \in [Seats -> Int], v \in Int : f = h.stack_remaining /\ v = -a
  BY <1>1, HandColumns
<1>3. PICK g \in [Seats -> Int] : g = Plus(f, old, v)
  BY PlusTyped
<1>4. \A s \in Seats : g[s] = IF s = old THEN f[s] + v ELSE f[s]
  BY <1>3 DEF Plus
<1>5. stacks \in [Seats -> Int] /\ \A s \in Seats : stacks[s] = IF s = new THEN g[s] + b ELSE g[s]
  <2>1. stacks = Plus(g, new, b) /\ b \in Int
    BY <1>2, <1>3
  <2> QED
    BY ONLY <2>1, g \in [Seats -> Int] DEF Plus
<1>6. stacks \in [Seats -> Nat]
  BY <1>5
<1>7. /\ h2 \in HandState /\ h2.stack_remaining = stacks /\ h2.status = h.status
      /\ h2.committed_this_hand = h.committed_this_hand /\ h2.pot_amount = h.pot_amount
  BY <1>1, <1>6 DEF HandState
<1>8. PICK z : z = Entry("PAYOUT_CORRECTED", new, b)
  OBVIOUS
<1>9. /\ z \in LedgerEntry /\ z.type = "PAYOUT_CORRECTED" /\ z.player = new
      /\ z.amount = b /\ z.original = 0
  <2>1. "PAYOUT_CORRECTED" \in EntryTypes /\ new \in Seats \cup {NoSeat} /\ b \in Int
    BY DEF EntryTypes, CorrectionTypes
  <2> QED
    BY ONLY <1>8, <2>1, EntryTyped
<1>10. PICK y : y = [z EXCEPT !.old_player = old, !.old_amount = a]
  OBVIOUS
<1>11. /\ y \in LedgerEntry /\ y.type = "PAYOUT_CORRECTED" /\ y.player = new
       /\ y.amount = b /\ y.original = 0 /\ y.old_player = old /\ y.old_amount = a
  <2>1. a \in Int /\ old \in Seats \cup {NoSeat}
    OBVIOUS
  <2>2. y \in LedgerEntry
    BY ONLY <1>9, <1>10, <2>1 DEF LedgerEntry
  <2>3. /\ y.type = z.type /\ y.player = z.player /\ y.amount = z.amount
        /\ y.original = z.original /\ y.old_player = old /\ y.old_amount = a
    BY ONLY <1>9, <1>10 DEF LedgerEntry
  <2> QED
    BY <1>9, <2>2, <2>3
<1>12. EntrySound(y, 1) /\ y.type # "ACTION_REVERSED" /\ y.type \notin CommitTypes
  BY <1>11 DEF EntrySound, CommitTypes, CorrectionTypes
<1>13. PICK m : m = ApplyEntry(r, y)
  OBVIOUS
<1>14. /\ m \in Replayed /\ m.won = Plus(Plus(r.won, old, v), new, b)
       /\ SameBets(m, r) /\ SameAdjustments(m, r) /\ SameEnd(m, r)
  <2>1. PICK w : w = Plus(Plus(r.won, y.old_player, -y.old_amount), y.player, y.amount)
    OBVIOUS
  <2>2. /\ m \in Replayed /\ m.won = w
        /\ SameBets(m, r) /\ SameAdjustments(m, r) /\ SameEnd(m, r)
    BY ONLY <1>1, <1>11, <1>13, <2>1, PayoutApplied
  <2>3. w = Plus(Plus(r.won, old, v), new, b)
    BY <1>2, <1>11, <2>1
  <2> QED
    BY <2>2, <2>3
<1>15. StacksExplained(h2, d, m)
  <2> SUFFICES ASSUME NEW s \in Seats
               PROVE  h2.stack_remaining[s]
                         = d[s] - m.committed[s] + m.won[s] + m.adjusted[s]
    BY DEF StacksExplained
  <2>1. f[s] = d[s] - r.committed[s] + r.won[s] + r.adjusted[s]
    BY <1>1, <1>2 DEF StacksExplained
  <2>2. m.committed[s] = r.committed[s] /\ m.adjusted[s] = r.adjusted[s]
    BY <1>14 DEF SameBets, SameAdjustments
  <2>3. /\ r.committed \in [Seats -> Int] /\ r.won \in [Seats -> Int]
        /\ r.adjusted \in [Seats -> Int]
    BY <1>1, ReplayedColumns
  <2>4. PICK u \in [Seats -> Int] : u = Plus(r.won, old, v)
    BY <2>3, PlusTyped
  <2>5. u[s] = IF s = old THEN r.won[s] + v ELSE r.won[s]
    BY ONLY <2>3, <2>4, s \in Seats, v \in Int DEF Plus
  <2>6. m.won[s] = IF s = new THEN u[s] + b ELSE u[s]
    <3>1. m.won = Plus(u, new, b) /\ b \in Int
      BY <1>14, <2>4
    <3> QED
      BY ONLY <3>1, s \in Seats, u \in [Seats -> Int] DEF Plus
  <2>7. /\ d[s] \in Int /\ r.committed[s] \in Int /\ r.won[s] \in Int
        /\ r.adjusted[s] \in Int /\ f[s] \in Int
    BY ONLY <1>1, <2>3, s \in Seats, f \in [Seats -> Int]
  <2>8. stacks[s] = IF s = new THEN g[s] + b ELSE g[s]
    BY <1>5
  <2>9. g[s] = IF s = old THEN f[s] + v ELSE f[s]
    BY <1>4
  <2> QED
    BY ONLY <1>7, <2>1, <2>2, <2>5, <2>6, <2>7, <2>8, <2>9, v \in Int, b \in Int, <1>5,
            s \in Seats
<1>16. m.is_completed = (h2.status = "COMPLETED")
  BY <1>1, <1>7, <1>14 DEF SameEnd
<1>17. l2 = Append(l, y)
  BY <1>8, <1>10
<1> QED
  BY ONLY Explained(h, d, l, r), <1>7, <1>12, <1>13, <1>14, <1>15, <1>16, <1>17,
          PlainEntryExplained, ZenonT(60)
(* reopen_hand: the hand is active again, its chips stay where they are. *)
LEMMA ReopeningExplained ==
    ASSUME NEW h, NEW d, NEW l, NEW r, Explained(h, d, l, r),
           NEW h2, h2 = [h EXCEPT !.status = "ACTIVE", !.is_action_closed = FALSE],
           NEW l2, l2 = Append(l, Entry("HAND_REOPENED", NoSeat, 0))
    PROVE  Explained(h2, d, l2, RebuildHandState(l2))
<1>1. /\ h \in HandState /\ LedgerSound(l) /\ r = RebuildHandState(l) /\ r \in Replayed
      /\ StacksExplained(h, d, r)
  BY ExplainedParts
<1>2. PICK no \in BOOLEAN : no = FALSE
  OBVIOUS
<1>3. PICK active \in Statuses : active = "ACTIVE"
  BY DEF Statuses
<1>4. h2 = [h EXCEPT !.status = active, !.is_action_closed = no]
  BY <1>2, <1>3
<1>5. /\ h2 \in HandState /\ h2.status = active
      /\ h2.stack_remaining = h.stack_remaining
      /\ h2.committed_this_hand = h.committed_this_hand /\ h2.pot_amount = h.pot_amount
  BY ONLY <1>1, <1>4, no \in BOOLEAN, active \in Statuses DEF HandState
<1>6. PICK y : y = Entry("HAND_REOPENED", NoSeat, 0)
  OBVIOUS
<1>7. y \in LedgerEntry /\ y.type = "HAND_REOPENED" /\ y.original = 0
  <2>1. "HAND_REOPENED" \in EntryTypes /\ NoSeat \in Seats \cup {NoSeat} /\ 0 \in Int
    BY DEF EntryTypes, CorrectionTypes
  <2> QED
    BY ONLY <1>6, <2>1, EntryTyped
<1>8. EntrySound(y, 1) /\ y.type # "ACTION_REVERSED" /\ y.type \notin CommitTypes
  BY <1>7 DEF EntrySound, CommitTypes, CorrectionTypes
<1>9. PICK m : m = ApplyEntry(r, y)
  OBVIOUS
<1>10. /\ m \in Replayed /\ SameBets(m, r) /\ SameWins(m, r) /\ SameAdjustments(m, r)
       /\ m.is_completed = (h2.status = "COMPLETED")
  <2>1. y.type \in {"ROUND_COMPLETED", "HAND_REOPENED"}
    BY <1>7
  <2>2. /\ m \in Replayed /\ SameBets(m, r) /\ SameWins(m, r) /\ SameAdjustments(m, r)
        /\ m.is_completed = (y.type = "ROUND_COMPLETED")
    BY ONLY <1>1, <1>7, <1>9, <2>1, EndApplied
  <2>3. (y.type = "ROUND_COMPLETED") = FALSE /\ (h2.status = "COMPLETED") = FALSE
    BY <1>3, <1>5, <1>7
  <2> QED
    BY <2>2, <2>3
<1>11. StacksExplained(h2, d, m)
  BY <1>1, <1>5, <1>10 DEF StacksExplained, SameBets, SameWins, SameAdjustments
<1>12. l2 = Append(l, y)
  BY <1>6
<1> QED
  BY ONLY Explained(h, d, l, r), <1>5, <1>8, <1>9, <1>10, <1>11, <1>12,
          PlainEntryExplained, ZenonT(60)

(* Chips that stand are in the commitments of their seat and in the pot. *)
LEMMA StandingEntryIsCovered ==
    ASSUME NEW h, NEW d, NEW l, NEW r, Explained(h, d, l, r), OnlyBetsReversed(l),
           NEW i \in 1..Len(l), i \notin ReversedOf(l), l[i].type \in CommitTypes
    PROVE  /\ l[i].player \in Seats /\ l[i].amount \in Nat
           /\ l[i].amount <= h.committed_this_hand[l[i].player]
           /\ l[i].amount <= h.pot_amount
<1>1. /\ h \in HandState /\ LedgerSound(l) /\ PotExplained(h, l, r)
  BY ExplainedParts
<1>2. PICK n : n = Len(l)
  OBVIOUS
<1>3. /\ n \in Nat /\ DOMAIN l = 1..n /\ EntrySound(l[i], i)
      /\ \A s \in Seats : StandingOf(l, s) \in [1..n -> Nat]
  BY <1>1, <1>2, LedgerPlaces
<1>4. PICK q, a : q = l[i].player /\ a = l[i].amount
  OBVIOUS
<1>5. q \in Seats /\ a \in Nat
  BY <1>3, <1>4 DEF EntrySound, CommitTypes, CorrectionTypes
<1>6. PICK f, D : f = StandingOf(l, q) /\ D = 1..n
  OBVIOUS
<1>7. f \in [D -> Nat] /\ i \in D /\ IsFiniteSet(D)
  <2>1. IsFiniteSet(D)
    BY <1>3, <1>6, FS_Interval
  <2>2. f \in [D -> Nat] /\ i \in D
    BY <1>2, <1>3, <1>5, <1>6
  <2> QED
    BY <2>1, <2>2
<1>8. f[i] = a
  BY <1>3, <1>4, <1>6, <1>7 DEF StandingOf
<1>9. a <= SumFunction(f)
  BY ONLY <1>7, <1>8, SumFunctionBound
<1>10. PICK c \in [Seats -> Nat] : c = h.committed_this_hand
  BY <1>1, HandColumns
<1>11. c[q] = SumFunction(f) /\ h.pot_amount = SumFunction(c)
  BY <1>1, <1>5, <1>6, <1>10 DEF PotExplained, Standing
<1>12. c[q] <= SumFunction(c)
  BY ONLY <1>5, SeatsAssumption, c \in [Seats -> Nat], SumFunctionBound
<1>13. c[q] \in Nat /\ SumFunction(c) \in Nat
  BY <1>1, <1>5, <1>11, HandColumns
<1> QED
  BY <1>4, <1>5, <1>9, <1>10, <1>11, <1>12, <1>13

(* reverse_action: the chips go back to the stack whatever they were; the  *)
(* clamps at zero bite only on an entry that never committed any.          *)
LEMMA ReversalExplained ==
    ASSUME NEW h, NEW d, NEW l, NEW r, Explained(h, d, l, r),
           NEW i \in 1..Len(l), l[i].type \notin CorrectionTypes, i \notin ReversedOf(l),
           NEW h2, h2 = Reversed(h, l[i]),
           NEW l2, l2 = Append(l, ReversalOf(l, i))
    PROVE  Explained(h2, d, l2, RebuildHandState(l2))
<1>1. h \in HandState /\ LedgerSound(l) /\ r = RebuildHandState(l) /\ r \in Replayed
  BY ExplainedParts
<1>2. EntrySound(l[i], i)
  BY ONLY <1>1, i \in 1..Len(l), LedgerPlaces
<1>3. PICK q, a : q = l[i].player /\ a = l[i].amount
  OBVIOUS
<1>4. /\ q \in Seats \cup {NoSeat} /\ a \in Nat
      /\ l[i].type \in CommitTypes => q \in Seats
  BY <1>2, <1>3 DEF EntrySound, LedgerEntry
<1>5. PICK x : x = ReversalOf(l, i)
  OBVIOUS
<1>6. x \in LedgerEntry /\ x.type = "ACTION_REVERSED" /\ x.player = q /\ x.amount = a
  BY <1>1, <1>3, <1>5, ReversalTyped
<1>7. /\ LedgerSound(l2)
      /\ OnlyBetsReversed(l2) => OnlyBetsReversed(l) /\ l[i].type \in CommitTypes
      /\ RebuildHandState(l2) = ApplyEntry(RebuildHandState(l), x)
      /\ l[i].type \in CommitTypes =>
            \A s \in Seats :
               Standing(l2, s) = Standing(l, s) - IF l[i].player = s THEN l[i].amount ELSE 0
  <2>1. LedgerSound(l) /\ l2 = Append(l, x) /\ i \in 1..Len(l) /\ i \notin ReversedOf(l)
    BY <1>1, <1>5
  <2>2. TakenBack(l2, l, i, x)
    BY ONLY <1>5, <2>1, ReversalAppended
  <2> QED
    BY ONLY <2>2 DEF TakenBack
<1>8. PICK v \in Int : v = -a
  BY <1>4
<1>9. PICK m : m = RebuildHandState(l2)
  OBVIOUS
<1>10. /\ m \in Replayed /\ m.committed = Plus(r.committed, q, v) /\ m.pot = r.pot + v
       /\ SameWins(m, r) /\ SameAdjustments(m, r) /\ SameEnd(m, r)
  <2>1. m = ApplyEntry(r, x) /\ v = -x.amount
    BY <1>1, <1>6, <1>7, <1>8, <1>9
  <2>2. /\ m \in Replayed /\ m.committed = Plus(r.committed, x.player, v)
        /\ m.pot = r.pot + v
        /\ SameWins(m, r) /\ SameAdjustments(m, r) /\ SameEnd(m, r)
    BY ONLY <1>1, <1>6, <2>1, v \in Int, BetApplied
  <2> QED
    BY <1>6, <2>2
<1>11. /\ h.stack_remaining \in [Seats -> Nat] /\ h.committed_this_hand \in [Seats -> Nat]
       /\ h.committed_this_street \in [Seats -> Nat] /\ h.pot_amount \in Nat
  BY <1>1, HandColumns
<1>12. OnlyBetsReversed(l2) =>
          /\ OnlyBetsReversed(l) /\ q \in Seats
          /\ a <= h.committed_this_hand[q] /\ a <= h.pot_amount
          /\ \A s \in Seats : Standing(l2, s) = Standing(l, s) + IF s = q THEN v ELSE 0
  <2> SUFFICES ASSUME OnlyBetsReversed(l2)
               PROVE  /\ OnlyBetsReversed(l) /\ q \in Seats
                      /\ a <= h.committed_this_hand[q] /\ a <= h.pot_amount
                      /\ \A s \in Seats :
                            Standing(l2, s) = Standing(l, s) + IF s = q THEN v ELSE 0
    OBVIOUS
  <2>1. OnlyBetsReversed(l) /\ l[i].type \in CommitTypes
    BY <1>7
  <2>2. l[i].amount <= h.committed_this_hand[l[i].player] /\ l[i].amount <= h.pot_amount
    BY <2>1, StandingEntryIsCovered
  <2>3. \A s \in Seats : Standing(l2, s) = Standing(l, s) - IF q = s THEN a ELSE 0
    BY <1>3, <1>7, <2>1
  <2>4. \A s \in Seats : Standing(l, s) \in Nat
    BY ONLY <1>1, LedgerPlaces
  <2>5. \A s \in Seats : Standing(l2, s) = Standing(l, s) + IF s = q THEN v ELSE 0
    BY <1>4, <1>8, <2>3, <2>4
  <2> QED
    BY <1>3, <1>4, <2>1, <2>2, <2>5
<1>13. /\ h2 \in HandState /\ h2.status = h.status
       /\ \A s \in Seats :
             h2.stack_remaining[s] = h.stack_remaining[s] - IF s = q THEN v ELSE 0
       /\ q \in Seats /\ a <= h.committed_this_hand[q] /\ a <= h.pot_amount =>
             /\ \A s \in Seats : h2.committed_this_hand[s]
                                    = h.committed_this_hand[s] + IF s = q THEN v ELSE 0
             /\ h2.pot_amount = h.pot_amount + v
  <2>1. CASE q = NoSeat \/ a <= 0
    <3>1. h2 = h
      BY <1>3, <2>1 DEF Reversed
    <3>2. \A s \in Seats : s = q => v = 0
      BY <1>4, <1>8, <2>1, SeatsAssumption
    <3>3. q \in Seats => v = 0
      BY <3>2
    <3> QED
      BY <1>1, <1>11, <3>1, <3>2, <3>3
  <2>2. CASE ~(q = NoSeat \/ a <= 0)
    <3>1. q \in Seats /\ a > 0
      BY <1>4, <2>2
    <3>2. h2 = [h EXCEPT
                  !.stack_remaining[q] = @ + a,
                  !.committed_this_street[q] = AtLeastZero(@ - a),
                  !.committed_this_hand[q] = AtLeastZero(@ - a),
                  !.pot_amount = AtLeastZero(@ - a)]
      BY <1>3, <2>2 DEF Reversed
    <3>3. PICK stacks, street, total, pot :
             /\ stacks = [h.stack_remaining EXCEPT ![q] = @ + a]
             /\ street = [h.committed_this_street EXCEPT ![q] = AtLeastZero(@ - a)]
             /\ total = [h.committed_this_hand EXCEPT ![q] = AtLeastZero(@ - a)]
             /\ pot = AtLeastZero(h.pot_amount - a)
      OBVIOUS
    <3>4. \A z \in Int : AtLeastZero(z) \in Nat /\ (z >= 0 => AtLeastZero(z) = z)
      BY DEF AtLeastZero
    <3>5. stacks \in [Seats -> Nat]
      <4>1. PICK f \in [Seats -> Nat] : f = h.stack_remaining
        BY <1>11
      <4>2. stacks = [f EXCEPT ![q] = @ + a]
        BY <3>3, <4>1
      <4> QED
        BY ONLY <1>4, <3>1, <4>2, f \in [Seats -> Nat]
    <3>6. street \in [Seats -> Nat] /\ total \in [Seats -> Nat] /\ pot \in Nat
      <4>1. PICK u \in Nat, w \in Nat, z \in Nat :
               /\ u = AtLeastZero(h.committed_this_street[q] - a)
               /\ w = AtLeastZero(h.committed_this_hand[q] - a)
               /\ z = AtLeastZero(h.pot_amount - a)
        <5>1. /\ h.committed_this_street[q] - a \in Int
              /\ h.committed_this_hand[q] - a \in Int /\ h.pot_amount - a \in Int
          BY ONLY <1>4, <1>11, <3>1, SMTT(30)
        <5>2. /\ AtLeastZero(h.committed_this_street[q] - a) \in Nat
              /\ AtLeastZero(h.committed_this_hand[q] - a) \in Nat
              /\ AtLeastZero(h.pot_amount - a) \in Nat
          BY ONLY <3>4, <5>1
        <5> QED
          BY ONLY <5>2
      <4>2. /\ street = [h.committed_this_street EXCEPT ![q] = u]
            /\ total = [h.committed_this_hand EXCEPT ![q] = w] /\ pot = z
        BY <3>3, <4>1
      <4> QED
        BY <1>11, <4>2
    <3>7. h2 = [h EXCEPT !.stack_remaining = stacks, !.committed_this_street = street,
                         !.committed_this_hand = total, !.pot_amount = pot]
      BY <1>1, <3>2, <3>3 DEF HandState
    <3>8. /\ h2 \in HandState /\ h2.status = h.status /\ h2.stack_remaining = stacks
          /\ h2.committed_this_hand = total /\ h2.pot_amount = pot
      BY ONLY <1>1, <3>5, <3>6, <3>7 DEF HandState
    <3>9. \A s \in Seats : stacks[s] = h.stack_remaining[s] - IF s = q THEN v ELSE 0
      BY <1>4, <1>8, <1>11, <3>3
    <3>10. ASSUME a <= h.committed_this_hand[q], a <= h.pot_amount
           PROVE  /\ \A s \in Seats : total[s]
                                         = h.committed_this_hand[s] + IF s = q THEN v ELSE 0
                  /\ pot = h.pot_amount + v
      <4>1. pot = h.pot_amount + v
        <5>1. PICK z \in Int : z = h.pot_amount - a
          BY <1>4, <1>11
        <5>2. z >= 0 /\ z = h.pot_amount + v
          BY ONLY <1>4, <1>8, <1>11, <3>10, <5>1
        <5>3. pot = AtLeastZero(z)
          BY <3>3, <5>1
        <5> QED
          BY ONLY <3>4, <5>2, <5>3, z \in Int
      <4>2. AtLeastZero(h.committed_this_hand[q] - a) = h.committed_this_hand[q] + v
        BY <1>4, <1>8, <1>11, <3>1, <3>4, <3>10
      <4>3. \A s \in Seats : total[s]
                                = h.committed_this_hand[s] + IF s = q THEN v ELSE 0
        <5>1. PICK f \in [Seats -> Nat] : f = h.committed_this_hand
          BY <1>11
        <5>2. PICK w : w = AtLeastZero(f[q] - a)
          OBVIOUS
        <5>3. total = [f EXCEPT ![q] = w] /\ w = f[q] + v
          BY <3>3, <4>2, <5>1, <5>2
        <5>4. \A s \in Seats : total[s] = f[s] + IF s = q THEN v ELSE 0
          BY ONLY <3>1, <5>3, f \in [Seats -> Nat], v \in Int
        <5> QED
          BY <5>1, <5>4
      <4> QED
        BY <4>1, <4>3
    <3> QED
      BY <3>8, <3>9, <3>10
  <2> QED
    BY <2>1, <2>2
<1>14. Moved(h, h2, l, l2, q, v)
  BY <1>7, <1>12, <1>13 DEF Moved
<1>15. Explained(h2, d, l2, m)
  BY ONLY Explained(h, d, l, r), <1>9, <1>10, <1>14, v \in Int, MoveExplained
<1> QED
  BY <1>9, <1>15
-----------------------------------------------------------------------------
(* The hand as it is dealt                                                 *)

CompletionsOf(l) == {i \in DOMAIN l : l[i].type = "ROUND_COMPLETED"}

(* Of the first entries every one stands. *)
LEMMA PostedLedger ==
    ASSUME NEW l, NEW n, NEW q, NEW c \in [Seats -> Nat], IsPosting(l, n, q, c)
    PROVE  /\ LedgerSound(l) /\ ReversedOf(l) = {} /\ CompletionsOf(l) = {}
           /\ \A s \in Seats : Standing(l, s) = c[s]
<1>1. /\ n \in Nat /\ q \in [1..n -> Seats]
      /\ \A i, j \in 1..n : i < j => q[i] < q[j]
      /\ \A s \in Seats : c[s] > 0 => \E i \in 1..n : q[i] = s
      /\ DOMAIN l = 1..n /\ l = [i \in 1..n |-> l[i]]
      /\ \A i \in 1..n : \E t \in CommitTypes : l[i] = Entry(t, q[i], c[q[i]])
  BY DEF IsPosting
<1>2. ASSUME NEW i \in 1..n
      PROVE  /\ l[i] \in LedgerEntry /\ l[i].type \in CommitTypes /\ l[i].player = q[i]
             /\ l[i].amount = c[q[i]] /\ l[i].original = 0
             /\ q[i] \in Seats /\ c[q[i]] \in Nat
  <2>1. PICK t \in CommitTypes : l[i] = Entry(t, q[i], c[q[i]])
    BY <1>1
  <2>2. PICK y, seat, a : y = l[i] /\ seat = q[i] /\ a = c[q[i]]
    OBVIOUS
  <2>3. seat \in Seats /\ a \in Nat
    BY <1>1, <2>2
  <2>4. /\ t \in EntryTypes /\ seat \in Seats \cup {NoSeat} /\ a \in Int
        /\ y = Entry(t, seat, a)
    BY <2>1, <2>2, <2>3 DEF EntryTypes
  <2>5. /\ y \in LedgerEntry /\ y.type = t /\ y.player = seat /\ y.amount = a
        /\ y.original = 0
    BY ONLY <2>4, EntryTyped
  <2> QED
    BY <2>2, <2>3, <2>5
<1>3. \A i \in 1..n : l[i].type # "ACTION_REVERSED" /\ l[i].type # "ROUND_COMPLETED"
  BY <1>2 DEF CommitTypes
<1>4. LedgerSound(l)
  <2>1. l \in [1..n -> LedgerEntry]
    <3>1. \A i \in 1..n : l[i] \in LedgerEntry
      BY <1>2
    <3>2. [i \in 1..n |-> l[i]] \in [1..n -> LedgerEntry]
      BY <3>1
    <3> QED
      BY <1>1, <3>2
  <2>2. l \in Seq(LedgerEntry) /\ Len(l) = n
    BY <1>1, <2>1, FunctionIsSeq
  <2>3. \A i \in 1..n : EntrySound(l[i], i)
    BY <1>2, <1>3 DEF EntrySound
  <2> QED
    BY <2>2, <2>3 DEF LedgerSound
<1>5. ReversedOf(l) = {} /\ CompletionsOf(l) = {}
  BY <1>1, <1>3 DEF ReversedOf, CompletionsOf
<1>6. ASSUME NEW s \in Seats  PROVE Standing(l, s) = c[s]
  <2>1. PICK f, D : f = StandingOf(l, s) /\ D = 1..n
    OBVIOUS
  <2>2. f \in [D -> Nat]
    <3>1. PICK z : z = Len(l)
      OBVIOUS
    <3>2. StandingOf(l, s) \in [1..z -> Nat] /\ DOMAIN l = 1..z
      BY ONLY <1>4, <3>1, s \in Seats, LedgerPlaces
    <3> QED
      BY <1>1, <2>1, <3>2
  <2>3. IsFiniteSet(D)
    <3>1. 1 \in Int /\ n \in Int
      BY <1>1
    <3> QED
      BY ONLY <2>1, <3>1, FS_Interval
  <2>4. \A i \in D : f[i] = IF q[i] = s THEN c[s] ELSE 0
    <3> SUFFICES ASSUME NEW i \in D  PROVE f[i] = IF q[i] = s THEN c[s] ELSE 0
      OBVIOUS
    <3>1. i \in DOMAIN l /\ i \in 1..n
      BY <1>1, <2>1
    <3>2. l[i].type \in CommitTypes /\ l[i].player = q[i] /\ l[i].amount = c[q[i]]
      BY <1>2, <3>1
    <3>3. f[i] = IF l[i].player = s THEN l[i].amount ELSE 0
      BY <1>5, <2>1, <3>1, <3>2 DEF StandingOf
    <3> QED
      BY <3>2, <3>3
  <2>5. CASE \E i \in D : q[i] = s
    <3>1. PICK i \in D : q[i] = s
      BY <2>5
    <3>2. \A j \in D : j # i => f[j] = 0
      <4> SUFFICES ASSUME NEW j \in D, j # i  PROVE f[j] = 0
        OBVIOUS
      <4>1. q[i] \in Nat /\ q[j] \in Nat
        BY <1>2, <2>1, SeatsAssumption
      <4>2. i < j \/ j < i
        BY <2>1
      <4>3. q[i] < q[j] \/ q[j] < q[i]
        BY <1>1, <2>1, <4>2
      <4>4. q[j] # s
        BY <3>1, <4>1, <4>3
      <4> QED
        BY <2>4, <4>4
    <3>3. SumFunction(f) = f[i]
      BY ONLY <2>2, <2>3, <3>2, i \in D, SumOfOne
    <3> QED
      BY <2>1, <2>4, <3>1, <3>3 DEF Standing
  <2>6. CASE ~\E i \in D : q[i] = s
    <3>1. ~(c[s] > 0) /\ c[s] \in Nat
      BY <1>1, <2>1, <2>6
    <3>2. \A i \in D : f[i] = 0
      BY <2>4, <2>6
    <3>3. SumFunction(f) = 0
      BY ONLY <2>2, <2>3, <3>2, SumFunctionZero
    <3> QED
      BY <2>1, <3>1, <3>3 DEF Standing
  <2> QED
    BY <2>5, <2>6
<1> QED
  BY <1>4, <1>5, <1>6

(* start_round: the entries it writes explain the hand it deals. *)
LEMMA DealtExplained ==
    ASSUME NEW d \in FirstChips, NEW starting \in Seats,
           NEW pos, pos = AssignPositions(Seats, starting),
           NEW h, h = DealtHand(d, pos, BlindLevel), NEW l, l = PostingEntries(h, pos)
    PROVE  /\ Explained(h, d, l, RebuildHandState(l)) /\ CompletionsOf(l) = {}
           /\ DOMAIN l # {}
<1>1. /\ d \in [Seats -> Nat] /\ {s \in Seats : d[s] > 0} # {} /\ BlindLevel \in Level
      /\ \A s \in Seats : d[s] \in Nat
  BY LedgerAssumption
<1>2. pos \in Positions
  <2>1. Seats \in SUBSET Nat /\ Seats # {} /\ starting \in Nat
    BY SeatsAssumption
  <2>2. PICK left : left = FirstAfter(Seats, starting)
    OBVIOUS
  <2>3. left \in Seats
    BY ONLY <2>1, <2>2, FirstAfterFound
  <2>4. FirstAfter(Seats, left) \in Seats
    <3>1. left \in Nat
      BY <2>1, <2>3
    <3> QED
      BY ONLY <2>1, <3>1, FirstAfterFound
  <2> QED
    BY <2>2, <2>3, <2>4 DEF AssignPositions, PositionsFrom, Positions
<1>3. /\ h \in HandState /\ h.status = "ACTIVE"
      /\ \A s \in Seats : h.stack_remaining[s] + h.committed_this_hand[s] = d[s]
      /\ h.pot_amount = SumFunction(h.committed_this_hand)
  BY <1>1, <1>2, DealtHandSound
<1>4. PICK c \in [Seats -> Nat] : c = h.committed_this_hand
  BY <1>3, HandColumns
<1>5. PICK n, q : IsPosting(l, n, q, c)
  BY ONLY <1>4, l = PostingEntries(h, pos), c \in [Seats -> Nat], PostingEntriesPost
<1>6. /\ LedgerSound(l) /\ ReversedOf(l) = {} /\ CompletionsOf(l) = {}
      /\ \A s \in Seats : Standing(l, s) = c[s]
  BY ONLY <1>5, c \in [Seats -> Nat], PostedLedger
<1>7. PICK r : r = RebuildHandState(l)
  OBVIOUS
<1>8. /\ r \in Replayed /\ r.committed = c /\ r.pot = SumFunction(c)
      /\ SameWins(r, NothingReplayed) /\ SameAdjustments(r, NothingReplayed)
      /\ SameEnd(r, NothingReplayed)
  BY ONLY <1>5, <1>7, c \in [Seats -> Nat], PostingsReplayed
<1>9. \A s \in Seats : r.won[s] = 0 /\ r.adjusted[s] = 0
  BY <1>8 DEF SameWins, SameAdjustments, NothingReplayed
<1>10. StacksExplained(h, d, r)
  <2> SUFFICES ASSUME NEW s \in Seats
               PROVE  h.stack_remaining[s]
                         = d[s] - r.committed[s] + r.won[s] + r.adjusted[s]
    BY DEF StacksExplained
  <2>1. h.stack_remaining[s] \in Nat /\ c[s] \in Nat /\ d[s] \in Nat
    BY <1>1, <1>3, HandColumns
  <2>2. h.stack_remaining[s] + c[s] = d[s]
    BY <1>3, <1>4
  <2>3. r.committed[s] = c[s] /\ r.won[s] = 0 /\ r.adjusted[s] = 0
    BY <1>8, <1>9
  <2> QED
    BY ONLY <2>1, <2>2, <2>3
<1>11. PotExplained(h, l, r)
  BY <1>3, <1>4, <1>6, <1>8 DEF PotExplained
<1>12. r.is_completed = (h.status = "COMPLETED")
  <2>1. r.is_completed = FALSE /\ (h.status = "COMPLETED") = FALSE
    BY <1>3, <1>8 DEF SameEnd, NothingReplayed
  <2> QED
    BY <2>1
<1>13. Explained(h, d, l, r)
  BY <1>1, <1>3, <1>6, <1>7, <1>8, <1>10, <1>11, <1>12 DEF Explained
<1>14. DOMAIN l # {}
  <2>1. PICK s \in Seats : s = pos.sb
    BY <1>2 DEF Positions
  <2>2. /\ d[s] \in Nat \ {0} /\ BlindLevel.ante \in Nat
        /\ BlindLevel.small_blind \in Nat \ {0}
    BY LedgerAssumption DEF Level
  <2>3. c[s] = Posted(s, d[s], pos, BlindLevel)
    BY <1>4 DEF DealtHand
  <2>4. c[s] = Smaller(BlindLevel.ante, d[s])
                 + Smaller(BlindLevel.small_blind, d[s] - Smaller(BlindLevel.ante, d[s]))
    BY <2>1, <2>3 DEF Posted
  <2>5. c[s] > 0
    BY ONLY <2>2, <2>4 DEF Smaller
  <2>6. PICK i \in 1..n : q[i] = s
    BY <1>5, <2>5 DEF IsPosting
  <2> QED
    BY <1>5, <2>6 DEF IsPosting
<1> QED
  BY <1>6, <1>7, <1>13, <1>14

(* An entry of another type completes nothing. *)
LEMMA CompletionsKept ==
    ASSUME NEW l, LedgerSound(l), NEW x \in LedgerEntry, x.type # "ROUND_COMPLETED",
           NEW e, e = Append(l, x)
    PROVE  CompletionsOf(e) = CompletionsOf(l)
<1>1. PICK n \in Nat : n = Len(l)
  BY LedgerPlaces
<1>2. DOMAIN l = 1..n /\ l \in Seq(LedgerEntry)
  BY <1>1, LedgerPlaces DEF LedgerSound
<1>3. DOMAIN e = 1..(n + 1) /\ (\A i \in 1..n : e[i] = l[i]) /\ e[n + 1] = x
  BY <1>1, <1>2
<1>4. \A i \in 1..(n + 1) : i \in 1..n \/ i = n + 1
  OBVIOUS
<1>5. \A i \in 1..n : i \in 1..(n + 1)
  OBVIOUS
<1> QED
  BY <1>2, <1>3, <1>4, <1>5 DEF CompletionsOf
-----------------------------------------------------------------------------
(* The theorems                                                            *)

(* The amounts a client may submit are numbers of chips. *)
LEMMA AmountsAreNumbers ==
    ASSUME hand \in HandState, NEW p \in Seats, NEW action, NEW amount \in Amounts(action)
    PROVE  amount \in Nat
<1>1. PICK A : A = {hand.stack_remaining[s] + hand.committed_this_street[s] : s \in Seats}
  OBVIOUS
<1>2. hand.stack_remaining \in [Seats -> Nat] /\ hand.committed_this_street \in [Seats -> Nat]
  BY HandColumns
<1>3. A \in SUBSET Nat /\ A # {}
  BY <1>1, <1>2
<1>4. IsFiniteSet(A)
  <2>1. PICK m : m = [s \in Seats |-> hand.stack_remaining[s] + hand.committed_this_street[s]]
    OBVIOUS
  <2>2. m \in Surjection(Seats, A)
    BY <1>1, <2>1 DEF Surjection
  <2>3. IsFiniteSet(Seats)
    BY SeatsAssumption
  <2> QED
    BY ONLY <2>2, <2>3, FS_Surjection
<1>5. PICK k : k = Max(A)
  OBVIOUS
<1>6. k \in Nat
  BY <1>3, <1>4, <1>5, MaxNat
<1> QED
  BY <1>1, <1>5, <1>6 DEF Amounts

(* The dealer and the clients start from a hand the ledger explains. *)
LEMMA LedgerInitially == Init => LedgerInv
<1> SUFFICES ASSUME Init  PROVE LedgerInv
  OBVIOUS
<1>1. PICK starting \in Seats :
         /\ hand = DealtHand(dealt, AssignPositions(Seats, starting), BlindLevel)
         /\ ledger = PostingEntries(hand, AssignPositions(Seats, starting))
  BY DEF Init
<1>2. dealt \in FirstChips /\ payout_rows = <<>> /\ counted = 0
  BY DEF Init
<1>3. Explained(hand, dealt, ledger, RebuildHandState(ledger)) /\ CompletionsOf(ledger) = {}
  BY ONLY <1>1, <1>2, starting \in Seats, DealtExplained
<1>4. Completions = {}
  BY <1>3 DEF Completions, CompletionsOf
<1>5. payout_rows \in Seq(PayoutRow)
  BY <1>2
<1> QED
  BY <1>2, <1>3, <1>4, <1>5 DEF LedgerInv

(* A correction or a bet: one entry, no new rows, nothing counted. *)
LEMMA EntryKeepsCount ==
    ASSUME LedgerInv, NEW x \in LedgerEntry, x.type # "ROUND_COMPLETED",
           ledger' = Append(ledger, x), UNCHANGED <<dealt, payout_rows, counted>>,
           Explained(hand', dealt, ledger', RebuildHandState(ledger'))
    PROVE  LedgerInv'
<1>1. /\ LedgerSound(ledger) /\ payout_rows \in Seq(PayoutRow)
      /\ counted = IF Completions = {} THEN 0 ELSE 1
  BY ExplainedParts DEF LedgerInv
<1>2. CompletionsOf(ledger') = CompletionsOf(ledger)
  BY <1>1, CompletionsKept
<1>3. Completions' = Completions
  BY <1>2 DEF Completions, CompletionsOf
<1> QED
  BY <1>1, <1>3 DEF LedgerInv

(* place_bet *)
LEMMA BetKept ==
    ASSUME LedgerInv, NEW p \in Seats, NEW action \in Actions,
           NEW amount \in Amounts(action), PlaceBet(p, action, amount)
    PROVE  LedgerInv'
<1>1. /\ Explained(hand, dealt, ledger, RebuildHandState(ledger)) /\ hand \in HandState
  BY ExplainedParts DEF LedgerInv
<1>2. amount \in Nat
  BY <1>1, AmountsAreNumbers
<1>3. PICK chips, x : chips = Chips(hand, p, action, amount) /\ x = Entry("BET_PLACED", p, chips)
  OBVIOUS
<1>4. /\ ValidateBet(hand, p, action, amount) /\ hand' = ApplyAction(hand, p, action, amount)
      /\ ledger' = Append(ledger, x) /\ UNCHANGED <<dealt, payout_rows, counted>>
      /\ x = BetEntry(hand, p, action, amount)
  BY <1>3 DEF PlaceBet, BetEntry
<1>5. chips \in Int
  BY <1>1, <1>2, <1>3, <1>4, ChipsBound
<1>6. x \in LedgerEntry /\ x.type = "BET_PLACED"
  <2>1. "BET_PLACED" \in EntryTypes /\ p \in Seats \cup {NoSeat}
    BY DEF EntryTypes, CommitTypes
  <2> QED
    BY ONLY <1>3, <1>5, <2>1, EntryTyped
<1>7. Explained(hand', dealt, ledger', RebuildHandState(ledger'))
  BY ONLY <1>1, <1>2, <1>4, p \in Seats, action \in Actions, BetExplained
<1> QED
  BY <1>4, <1>6, <1>7, EntryKeepsCount

(* resolve_hand: whether or not the hand was settled before, it counts as  *)
(* one hand from now on.                                                   *)
LEMMA SettlementKept ==
    ASSUME LedgerInv, NEW payouts, ResolveHand(payouts)
    PROVE  LedgerInv'
<1>1. PICK r : r = RebuildHandState(ledger)
  OBVIOUS
<1>2. /\ Explained(hand, dealt, ledger, r) /\ payout_rows \in Seq(PayoutRow)
      /\ counted = IF Completions = {} THEN 0 ELSE 1
  BY <1>1 DEF LedgerInv
<1>3. /\ PayoutsAccepted(hand, payouts) /\ hand' = ResolvedHand(hand, payouts)
      /\ ledger' = ledger \o PayoutEntries(hand, payouts)
      /\ payout_rows' = payout_rows \o PayoutRows(payouts)
      /\ counted' = (IF Completions = {} THEN counted + 1 ELSE counted) /\ dealt' = dealt
  BY DEF ResolveHand, CountHand
<1>4. payouts \in PayoutRequest /\ payouts # <<>>
  BY <1>3 DEF PayoutsAccepted
<1>5. Explained(hand', dealt, ledger', RebuildHandState(ledger'))
  BY ONLY <1>2, <1>3, SettlementExplained
<1>6. payout_rows' \in Seq(PayoutRow)
  <2>1. PICK rows : rows = PayoutRows(payouts)
    OBVIOUS
  <2>2. rows \in Seq(PayoutRow)
    BY <1>4, <2>1, PayoutRowsPay
  <2> QED
    BY <1>2, <1>3, <2>1, <2>2
<1>7. Completions' # {}
  <2>1. /\ LedgerSound(ledger) /\ r = RebuildHandState(ledger) /\ r \in Replayed
        /\ hand \in HandState
    BY <1>2, ExplainedParts
  <2>2. hand.pot_amount \in Nat
    BY <2>1, HandColumns
  <2>3. Settling(ledger', ledger, hand, payouts)
    BY <1>3, <1>4, <2>2 DEF Settling
  <2>4. PICK m : m = RebuildHandState(ledger')
    OBVIOUS
  <2>5. Settled(ledger', ledger, m, r, payouts)
    BY ONLY <2>1, <2>3, <2>4, SettlementAppended
  <2>6. Len(ledger') \in DOMAIN ledger' /\ ledger'[Len(ledger')].type = "ROUND_COMPLETED"
    BY <2>5 DEF Settled
  <2> QED
    BY <2>6 DEF Completions
<1>8. counted' = 1
  BY <1>2, <1>3
<1> QED
  BY <1>3, <1>5, <1>6, <1>7, <1>8 DEF LedgerInv

(* reverse_action *)
LEMMA ReversalKept ==
    ASSUME LedgerInv, NEW i \in DOMAIN ledger, ReverseAction(i)
    PROVE  LedgerInv'
<1>1. PICK x, n : x = ReversalOf(ledger, i) /\ n = Len(ledger)
  OBVIOUS
<1>2. Explained(hand, dealt, ledger, RebuildHandState(ledger)) /\ LedgerSound(ledger)
  BY ExplainedParts DEF LedgerInv
<1>3. i \in 1..Len(ledger)
  BY <1>1, <1>2, LedgerPlaces
<1>4. /\ ledger[i].type \notin CorrectionTypes /\ i \notin ReversedOf(ledger)
      /\ hand' = Reversed(hand, ledger[i]) /\ ledger' = Append(ledger, x)
      /\ UNCHANGED <<dealt, payout_rows, counted>>
  BY <1>1 DEF ReverseAction, ReversedEntries, ReversedOf, ReversalOf
<1>5. x \in LedgerEntry /\ x.type = "ACTION_REVERSED"
  BY ONLY <1>1, <1>2, <1>3, ReversalTyped
<1>6. Explained(hand', dealt, ledger', RebuildHandState(ledger'))
  BY ONLY <1>1, <1>2, <1>3, <1>4, ReversalExplained
<1> QED
  BY <1>4, <1>5, <1>6, EntryKeepsCount

(* adjust_stack *)
LEMMA AdjustmentKept ==
    ASSUME LedgerInv, NEW p \in Seats, NEW amount \in Adjustments, AdjustStack(p, amount)
    PROVE  LedgerInv'
<1>1. PICK x, stacks : /\ x = Entry("STACK_ADJUSTED", p, amount)
                       /\ stacks = Plus(hand.stack_remaining, p, amount)
  OBVIOUS
<1>2. Explained(hand, dealt, ledger, RebuildHandState(ledger)) /\ amount \in Int
  BY LedgerAssumption DEF LedgerInv
<1>3. /\ \A s \in Seats : stacks[s] >= 0
      /\ hand' = [hand EXCEPT !.stack_remaining = stacks] /\ ledger' = Append(ledger, x)
      /\ UNCHANGED <<dealt, payout_rows, counted>>
  BY <1>1 DEF AdjustStack, SetStacks
<1>4. x \in LedgerEntry /\ x.type = "STACK_ADJUSTED"
  <2>1. "STACK_ADJUSTED" \in EntryTypes /\ p \in Seats \cup {NoSeat}
    BY DEF EntryTypes, CorrectionTypes
  <2> QED
    BY ONLY <1>1, <1>2, <2>1, EntryTyped
<1>5. Explained(hand', dealt, ledger', RebuildHandState(ledger'))
  BY ONLY <1>1, <1>2, <1>3, p \in Seats, AdjustmentExplained
<1> QED
  BY <1>3, <1>4, <1>5, EntryKeepsCount

(* reopen_hand *)
LEMMA ReopeningKept ==
    ASSUME LedgerInv, ReopenHand
    PROVE  LedgerInv'
<1>1. PICK x : x = Entry("HAND_REOPENED", NoSeat, 0)
  OBVIOUS
<1>2. Explained(hand, dealt, ledger, RebuildHandState(ledger))
  BY DEF LedgerInv
<1>3. /\ hand' = [hand EXCEPT !.status = "ACTIVE", !.is_action_closed = FALSE]
      /\ ledger' = Append(ledger, x) /\ UNCHANGED <<dealt, payout_rows, counted>>
  BY <1>1 DEF ReopenHand
<1>4. x \in LedgerEntry /\ x.type = "HAND_REOPENED"
  <2>1. "HAND_REOPENED" \in EntryTypes /\ NoSeat \in Seats \cup {NoSeat} /\ 0 \in Int
    BY DEF EntryTypes, CorrectionTypes
  <2> QED
    BY ONLY <1>1, <2>1, EntryTyped
<1>5. Explained(hand', dealt, ledger', RebuildHandState(ledger'))
  BY ONLY <1>1, <1>2, <1>3, ReopeningExplained
<1> QED
  BY <1>3, <1>4, <1>5, EntryKeepsCount

(* correct_payout *)
LEMMA CorrectionKept ==
    ASSUME LedgerInv, NEW old \in Seats, NEW new \in Seats,
           NEW a \in PayoutAmounts, NEW b \in PayoutAmounts, CorrectPayout(old, a, new, b)
    PROVE  LedgerInv'
<1>1. PICK y, x, stacks :
         /\ y = Entry("PAYOUT_CORRECTED", new, b)
         /\ x = [Entry("PAYOUT_CORRECTED", new, b) EXCEPT !.old_player = old, !.old_amount = a]
         /\ stacks = Plus(Plus(hand.stack_remaining, old, -a), new, b)
  OBVIOUS
<1>2. /\ Explained(hand, dealt, ledger, RebuildHandState(ledger))
      /\ a \in Nat /\ b \in Nat /\ a \in Int /\ b \in Int
  BY LedgerAssumption DEF LedgerInv
<1>3. /\ \A s \in Seats : stacks[s] >= 0
      /\ hand' = [hand EXCEPT !.stack_remaining = stacks] /\ ledger' = Append(ledger, x)
      /\ UNCHANGED <<dealt, payout_rows, counted>>
  BY <1>1 DEF CorrectPayout, SetStacks
<1>4. x \in LedgerEntry /\ x.type = "PAYOUT_CORRECTED"
  <2>1. "PAYOUT_CORRECTED" \in EntryTypes /\ new \in Seats \cup {NoSeat}
    BY DEF EntryTypes, CorrectionTypes
  <2>2. y \in LedgerEntry /\ y.type = "PAYOUT_CORRECTED"
    BY ONLY <1>1, <1>2, <2>1, EntryTyped
  <2>3. x = [y EXCEPT !.old_player = old, !.old_amount = a]
    BY <1>1
  <2> QED
    BY <1>2, <2>2, <2>3 DEF LedgerEntry
<1>5. Explained(hand', dealt, ledger', RebuildHandState(ledger'))
  BY ONLY <1>1, <1>2, <1>3, old \in Seats, new \in Seats, CorrectionExplained
<1> QED
  BY <1>3, <1>4, <1>5, EntryKeepsCount

(* Every command and every correction keeps the ledger's account. *)
LEMMA LedgerKept == LedgerInv /\ [HandStep \/ CorrectionStep]_vars => LedgerInv'
<1> SUFFICES ASSUME LedgerInv, [HandStep \/ CorrectionStep]_vars  PROVE LedgerInv'
  OBVIOUS
<1>1. ASSUME NEW p \in Seats, NEW action \in Actions, NEW amount \in Amounts(action),
             PlaceBet(p, action, amount)
      PROVE  LedgerInv'
  BY <1>1, BetKept
<1>2. CASE AdvanceStreet
  <2>1. /\ Explained(hand, dealt, ledger, RebuildHandState(ledger))
        /\ payout_rows \in Seq(PayoutRow) /\ counted = IF Completions = {} THEN 0 ELSE 1
    BY DEF LedgerInv
  <2>2. /\ hand.street # "SHOWDOWN" /\ hand' = AdvancedHand(hand)
        /\ UNCHANGED <<dealt, ledger, payout_rows, counted>>
    BY <1>2 DEF AdvanceStreet
  <2>3. Explained(hand', dealt, ledger, RebuildHandState(ledger))
    BY ONLY <2>1, <2>2, StreetExplained
  <2> QED
    BY <2>1, <2>2, <2>3 DEF LedgerInv, Completions
<1>3. ASSUME NEW payouts \in Submissions(hand), ResolveHand(payouts)  PROVE LedgerInv'
  BY <1>3, SettlementKept
<1>4. ASSUME NEW i \in DOMAIN ledger, ReverseAction(i)  PROVE LedgerInv'
  BY <1>4, ReversalKept
<1>5. ASSUME NEW p \in Seats, NEW amount \in Adjustments, AdjustStack(p, amount)
      PROVE  LedgerInv'
  BY <1>5, AdjustmentKept
<1>6. CASE ReopenHand
  BY <1>6, ReopeningKept
<1>7. ASSUME NEW old \in Seats, NEW new \in Seats, NEW a \in PayoutAmounts,
             NEW b \in PayoutAmounts, CorrectPayout(old, a, new, b)
      PROVE  LedgerInv'
  BY <1>7, CorrectionKept
<1>8. CASE UNCHANGED vars
  BY <1>8 DEF vars, LedgerInv, Completions
<1> QED
  BY <1>1, <1>2, <1>3, <1>4, <1>5, <1>6, <1>7, <1>8 DEF HandStep, CorrectionStep

(* The ledger and the live hand agree along every history of commands and  *)
(* corrections: the inductive invariant.                                   *)
THEOREM LedgerAlwaysAgrees == Spec => []LedgerInv
BY LedgerInitially, LedgerKept, PTL DEF Spec

(* The rows and the entries of the hand stay of their types: no stack,     *)
(* commitment or pot is ever negative, also after clamped reversals, and   *)
(* a reversal points back at an earlier entry.                             *)
THEOREM LedgerTyped == Spec => []TypeOK
<1>1. LedgerInv => TypeOK
  <2> SUFFICES ASSUME LedgerInv  PROVE TypeOK
    OBVIOUS
  <2>1. PICK n : n = Len(ledger)
    OBVIOUS
  <2>2. /\ hand \in HandState /\ dealt \in [Seats -> Nat] /\ LedgerSound(ledger)
        /\ payout_rows \in Seq(PayoutRow) /\ counted \in Nat
    BY ExplainedParts DEF LedgerInv
  <2>3. /\ n \in Nat /\ DOMAIN ledger = 1..n
        /\ \A i \in 1..n : EntrySound(ledger[i], i) /\ ledger[i] \in LedgerEntry
    BY ONLY <2>1, <2>2, LedgerPlaces
  <2>4. ASSUME NEW i \in 1..n
        PROVE  /\ ledger[i].type \in EntryTypes
               /\ ledger[i].player \in Seats \cup {NoSeat}
               /\ ledger[i].amount \in Int
               /\ ledger[i].original \in 0..(i - 1)
    <3>1. EntrySound(ledger[i], i) /\ ledger[i] \in LedgerEntry
      BY <2>3
    <3>2. /\ ledger[i].type \in EntryTypes /\ ledger[i].player \in Seats \cup {NoSeat}
          /\ ledger[i].amount \in Int
      BY <3>1 DEF LedgerEntry
    <3>3. ledger[i].original = 0 \/ ledger[i].original \in 1..(i - 1)
      BY <3>1 DEF EntrySound
    <3> QED
      BY <3>2, <3>3
  <2> QED
    BY <2>2, <2>3, <2>4 DEF TypeOK
<1> QED
  BY <1>1, LedgerAlwaysAgrees, PTL

(* record_*_action and the correction commands: whatever is bet, settled,  *)
(* reversed, adjusted, reopened and corrected, the ledger accounts for     *)
(* every chip of every stack.                                              *)
THEOREM StacksAreExplained == Spec => []LedgerExplainsStacks
<1>1. LedgerInv => LedgerExplainsStacks
  BY ExplainedParts DEF LedgerInv, StacksExplained, LedgerExplainsStacks
<1> QED
  BY <1>1, LedgerAlwaysAgrees, PTL

(* reverse_action: while only posts and bets are reversed, the live pot    *)
(* and commitments are the replayed ones, so that its clamps at zero never *)
(* hide chips.                                                             *)
THEOREM PotIsExplained == Spec => []LedgerExplainsPot
<1>1. LedgerInv => LedgerExplainsPot
  <2> SUFFICES ASSUME LedgerInv, \A i \in ReversedEntries : ledger[i].type \in CommitTypes
               PROVE  LET state == RebuildHandState(ledger)
                      IN  /\ state.pot = hand.pot_amount
                          /\ \A s \in Seats : state.committed[s] = hand.committed_this_hand[s]
    BY DEF LedgerExplainsPot
  <2>1. OnlyBetsReversed(ledger)
    BY DEF OnlyBetsReversed, ReversedOf, ReversedEntries
  <2>2. PotExplained(hand, ledger, RebuildHandState(ledger))
    BY <2>1, ExplainedParts DEF LedgerInv
  <2> QED
    BY <2>2 DEF PotExplained
<1> QED
  BY <1>1, LedgerAlwaysAgrees, PTL

(* has_round_completed_entry: however often a hand is reopened and settled *)
(* again, the game counts it once.                                         *)
THEOREM HandCountedOnce == Spec => []ReopenedHandCountedOnce
<1>1. LedgerInv => ReopenedHandCountedOnce
  BY DEF LedgerInv, ReopenedHandCountedOnce
<1> QED
  BY <1>1, LedgerAlwaysAgrees, PTL
-----------------------------------------------------------------------------
(* The rows of round_payouts and the explanation of a settlement           *)

(* The rows of a submission award, all together, what it pays. *)
LEMMA RowsTotal ==
    ASSUME NEW rows \in Seq(PayoutRow)
    PROVE  SumFunction(RowAmounts(rows)) = SumFunction([s \in Seats |-> Share(rows, s)])
<1>1. PICK k, v, key, total : /\ k = Len(rows) /\ v = RowAmounts(rows)
                              /\ key = [i \in 1..k |-> rows[i].player]
                              /\ total = [s \in Seats |-> Share(rows, s)]
  OBVIOUS
<1>2. /\ k \in Nat /\ DOMAIN rows = 1..k /\ v \in [1..k -> Nat]
      /\ \A i \in 1..k : v[i] = rows[i].amount
  BY <1>1, RowAmountsTyped
<1>3. \A i \in 1..k : rows[i].player \in Seats
  BY <1>1, PayoutRowTyped
<1>4. key \in [1..k -> Seats] /\ \A i \in 1..k : key[i] = rows[i].player
  BY ONLY <1>1, <1>3
<1>5. ASSUME NEW s \in Seats
      PROVE  ShareOf(rows, s) = [i \in 1..k |-> IF key[i] = s THEN v[i] ELSE 0]
  BY ONLY <1>2, <1>4 DEF ShareOf
<1>6. total = [s \in Seats |-> SumFunction([i \in 1..k |-> IF key[i] = s THEN v[i] ELSE 0])]
  BY ONLY <1>1, <1>5 DEF Share
<1>7. IsFiniteSet(1..k) /\ IsFiniteSet(Seats)
  <2>1. 1 \in Int /\ k \in Int
    BY <1>2
  <2>2. IsFiniteSet(1..k)
    BY ONLY <2>1, FS_Interval
  <2> QED
    BY <2>2, SeatsAssumption
<1>8. KeyTotals(total, v, key, 1..k, Seats)
  BY ONLY <1>2, <1>4, <1>6, <1>7 DEF KeyTotals
<1>9. SumFunction(total) = SumFunction(v)
  BY ONLY <1>8, SumByKey
<1> QED
  BY ONLY <1>1, <1>9

LEMMA PayoutRowsTotal ==
    ASSUME NEW payouts \in PayoutRequest, payouts # <<>>
    PROVE  SumFunction(RowAmounts(PayoutRows(payouts))) = TotalPaid(payouts)
<1>1. PICK rows : rows = PayoutRows(payouts)
  OBVIOUS
<1>2. rows \in Seq(PayoutRow) /\ \A s \in Seats : Share(rows, s) = Winnings(payouts, s)
  BY <1>1, PayoutRowsPay
<1>3. [s \in Seats |-> Share(rows, s)] = [s \in Seats |-> Winnings(payouts, s)]
  BY ONLY <1>2
<1>4. SumFunction(RowAmounts(rows)) = SumFunction([s \in Seats |-> Share(rows, s)])
  BY ONLY <1>2, RowsTotal
<1>5. SumFunction([s \in Seats |-> Winnings(payouts, s)]) = TotalPaid(payouts)
  BY SubmissionSums
<1> QED
  BY ONLY <1>1, <1>3, <1>4, <1>5

(* Every row carries the index of a submitted pot. *)
LEMMA PayoutRowsIndexed ==
    ASSUME NEW payouts \in PayoutRequest, payouts # <<>>, NEW D,
           \A i \in DOMAIN payouts : payouts[i].pot_index \in D
    PROVE  \A j \in DOMAIN PayoutRows(payouts) : PayoutRows(payouts)[j].pot_index \in D
<1>1. PICK m \in Nat : m = Len(payouts)
  BY DEF PayoutRequest
<1>2. m # 0 /\ DOMAIN payouts = 1..m
  BY <1>1 DEF PayoutRequest
<1>3. PICK R : R = {r \in [pot_index: Nat, player: Seats, amount: Nat] : r.pot_index \in D}
  OBVIOUS
<1>4. PICK q : q = [i \in 1..m |-> RowsOf(payouts[i])]
  OBVIOUS
<1>5. \A i \in 1..m : payouts[i].pot_index \in Nat /\ payouts[i].won \in [Seats -> Nat]
  <2>1. PICK P : P = [pot_index: Nat, amount: Nat \ {0}, won: [Seats -> Nat]]
    OBVIOUS
  <2>2. payouts \in Seq(P)
    BY <2>1 DEF PayoutRequest
  <2>3. \A i \in 1..m : payouts[i] \in P
    BY <1>2, <2>2
  <2> QED
    BY <2>1, <2>3
<1>6. ASSUME NEW i \in 1..m  PROVE q[i] \in Seq(R)
  <2>1. PICK rows : rows = RowsOf(payouts[i])
    OBVIOUS
  <2>2. rows \in Seq(PayoutRow)
    BY <1>5, <2>1, RowsOfPay
  <2>3. PICK k : k = Len(rows)
    OBVIOUS
  <2>4. k \in Nat /\ DOMAIN rows = 1..k /\ rows = [j \in 1..k |-> rows[j]]
        /\ \A j \in 1..k : rows[j] \in PayoutRow
    BY <2>2, <2>3
  <2>5. \A j \in DOMAIN rows : rows[j].pot_index = payouts[i].pot_index
    BY <2>1 DEF RowsOf
  <2>6. payouts[i].pot_index \in D
    BY <1>2
  <2>7. \A j \in 1..k : rows[j] \in R
    BY ONLY <1>3, <2>4, <2>5, <2>6 DEF PayoutRow
  <2>8. rows \in [1..k -> R]
    BY ONLY <2>4, <2>7
  <2>9. rows \in Seq(R)
    BY ONLY <2>4, <2>8, FunctionIsSeq
  <2> QED
    BY <1>4, <2>1, <2>9
<1>7. Len(q) = m
  <2>1. q \in [1..m -> Seq(R)]
    BY <1>4, <1>6
  <2> QED
    BY ONLY m \in Nat, <2>1, FunctionIsSeq
<1>8. PayoutRows(payouts) = FlattenSeq(q)
  BY <1>2, <1>4 DEF PayoutRows, RowsOf
<1>9. PICK g : IsFlat(g, q, m) /\ FlattenSeq(q) = g[m]
  BY <1>2, <1>7, FlattenSteps
<1>10. \A i \in 1..m : g[i] = IF i = 1 THEN q[i] ELSE g[i - 1] \o q[i]
  BY <1>9, FlatUnfold
<1> DEFINE Bad == {i \in 1..m : g[i] \notin Seq(R)}
<1>11. Bad = {}
  <2> SUFFICES ASSUME Bad # {}  PROVE FALSE
    OBVIOUS
  <2>1. PICK i \in Bad : \A j \in Bad : i <= j
    <3>1. Bad \in SUBSET Nat
      OBVIOUS
    <3> HIDE DEF Bad
    <3> QED
      BY <3>1, MinNat
  <2>2. i \in 1..m /\ g[i] \notin Seq(R) /\ q[i] \in Seq(R)
    BY <1>6
  <2>3. i # 1
    BY <1>10, <2>2
  <2>4. PICK p \in 1..m : i = p + 1
    BY <2>2, <2>3
  <2>5. g[p] \in Seq(R)
    BY <2>1, <2>4
  <2>6. g[i] = g[p] \o q[i]
    <3>1. g[i] = g[i - 1] \o q[i]
      BY <1>10, <2>2, <2>3
    <3>2. i - 1 = p
      BY <2>4
    <3> QED
      BY <3>1, <3>2
  <2> QED
    BY ONLY <2>2, <2>5, <2>6
<1>12. FlattenSeq(q) \in Seq(R)
  <2>1. m \in 1..m
    BY <1>2
  <2> QED
    BY <1>9, <1>11, <2>1
<1>13. \A j \in DOMAIN FlattenSeq(q) : FlattenSeq(q)[j] \in R
  BY ONLY <1>12
<1> QED
  BY <1>3, <1>8, <1>13

(* What resolve_hand pays comes out of the pot, pot by pot. *)
LEMMA SettlementRows ==
    ASSUME NEW h \in HandState, NEW payouts, PayoutsAccepted(h, payouts),
           h.pot_amount = SumFunction(h.committed_this_hand)
    PROVE  /\ SumFunction(RowAmounts(PayoutRows(payouts))) <= h.pot_amount
           /\ \A j \in DOMAIN PayoutRows(payouts) :
                 PayoutRows(payouts)[j].pot_index + 1 \in DOMAIN CalculateSidePots(h)
<1>1. /\ payouts \in PayoutRequest /\ payouts # <<>> /\ TotalPaid(payouts) <= h.pot_amount
      /\ \A i \in DOMAIN payouts : SumFunction(payouts[i].won) = payouts[i].amount
      /\ ValidatePayoutsAgainstSidePots(h, payouts)
  BY DEF PayoutsAccepted
<1>2. SumFunction(RowAmounts(PayoutRows(payouts))) <= h.pot_amount
  BY ONLY <1>1, PayoutRowsTotal
<1>3. PICK pots : pots = CalculateSidePots(h)
  OBVIOUS
<1>4. PICK m : m = Len(payouts)
  OBVIOUS
<1>5. m \in Nat /\ m # 0 /\ DOMAIN payouts = 1..m
  BY <1>1, <1>4 DEF PayoutRequest
<1>6. pots # <<>>
  <2> SUFFICES ASSUME pots = <<>>  PROVE FALSE
    OBVIOUS
  <2>1. PICK f : f = PotAmounts(pots)
    OBVIOUS
  <2>2. f \in [{} -> Nat] /\ \A i \in {} : f[i] = 0
    BY <2>1 DEF PotAmounts
  <2>3. SumFunction(f) = 0
    BY ONLY <2>2, SumFunctionZero, FS_EmptySet
  <2>4. h.pot_amount = 0
    BY <1>3, <2>1, <2>3, SidePotsHoldAll
  <2>5. PICK w : w = [i \in 1..m |-> SumFunction(payouts[i].won)]
    OBVIOUS
  <2>6. ASSUME NEW i \in 1..m  PROVE w[i] \in Nat \ {0}
    <3>1. PICK P : P = [pot_index: Nat, amount: Nat \ {0}, won: [Seats -> Nat]]
      OBVIOUS
    <3>2. payouts \in Seq(P)
      BY <1>1, <3>1 DEF PayoutRequest
    <3>3. payouts[i] \in P
      BY <1>5, <3>2
    <3>4. payouts[i].amount \in Nat \ {0}
      BY ONLY <3>1, <3>3
    <3> QED
      BY <1>1, <1>5, <2>5, <3>4
  <2>7. w \in [1..m -> Nat]
    BY <2>5, <2>6
  <2>8. IsFiniteSet(1..m)
    <3>1. 1 \in Int /\ m \in Int
      BY <1>5
    <3> QED
      BY ONLY <3>1, FS_Interval
  <2>9. w[1] <= SumFunction(w) /\ 1 \in 1..m
    <3>1. 1 \in 1..m
      BY <1>5
    <3> QED
      BY ONLY <2>7, <2>8, <3>1, SumFunctionBound
  <2>10. TotalPaid(payouts) = SumFunction(w)
    BY <1>5, <2>5 DEF TotalPaid
  <2>11. w[1] \in Nat \ {0}
    BY <2>6, <2>9
  <2>12. SumFunction(w) \in Nat
    BY ONLY <2>7, <2>8, SumFunctionNat
  <2> QED
    BY ONLY <1>1, <2>4, <2>9, <2>10, <2>11, <2>12
<1>7. PICK D : D = {d \in Nat : d + 1 \in DOMAIN pots}
  OBVIOUS
<1>8. \A i \in DOMAIN payouts : payouts[i].pot_index \in D
  <2>1. \A i \in DOMAIN payouts : payouts[i].pot_index + 1 \in DOMAIN pots
    BY <1>1, <1>3, <1>6 DEF ValidatePayoutsAgainstSidePots
  <2>2. \A i \in DOMAIN payouts : payouts[i].pot_index \in Nat
    <3>1. PICK P : P = [pot_index: Nat, amount: Nat \ {0}, won: [Seats -> Nat]]
      OBVIOUS
    <3>2. payouts \in Seq(P)
      BY <1>1, <3>1 DEF PayoutRequest
    <3>3. \A i \in DOMAIN payouts : payouts[i] \in P
      BY ONLY <3>2
    <3> QED
      BY ONLY <3>1, <3>3
  <2> QED
    BY ONLY <1>7, <2>1, <2>2
<1>9. \A j \in DOMAIN PayoutRows(payouts) : PayoutRows(payouts)[j].pot_index \in D
  BY ONLY <1>1, <1>8, PayoutRowsIndexed
<1> QED
  BY ONLY <1>2, <1>3, <1>7, <1>9

(* Rows are of a settled hand, add up to what the ledger paid and stay     *)
(* within its pot, and each is of one of its side pots.                    *)
RowsExplained(h, l, rows) ==
    /\ h.status = "COMPLETED" \/ rows = <<>>
    /\ SumFunction(Paid(l)) = SumFunction(RowAmounts(rows))
    /\ SumFunction(RowAmounts(rows)) <= h.pot_amount
    /\ \A i \in DOMAIN rows : rows[i].pot_index + 1 \in DOMAIN CalculateSidePots(h)

RowsInv == Untouched(ledger) => RowsExplained(hand, ledger, payout_rows)

(* Before the settlement nothing is paid. *)
LEMMA NoRows ==
    ASSUME NEW l, NEW rows, rows = <<>>
    PROVE  /\ SumFunction(RowAmounts(rows)) = 0
           /\ \A h \in HandState : SumFunction(Paid(l)) = 0 => RowsExplained(h, l, rows)
<1>1. PICK f : f = RowAmounts(rows)
  OBVIOUS
<1>2. f \in [{} -> Nat] /\ \A i \in {} : f[i] = 0
  BY <1>1 DEF RowAmounts
<1>3. SumFunction(f) = 0
  BY ONLY <1>2, SumFunctionZero, FS_EmptySet
<1>4. ASSUME NEW h \in HandState, SumFunction(Paid(l)) = 0  PROVE RowsExplained(h, l, rows)
  <2>1. h.pot_amount \in Nat
    BY HandColumns
  <2>2. DOMAIN rows = {}
    OBVIOUS
  <2> QED
    BY ONLY rows = <<>>, <1>1, <1>3, <1>4, <2>1, <2>2 DEF RowsExplained
<1> QED
  BY <1>1, <1>3, <1>4

(* place_bet and advance_street find no rows and add none. *)
LEMMA PlayKeepsRows ==
    ASSUME NEW h \in HandState, NEW k \in HandState, NEW l, NEW e, NEW rows,
           h.status = "ACTIVE", RowsExplained(h, l, rows),
           SumFunction(Paid(e)) = SumFunction(Paid(l))
    PROVE  RowsExplained(k, e, rows)
<1>1. rows = <<>> /\ SumFunction(Paid(l)) = SumFunction(RowAmounts(rows))
  BY DEF RowsExplained
<1>2. SumFunction(RowAmounts(rows)) = 0
  BY ONLY <1>1, NoRows
<1>3. SumFunction(Paid(e)) = 0
  BY <1>1, <1>2
<1> QED
  BY ONLY <1>1, <1>3, k \in HandState, NoRows

(* adjust_stack and correct_payout write stacks only. *)
LEMMA StacksKeepRows ==
    ASSUME NEW h \in HandState, NEW stacks, NEW k, k = [h EXCEPT !.stack_remaining = stacks],
           NEW l, NEW e, NEW rows, RowsExplained(h, l, rows),
           SumFunction(Paid(e)) = SumFunction(Paid(l))
    PROVE  RowsExplained(k, e, rows)
<1>1. /\ k.status = h.status /\ k.pot_amount = h.pot_amount
      /\ k.committed_this_hand = h.committed_this_hand
      /\ k.is_active_in_hand = h.is_active_in_hand /\ k.has_folded = h.has_folded
  BY DEF HandState
<1>2. CalculateSidePots(k) = CalculateSidePots(h)
  BY ONLY <1>1, SamePots
<1> QED
  BY <1>1, <1>2 DEF RowsExplained

(* resolve_hand. *)
LEMMA SettlementExplainsRows ==
    ASSUME NEW h \in HandState, NEW payouts, PayoutsAccepted(h, payouts),
           h.pot_amount = SumFunction(h.committed_this_hand),
           NEW k, k = ResolvedHand(h, payouts), NEW l, NEW e, NEW rows, RowsExplained(h, l, rows),
           SumFunction(Paid(e))
              = SumFunction(Paid(l)) + SumFunction(RowAmounts(PayoutRows(payouts)))
    PROVE  RowsExplained(k, e, rows \o PayoutRows(payouts))
<1>1. h.status = "ACTIVE" /\ payouts \in PayoutRequest /\ payouts # <<>>
  BY DEF PayoutsAccepted
<1>2. rows = <<>> /\ SumFunction(Paid(l)) = SumFunction(RowAmounts(rows))
  BY <1>1 DEF RowsExplained
<1>3. SumFunction(Paid(l)) = 0
  BY ONLY <1>2, NoRows
<1>4. PICK new : new = PayoutRows(payouts)
  OBVIOUS
<1>5. new \in Seq(PayoutRow)
  BY <1>1, <1>4, PayoutRowsPay
<1>6. rows \o new = new
  BY ONLY <1>2, <1>5
<1>7. /\ SumFunction(RowAmounts(new)) <= h.pot_amount
      /\ \A j \in DOMAIN new : new[j].pot_index + 1 \in DOMAIN CalculateSidePots(h)
  BY <1>4, SettlementRows
<1>8. SumFunction(RowAmounts(new)) \in Nat
  <2>1. PICK n, f : n = Len(new) /\ f = RowAmounts(new)
    OBVIOUS
  <2>2. n \in Nat /\ f \in [1..n -> Nat]
    BY ONLY <1>5, <2>1, RowAmountsTyped
  <2>3. 1 \in Int /\ n \in Int
    BY <2>2
  <2>4. IsFiniteSet(1..n)
    BY ONLY <2>3, FS_Interval
  <2> QED
    BY ONLY <2>1, <2>2, <2>4, SumFunctionNat
<1>9. SumFunction(Paid(e)) = SumFunction(RowAmounts(new))
  BY <1>3, <1>4, <1>8
<1>10. /\ k.status = "COMPLETED" /\ k.pot_amount = h.pot_amount
       /\ k.committed_this_hand = h.committed_this_hand
       /\ k.is_active_in_hand = h.is_active_in_hand /\ k.has_folded = h.has_folded
  BY DEF HandState, ResolvedHand, ClosedHand
<1>11. CalculateSidePots(k) = CalculateSidePots(h)
  BY ONLY <1>10, SamePots
<1>12. RowsExplained(k, e, new)
  BY ONLY <1>7, <1>9, <1>10, <1>11 DEF RowsExplained
<1> QED
  BY <1>4, <1>6, <1>12

(* A ledger of posts pays nothing. *)
LEMMA PostsPayNothing ==
    ASSUME NEW l, LedgerSound(l), \A i \in DOMAIN l : l[i].type \in CommitTypes
    PROVE  SumFunction(Paid(l)) = 0
<1>1. PICK n, f : n = Len(l) /\ f = Paid(l)
  OBVIOUS
<1>2. /\ n \in Nat /\ DOMAIN l = 1..n /\ f \in [1..n -> Nat]
      /\ \A i \in 1..n : f[i] = IF l[i].type = "PAYOUT_AWARDED" THEN l[i].amount ELSE 0
  BY <1>1, PaidTyped
<1>3. \A i \in 1..n : f[i] = 0
  BY <1>2 DEF CommitTypes
<1>4. 1 \in Int /\ n \in Int
  BY <1>2
<1>5. IsFiniteSet(1..n)
  BY ONLY <1>4, FS_Interval
<1> QED
  BY ONLY <1>1, <1>2, <1>3, <1>5, SumFunctionZero

(* start_round writes posts only. *)
LEMMA PostingsAreCommits ==
    ASSUME NEW h, NEW pos, NEW i \in DOMAIN PostingEntries(h, pos)
    PROVE  PostingEntries(h, pos)[i].type \in CommitTypes
BY DEF PostingEntries, Entry, CommitTypes

LEMMA RowsInitially == Init => RowsInv
<1> SUFFICES ASSUME Init  PROVE RowsInv
  OBVIOUS
<1>1. LedgerInv
  BY LedgerInitially
<1>2. hand \in HandState /\ LedgerSound(ledger)
  BY <1>1, ExplainedParts DEF LedgerInv
<1>3. PICK starting \in Seats : ledger = PostingEntries(hand, AssignPositions(Seats, starting))
  BY DEF Init
<1>4. \A i \in DOMAIN ledger : ledger[i].type \in CommitTypes
  BY ONLY <1>3, PostingsAreCommits
<1>5. SumFunction(Paid(ledger)) = 0
  BY ONLY <1>2, <1>4, PostsPayNothing
<1>6. payout_rows = <<>>
  BY DEF Init
<1>7. RowsExplained(hand, ledger, payout_rows)
  BY ONLY <1>2, <1>5, <1>6, NoRows
<1> QED
  BY <1>7 DEF RowsInv

(* Nothing reversed means only bets reversed. *)
LEMMA UntouchedBets ==
    ASSUME NEW l, Untouched(l)
    PROVE  OnlyBetsReversed(l)
BY DEF Untouched, OnlyBetsReversed, ReversedOf

LEMMA RowsKept ==
    ASSUME LedgerInv, LedgerInv', RowsInv, [HandStep \/ CorrectionStep]_vars
    PROVE  RowsInv'
<1>1. hand \in HandState /\ hand' \in HandState /\ LedgerSound(ledger) /\ LedgerSound(ledger')
  BY ExplainedParts DEF LedgerInv
<1>2. ASSUME NEW x \in LedgerEntry, x.type # "PAYOUT_AWARDED", ledger' = Append(ledger, x)
      PROVE  /\ SumFunction(Paid(ledger')) = SumFunction(Paid(ledger))
             /\ Untouched(ledger') => Untouched(ledger)
             /\ Untouched(ledger') => x.type \notin {"ACTION_REVERSED", "HAND_REOPENED"}
  BY ONLY <1>1, <1>2, PaidAppended
<1>3. ASSUME NEW p \in Seats, NEW action \in Actions, NEW amount \in Amounts(action),
             PlaceBet(p, action, amount)
      PROVE  RowsInv'
  <2>1. PICK x : x = BetEntry(hand, p, action, amount)
    OBVIOUS
  <2>2. ValidateBet(hand, p, action, amount) /\ ledger' = Append(ledger, x)
        /\ payout_rows' = payout_rows
    BY <1>3, <2>1 DEF PlaceBet
  <2>3. hand.status = "ACTIVE"
    BY <2>2 DEF ValidateBet, MayAct
  <2>4. x \in LedgerEntry /\ x.type = "BET_PLACED"
    <3>1. amount \in Nat
      BY <1>1, AmountsAreNumbers
    <3>2. PICK c : c = Chips(hand, p, action, amount)
      OBVIOUS
    <3>3. c \in Int
      BY <1>1, <2>2, <3>1, <3>2, ChipsBound
    <3>4. "BET_PLACED" \in EntryTypes /\ p \in Seats \cup {NoSeat}
      BY DEF EntryTypes, CommitTypes
    <3>5. x = Entry("BET_PLACED", p, c)
      BY <2>1, <3>2 DEF BetEntry
    <3> QED
      BY ONLY <3>3, <3>4, <3>5, EntryTyped
  <2>5. /\ SumFunction(Paid(ledger')) = SumFunction(Paid(ledger))
        /\ Untouched(ledger') => Untouched(ledger)
    BY <1>2, <2>2, <2>4
  <2>6. ASSUME RowsExplained(hand, ledger, payout_rows)
        PROVE  RowsExplained(hand', ledger', payout_rows')
    BY ONLY <1>1, <2>2, <2>3, <2>5, <2>6, PlayKeepsRows
  <2> QED
    BY <2>5, <2>6 DEF RowsInv
<1>4. CASE AdvanceStreet
  <2>1. hand.status = "ACTIVE" /\ ledger' = ledger /\ payout_rows' = payout_rows
    BY <1>4 DEF AdvanceStreet
  <2>2. ASSUME RowsExplained(hand, ledger, payout_rows)
        PROVE  RowsExplained(hand', ledger', payout_rows')
    BY ONLY <1>1, <2>1, <2>2, PlayKeepsRows
  <2> QED
    BY <2>1, <2>2 DEF RowsInv
<1>5. ASSUME NEW payouts \in Submissions(hand), ResolveHand(payouts)  PROVE RowsInv'
  <2>1. PICK r, m : r = RebuildHandState(ledger) /\ m = RebuildHandState(ledger')
    OBVIOUS
  <2>2. Explained(hand, dealt, ledger, r)
    BY <2>1 DEF LedgerInv
  <2>3. /\ PayoutsAccepted(hand, payouts) /\ hand' = ResolvedHand(hand, payouts)
        /\ ledger' = ledger \o PayoutEntries(hand, payouts)
        /\ payout_rows' = payout_rows \o PayoutRows(payouts)
    BY <1>5 DEF ResolveHand
  <2>4. hand.pot_amount \in Nat /\ payouts \in PayoutRequest /\ payouts # <<>> /\ r \in Replayed
    <3>1. hand.pot_amount \in Nat
      BY <1>1, HandColumns
    <3>2. r \in Replayed
      BY <2>2, ExplainedParts
    <3> QED
      BY <2>3, <3>1, <3>2 DEF PayoutsAccepted
  <2>5. Settling(ledger', ledger, hand, payouts)
    BY ONLY <2>3, <2>4 DEF Settling
  <2>6. Settled(ledger', ledger, m, r, payouts)
    BY ONLY <1>1, <2>1, <2>4, <2>5, SettlementAppended
  <2>7. /\ SumFunction(Paid(ledger'))
             = SumFunction(Paid(ledger)) + SumFunction(RowAmounts(PayoutRows(payouts)))
        /\ Untouched(ledger') => Untouched(ledger)
    BY ONLY <2>6 DEF Settled
  <2>8. ASSUME Untouched(ledger)
        PROVE  RowsExplained(hand', ledger', payout_rows')
    <3>1. OnlyBetsReversed(ledger)
      BY ONLY <2>8, UntouchedBets
    <3>2. PotExplained(hand, ledger, r)
      BY ONLY <2>2, <3>1, ExplainedParts
    <3>3. hand.pot_amount = SumFunction(hand.committed_this_hand)
      BY ONLY <3>2 DEF PotExplained
    <3>4. RowsExplained(hand, ledger, payout_rows)
      BY <2>8 DEF RowsInv
    <3>5. RowsExplained(hand', ledger', payout_rows \o PayoutRows(payouts))
      BY ONLY <1>1, <2>3, <2>7, <3>3, <3>4, SettlementExplainsRows
    <3> QED
      BY ONLY <2>3, <3>5
  <2> QED
    BY <2>7, <2>8 DEF RowsInv
<1>6. ASSUME NEW i \in DOMAIN ledger, ReverseAction(i)  PROVE RowsInv'
  <2>1. PICK x : x = ReversalOf(ledger, i)
    OBVIOUS
  <2>2. PICK n : n = Len(ledger)
    OBVIOUS
  <2>3. i \in 1..Len(ledger)
    BY <1>1, <2>2, LedgerPlaces
  <2>4. ledger' = Append(ledger, x) /\ ledger[i].type \notin CorrectionTypes
    BY <1>6, <2>1 DEF ReverseAction, ReversalOf
  <2>5. x \in LedgerEntry /\ x.type = "ACTION_REVERSED"
    BY ONLY <1>1, <2>1, <2>3, <2>4, ReversalTyped
  <2>6. ~Untouched(ledger')
    BY <1>2, <2>4, <2>5
  <2> QED
    BY <2>6 DEF RowsInv
<1>7. ASSUME NEW x \in LedgerEntry, x.type \in {"STACK_ADJUSTED", "PAYOUT_CORRECTED"},
             ledger' = Append(ledger, x), payout_rows' = payout_rows,
             NEW stacks, SetStacks(stacks)
      PROVE  RowsInv'
  <2>1. /\ SumFunction(Paid(ledger')) = SumFunction(Paid(ledger))
        /\ Untouched(ledger') => Untouched(ledger)
    BY <1>2, <1>7
  <2>2. hand' = [hand EXCEPT !.stack_remaining = stacks]
    BY <1>7 DEF SetStacks
  <2>3. ASSUME RowsExplained(hand, ledger, payout_rows)
        PROVE  RowsExplained(hand', ledger', payout_rows')
    BY ONLY <1>1, <1>7, <2>1, <2>2, <2>3, StacksKeepRows
  <2> QED
    BY <2>1, <2>3 DEF RowsInv
<1>8. ASSUME NEW p \in Seats, NEW amount \in Adjustments, AdjustStack(p, amount)
      PROVE  RowsInv'
  <2>1. PICK x : x = Entry("STACK_ADJUSTED", p, amount)
    OBVIOUS
  <2>2. "STACK_ADJUSTED" \in EntryTypes /\ p \in Seats \cup {NoSeat} /\ amount \in Int
    BY LedgerAssumption DEF EntryTypes, CorrectionTypes
  <2>3. x \in LedgerEntry /\ x.type = "STACK_ADJUSTED"
    BY ONLY <2>1, <2>2, EntryTyped
  <2>4. /\ SetStacks(Plus(hand.stack_remaining, p, amount))
        /\ ledger' = Append(ledger, x) /\ payout_rows' = payout_rows
    BY <1>8, <2>1 DEF AdjustStack
  <2> QED
    BY <1>7, <2>3, <2>4
<1>9. CASE ReopenHand
  <2>1. PICK x : x = Entry("HAND_REOPENED", NoSeat, 0)
    OBVIOUS
  <2>2. "HAND_REOPENED" \in EntryTypes /\ NoSeat \in Seats \cup {NoSeat} /\ 0 \in Int
    BY DEF EntryTypes, CorrectionTypes
  <2>3. x \in LedgerEntry /\ x.type = "HAND_REOPENED"
    BY ONLY <2>1, <2>2, EntryTyped
  <2>4. ledger' = Append(ledger, x)
    BY <1>9, <2>1 DEF ReopenHand
  <2>5. ~Untouched(ledger')
    BY <1>2, <2>3, <2>4
  <2> QED
    BY <2>5 DEF RowsInv
<1>10. ASSUME NEW old \in Seats, NEW new \in Seats, NEW a \in PayoutAmounts,
             NEW b \in PayoutAmounts, CorrectPayout(old, a, new, b)
      PROVE  RowsInv'
  <2>1. PICK y : y = Entry("PAYOUT_CORRECTED", new, b)
    OBVIOUS
  <2>2. PICK x : x = [y EXCEPT !.old_player = old, !.old_amount = a]
    OBVIOUS
  <2>3. "PAYOUT_CORRECTED" \in EntryTypes /\ new \in Seats \cup {NoSeat} /\ b \in Int /\ a \in Int
    BY LedgerAssumption DEF EntryTypes, CorrectionTypes
  <2>4. y \in LedgerEntry /\ y.type = "PAYOUT_CORRECTED"
    BY ONLY <2>1, <2>3, EntryTyped
  <2>5. x \in LedgerEntry /\ x.type = "PAYOUT_CORRECTED"
    BY <2>2, <2>3, <2>4 DEF LedgerEntry
  <2>6. /\ SetStacks(Plus(Plus(hand.stack_remaining, old, -a), new, b))
        /\ ledger' = Append(ledger, x) /\ payout_rows' = payout_rows
    BY <1>10, <2>1, <2>2 DEF CorrectPayout
  <2> QED
    BY <1>7, <2>5, <2>6
<1>11. CASE UNCHANGED vars
  BY <1>11 DEF vars, RowsInv
<1> QED
  BY <1>3, <1>4, <1>5, <1>6, <1>8, <1>9, <1>10, <1>11 DEF HandStep, CorrectionStep

(* settlement_explainer.py: the pots of the explanation hold the pot, and  *)
(* every row counts towards exactly one of them.                           *)
LEMMA ExplanationAddsUp ==
    ASSUME NEW h \in HandState, NEW rows \in Seq(PayoutRow),
           \A i \in DOMAIN rows : rows[i].pot_index + 1 \in DOMAIN CalculateSidePots(h),
           NEW totals, totals = Totals(ExplainSettlement(h, rows))
    PROVE  /\ totals.awarded = SumFunction(RowAmounts(rows))
           /\ totals.unclaimed = SumFunction(h.committed_this_hand) - totals.awarded
<1>1. PICK pots, n : pots = CalculateSidePots(h) /\ n = Len(pots)
  OBVIOUS
<1>2. PICK k, v : k = Len(rows) /\ v = RowAmounts(rows)
  OBVIOUS
<1>3. /\ n \in Nat /\ DOMAIN pots = 1..n /\ \A i \in 1..n : pots[i] \in Pot
  <2>1. pots \in Seq(Pot)
    BY <1>1, SidePotsTyped
  <2> QED
    BY <1>1, <2>1
<1>4. \A i \in 1..n : pots[i].amount \in Nat
  BY ONLY <1>3 DEF Pot
<1>5. /\ k \in Nat /\ DOMAIN rows = 1..k /\ v \in [1..k -> Nat]
      /\ \A i \in 1..k : v[i] = rows[i].amount
  BY ONLY <1>2, rows \in Seq(PayoutRow), RowAmountsTyped
<1>6. \A i \in 1..k : rows[i].pot_index \in Nat
  <2>1. \A i \in 1..k : rows[i] \in PayoutRow
    BY <1>5
  <2> QED
    BY ONLY <2>1 DEF PayoutRow
<1>7. PICK key : key = [i \in 1..k |-> rows[i].pot_index + 1]
  OBVIOUS
<1>8. key \in [1..k -> 1..n] /\ \A i \in 1..k : key[i] = rows[i].pot_index + 1
  BY <1>1, <1>3, <1>5, <1>7
<1>9. IsFiniteSet(1..k) /\ IsFiniteSet(1..n)
  <2>1. 1 \in Int /\ k \in Int /\ n \in Int
    BY <1>3, <1>5
  <2> QED
    BY ONLY <2>1, FS_Interval
<1>10. PICK a, w, u : /\ a = PotAmounts(pots)
                      /\ w = [i \in 1..n |-> Awarded(rows, i - 1)]
                      /\ u = [i \in 1..n |-> pots[i].amount - Awarded(rows, i - 1)]
  OBVIOUS
<1>11. ASSUME NEW i \in 1..n
       PROVE  Awarded(rows, i - 1) = SumFunction([j \in 1..k |-> IF key[j] = i THEN v[j] ELSE 0])
  <2>1. \A j \in 1..k : (rows[j].pot_index = i - 1) <=> (key[j] = i)
    BY <1>6, <1>8
  <2>2. [j \in DOMAIN rows |-> IF rows[j].pot_index = i - 1 THEN rows[j].amount ELSE 0]
           = [j \in 1..k |-> IF key[j] = i THEN v[j] ELSE 0]
    BY ONLY <1>5, <2>1
  <2> QED
    BY ONLY <2>2 DEF Awarded
<1>12. KeyTotals(w, v, key, 1..k, 1..n)
  <2>1. w = [i \in 1..n |-> SumFunction([j \in 1..k |-> IF key[j] = i THEN v[j] ELSE 0])]
    BY ONLY <1>10, <1>11
  <2> QED
    BY ONLY <1>5, <1>8, <1>9, <2>1 DEF KeyTotals
<1>13. w \in [1..n -> Nat] /\ SumFunction(w) = SumFunction(v)
  BY ONLY <1>12, SumByKey
<1>14. a \in [1..n -> Nat] /\ \A i \in 1..n : a[i] = pots[i].amount
  BY ONLY <1>3, <1>4, <1>10 DEF PotAmounts
<1>15. u = [i \in 1..n |-> a[i] - w[i]]
  BY ONLY <1>10, <1>14
<1>16. SumFunction(u) = SumFunction(a) - SumFunction(w)
  <2>1. PICK S : S = 1..n
    OBVIOUS
  <2>2. /\ IsFiniteSet(S) /\ a \in [S -> Nat] /\ w \in [S -> Nat]
        /\ Differences(u, a, w, S)
    BY ONLY <1>9, <1>13, <1>14, <1>15, <2>1 DEF Differences
  <2> QED
    BY ONLY <2>2, SumDifference
<1>17. SumFunction(a) = SumFunction(h.committed_this_hand)
  BY <1>1, <1>10, SidePotsHoldAll
<1>18. PICK x : x = ExplainSettlement(h, rows)
  OBVIOUS
<1>19. /\ DOMAIN x = 1..n
       /\ \A i \in 1..n : /\ x[i].awarded_total = Awarded(rows, i - 1)
                          /\ x[i].unclaimed = pots[i].amount - Awarded(rows, i - 1)
  BY ONLY <1>1, <1>3, <1>18 DEF ExplainSettlement
<1>20. /\ [i \in DOMAIN x |-> x[i].awarded_total] = w
       /\ [i \in DOMAIN x |-> x[i].unclaimed] = u
  BY ONLY <1>10, <1>19
<1>21. /\ totals.awarded = SumFunction([i \in DOMAIN x |-> x[i].awarded_total])
       /\ totals.unclaimed = SumFunction([i \in DOMAIN x |-> x[i].unclaimed])
  BY <1>18 DEF Totals
<1> QED
  BY ONLY <1>2, <1>13, <1>16, <1>17, <1>20, <1>21

(* The rows of round_payouts stay in step with the ledger: the second      *)
(* inductive invariant.                                                    *)
THEOREM RowsAlwaysExplained == Spec => [](LedgerInv /\ RowsInv)
<1>1. Init => LedgerInv /\ RowsInv
  BY LedgerInitially, RowsInitially
<1>2. LedgerInv /\ RowsInv /\ [HandStep \/ CorrectionStep]_vars => (LedgerInv /\ RowsInv)'
  <2>1. LedgerInv /\ [HandStep \/ CorrectionStep]_vars => LedgerInv'
    BY LedgerKept
  <2> QED
    BY <2>1, RowsKept
<1> QED
  BY <1>1, <1>2, PTL DEF Spec

(* settlement_explainer.py reads round_payouts and computes the pots anew; *)
(* resolve_hand wrote the rows, and the ledger, from the pots it computed. *)
(* Until an entry is reversed or the hand reopened, the explanation        *)
(* accounts for every chip the ledger paid and for every chip left.        *)
THEOREM PayoutsExplained == Spec => []PayoutsAreExplained
<1>1. LedgerInv /\ RowsInv => PayoutsAreExplained
  <2> SUFFICES ASSUME LedgerInv, RowsInv, Untouched(ledger)
               PROVE  LET totals == Totals(ExplainSettlement(hand, payout_rows))
                          awards == {i \in DOMAIN ledger : ledger[i].type = "PAYOUT_AWARDED"}
                      IN  /\ totals.awarded = SumFunction([i \in awards |-> ledger[i].amount])
                          /\ totals.unclaimed = hand.pot_amount - totals.awarded
                          /\ totals.unclaimed >= 0
    BY DEF PayoutsAreExplained, Untouched
  <2>1. PICK totals, awards, n, r :
           /\ totals = Totals(ExplainSettlement(hand, payout_rows))
           /\ awards = {i \in DOMAIN ledger : ledger[i].type = "PAYOUT_AWARDED"}
           /\ n = Len(ledger) /\ r = RebuildHandState(ledger)
    OBVIOUS
  <2>2. /\ Explained(hand, dealt, ledger, r) /\ payout_rows \in Seq(PayoutRow)
    BY <2>1 DEF LedgerInv
  <2>3. hand \in HandState /\ LedgerSound(ledger)
    BY ONLY <2>2, ExplainedParts
  <2>4. hand.pot_amount = SumFunction(hand.committed_this_hand) /\ hand.pot_amount \in Nat
    <3>1. OnlyBetsReversed(ledger)
      BY UntouchedBets
    <3>2. PotExplained(hand, ledger, r)
      BY ONLY <2>2, <3>1, ExplainedParts
    <3>3. hand.pot_amount \in Nat
      BY ONLY <2>3, HandColumns
    <3> QED
      BY ONLY <3>2, <3>3 DEF PotExplained
  <2>5. RowsExplained(hand, ledger, payout_rows)
    BY DEF RowsInv
  <2>6. /\ SumFunction(Paid(ledger)) = SumFunction(RowAmounts(payout_rows))
        /\ SumFunction(RowAmounts(payout_rows)) <= hand.pot_amount
        /\ \A i \in DOMAIN payout_rows :
              payout_rows[i].pot_index + 1 \in DOMAIN CalculateSidePots(hand)
    BY ONLY <2>5 DEF RowsExplained
  <2>7. /\ totals.awarded = SumFunction(RowAmounts(payout_rows))
        /\ totals.unclaimed = SumFunction(hand.committed_this_hand) - totals.awarded
    BY ONLY <2>1, <2>2, <2>3, <2>6, ExplanationAddsUp
  <2>8. PICK f, g : f = Paid(ledger) /\ g = [i \in awards |-> ledger[i].amount]
    OBVIOUS
  <2>9. /\ n \in Nat /\ DOMAIN ledger = 1..n /\ f \in [1..n -> Nat]
        /\ \A i \in 1..n :
              f[i] = IF ledger[i].type = "PAYOUT_AWARDED" THEN ledger[i].amount ELSE 0
    BY ONLY <2>1, <2>3, <2>8, PaidTyped
  <2>10. /\ awards \in SUBSET (1..n) /\ \A i \in 1..n : i \notin awards => f[i] = 0
         /\ Restriction(g, f, awards)
    BY ONLY <2>1, <2>8, <2>9 DEF Restriction
  <2>11. IsFiniteSet(1..n)
    <3>1. 1 \in Int /\ n \in Int
      BY <2>9
    <3> QED
      BY ONLY <3>1, FS_Interval
  <2>12. SumFunction(f) = SumFunction(g) /\ SumFunction(f) \in Nat
    <3>1. PICK S : S = 1..n
      OBVIOUS
    <3>2. /\ IsFiniteSet(S) /\ f \in [S -> Nat] /\ awards \in SUBSET S
          /\ \A i \in S : i \notin awards => f[i] = 0
          /\ Restriction(g, f, awards)
      BY ONLY <2>9, <2>10, <2>11, <3>1
    <3>3. SumFunction(f) \in Nat
      BY ONLY <3>2, SumFunctionNat
    <3>4. SumFunction(f) = SumFunction(g)
      BY ONLY <3>2, SumRestrict
    <3> QED
      BY <3>3, <3>4
  <2>13. /\ totals.awarded = SumFunction(g)
         /\ totals.unclaimed = hand.pot_amount - totals.awarded
         /\ totals.unclaimed >= 0
    BY ONLY <2>4, <2>6, <2>7, <2>8, <2>12
  <2> QED
    BY ONLY <2>1, <2>8, <2>13
<1> QED
  BY <1>1, RowsAlwaysExplained, PTL
-----------------------------------------------------------------------------
(* The replay and the timeline, entry by entry                             *)

Timeline ==
    [pot: Int, actions: Seq(Int), payouts: Seq(LedgerEntry), corrections: Seq(LedgerEntry),
     is_completed: BOOLEAN, is_reopened: BOOLEAN]

LEMMA TimelineColumns ==
    ASSUME NEW t \in Timeline
    PROVE  /\ t.pot \in Int /\ t.actions \in Seq(Int) /\ t.payouts \in Seq(LedgerEntry)
           /\ t.corrections \in Seq(LedgerEntry)
           /\ t.is_completed \in BOOLEAN /\ t.is_reopened \in BOOLEAN
BY DEF Timeline

(* u has these columns. *)
Shows(u, pot, actions, done, again) ==
    /\ u \in Timeline /\ u.pot = pot /\ u.actions = actions
    /\ u.is_completed = done /\ u.is_reopened = again

LEMMA TimelineMade ==
    ASSUME NEW pot \in Int, NEW actions \in Seq(Int), NEW payouts \in Seq(LedgerEntry),
           NEW corrections \in Seq(LedgerEntry), NEW done \in BOOLEAN, NEW again \in BOOLEAN,
           NEW u, u = [pot |-> pot, actions |-> actions, payouts |-> payouts,
                       corrections |-> corrections, is_completed |-> done,
                       is_reopened |-> again]
    PROVE  Shows(u, pot, actions, done, again)
BY DEF Timeline, Shows

LEMMA EmptyTimelineTyped == Shows(EmptyTimeline, 0, <<>>, FALSE, FALSE)
<1>1. PICK no \in BOOLEAN : no = FALSE
  OBVIOUS
<1>2. PICK a, b, z : a = <<>> /\ b = <<>> /\ z = 0
  OBVIOUS
<1>t. a \in Seq(Int) /\ b \in Seq(LedgerEntry) /\ z \in Int
  BY ONLY <1>2
<1>3. EmptyTimeline = [pot |-> z, actions |-> a, payouts |-> b, corrections |-> b,
                       is_completed |-> no, is_reopened |-> no]
  BY ONLY <1>1, <1>2 DEF EmptyTimeline
<1>4. Shows(EmptyTimeline, z, a, no, no)
  BY ONLY <1>t, <1>3, no \in BOOLEAN, TimelineMade
<1> QED
  BY ONLY <1>1, <1>2, <1>4

(* One entry: what it adds to the running pot, whether it is listed as an  *)
(* action, and what it says of the end of the hand.                        *)
Added(e) ==
    IF e.type \in CommitTypes THEN e.amount
    ELSE IF e.type = "ACTION_REVERSED" THEN -e.amount ELSE 0

Done(e, done) ==
    IF e.type = "ROUND_COMPLETED" THEN TRUE
    ELSE IF e.type = "HAND_REOPENED" THEN FALSE ELSE done

Again(e, again) == IF e.type = "HAND_REOPENED" THEN TRUE ELSE again

Listed(e, actions, pot) == IF e.type \in CommitTypes THEN Append(actions, pot) ELSE actions

LEMMA TimelineEntryFields ==
    ASSUME NEW t \in Timeline, NEW e \in LedgerEntry, NEW u, u = TimelineEntry(t, e)
    PROVE  Shows(u, t.pot + Added(e), Listed(e, t.actions, t.pot + Added(e)),
                 Done(e, t.is_completed), Again(e, t.is_reopened))
<1>1. PICK yes \in BOOLEAN, no \in BOOLEAN : yes = TRUE /\ no = FALSE
  OBVIOUS
<1>2. /\ t.pot \in Int /\ t.actions \in Seq(Int) /\ t.payouts \in Seq(LedgerEntry)
      /\ t.corrections \in Seq(LedgerEntry)
      /\ t.is_completed \in BOOLEAN /\ t.is_reopened \in BOOLEAN
  BY TimelineColumns
<1>3. e.type \in EntryTypes /\ e.amount \in Int
  BY DEF LedgerEntry
<1>4. PICK pot, acts, pays, cors, done, again :
         /\ pot = t.pot /\ acts = t.actions /\ pays = t.payouts /\ cors = t.corrections
         /\ done = t.is_completed /\ again = t.is_reopened
  OBVIOUS
<1>5. t = [pot |-> pot, actions |-> acts, payouts |-> pays, corrections |-> cors,
           is_completed |-> done, is_reopened |-> again]
  BY ONLY <1>4, t \in Timeline DEF Timeline
<1>6. /\ pot \in Int /\ acts \in Seq(Int) /\ pays \in Seq(LedgerEntry)
      /\ cors \in Seq(LedgerEntry) /\ done \in BOOLEAN /\ again \in BOOLEAN
  BY ONLY <1>2, <1>4
<1>7. CASE e.type \in CommitTypes
  <2>1. PICK a, x : a = Append(acts, pot + e.amount) /\ x = pot + e.amount
    OBVIOUS
  <2>2. a \in Seq(Int) /\ x \in Int
    BY ONLY <1>3, <1>6, <2>1
  <2>3. u = [t EXCEPT !.pot = x, !.actions = a]
    <3>1. u = [t EXCEPT !.pot = t.pot + e.amount, !.actions = Append(t.actions, t.pot + e.amount)]
      BY <1>7 DEF TimelineEntry, CommitTypes
    <3>2. t.pot + e.amount = x /\ Append(t.actions, t.pot + e.amount) = a
      BY ONLY <1>4, <2>1
    <3> QED
      BY ONLY <3>1, <3>2
  <2>4. u = [pot |-> x, actions |-> a, payouts |-> pays, corrections |-> cors,
             is_completed |-> done, is_reopened |-> again]
    BY ONLY <1>5, <2>1, <2>3
  <2>5. Shows(u, x, a, done, again)
    BY ONLY <1>6, <2>2, <2>4, TimelineMade
  <2>6. Added(e) = e.amount /\ Done(e, done) = done /\ Again(e, again) = again
        /\ Listed(e, acts, x) = Append(acts, x)
    BY <1>7 DEF Added, Done, Again, Listed, CommitTypes
  <2> QED
    BY ONLY <1>4, <2>1, <2>5, <2>6
<1>8. CASE e.type = "ACTION_REVERSED"
  <2>1. PICK c, x : c = Append(cors, e) /\ x = pot - e.amount
    OBVIOUS
  <2>2. c \in Seq(LedgerEntry) /\ x \in Int /\ x = pot + (-e.amount)
    BY ONLY <1>3, <1>6, <2>1, e \in LedgerEntry
  <2>3. u = [t EXCEPT !.corrections = Append(@, e), !.pot = @ - e.amount]
    BY <1>8 DEF TimelineEntry, CommitTypes
  <2>4. u = [pot |-> x, actions |-> acts, payouts |-> pays, corrections |-> c,
             is_completed |-> done, is_reopened |-> again]
    BY ONLY <1>5, <2>1, <2>3
  <2>5. Shows(u, x, acts, done, again)
    BY ONLY <1>6, <2>2, <2>4, TimelineMade
  <2>6. Added(e) = -e.amount /\ Done(e, done) = done /\ Again(e, again) = again
        /\ Listed(e, acts, x) = acts
    BY <1>8 DEF Added, Done, Again, Listed, CommitTypes
  <2> QED
    BY ONLY <1>4, <2>2, <2>5, <2>6
<1>9. CASE e.type = "PAYOUT_AWARDED"
  <2>1. PICK b : b = Append(pays, e)
    OBVIOUS
  <2>2. b \in Seq(LedgerEntry)
    BY ONLY <1>6, <2>1, e \in LedgerEntry
  <2>3. u = [t EXCEPT !.payouts = Append(@, e)]
    BY <1>9 DEF TimelineEntry, CommitTypes
  <2>4. u = [pot |-> pot, actions |-> acts, payouts |-> b, corrections |-> cors,
             is_completed |-> done, is_reopened |-> again]
    BY ONLY <1>5, <2>1, <2>3
  <2>5. Shows(u, pot, acts, done, again)
    BY ONLY <1>6, <2>2, <2>4, TimelineMade
  <2>6. Added(e) = 0 /\ Done(e, done) = done /\ Again(e, again) = again
        /\ Listed(e, acts, pot) = acts
    BY <1>9 DEF Added, Done, Again, Listed, CommitTypes
  <2>7. pot + 0 = pot
    BY <1>6
  <2> QED
    BY ONLY <1>4, <2>5, <2>6, <2>7
<1>10. CASE e.type \in {"STACK_ADJUSTED", "PAYOUT_CORRECTED"}
  <2>1. PICK c : c = Append(cors, e)
    OBVIOUS
  <2>2. c \in Seq(LedgerEntry)
    BY ONLY <1>6, <2>1, e \in LedgerEntry
  <2>3. u = [t EXCEPT !.corrections = Append(@, e)]
    BY <1>10 DEF TimelineEntry, CommitTypes
  <2>4. u = [pot |-> pot, actions |-> acts, payouts |-> pays, corrections |-> c,
             is_completed |-> done, is_reopened |-> again]
    BY ONLY <1>5, <2>1, <2>3
  <2>5. Shows(u, pot, acts, done, again)
    BY ONLY <1>6, <2>2, <2>4, TimelineMade
  <2>6. Added(e) = 0 /\ Done(e, done) = done /\ Again(e, again) = again
        /\ Listed(e, acts, pot) = acts
    BY <1>10 DEF Added, Done, Again, Listed, CommitTypes
  <2>7. pot + 0 = pot
    BY <1>6
  <2> QED
    BY ONLY <1>4, <2>5, <2>6, <2>7
<1>11. CASE e.type = "ROUND_COMPLETED"
  <2>3. u = [t EXCEPT !.is_completed = TRUE]
    BY <1>11 DEF TimelineEntry, CommitTypes
  <2>4. u = [pot |-> pot, actions |-> acts, payouts |-> pays, corrections |-> cors,
             is_completed |-> yes, is_reopened |-> again]
    BY ONLY <1>1, <1>5, <2>3
  <2>5. Shows(u, pot, acts, yes, again)
    BY ONLY <1>1, <1>6, yes \in BOOLEAN, <2>4, TimelineMade
  <2>6. Added(e) = 0 /\ Done(e, done) = yes /\ Again(e, again) = again
        /\ Listed(e, acts, pot) = acts
    BY <1>1, <1>11 DEF Added, Done, Again, Listed, CommitTypes
  <2>7. pot + 0 = pot
    BY <1>6
  <2> QED
    BY ONLY <1>4, <2>5, <2>6, <2>7
<1>12. CASE e.type = "HAND_REOPENED"
  <2>1. PICK c : c = Append(cors, e)
    OBVIOUS
  <2>2. c \in Seq(LedgerEntry)
    BY ONLY <1>6, <2>1, e \in LedgerEntry
  <2>3. u = [t EXCEPT !.corrections = Append(@, e), !.is_reopened = TRUE,
                      !.is_completed = FALSE]
    BY <1>12 DEF TimelineEntry, CommitTypes
  <2>4. u = [pot |-> pot, actions |-> acts, payouts |-> pays, corrections |-> c,
             is_completed |-> no, is_reopened |-> yes]
    BY ONLY <1>1, <1>5, <2>1, <2>3
  <2>5. Shows(u, pot, acts, no, yes)
    BY ONLY <1>6, yes \in BOOLEAN, no \in BOOLEAN, <2>2, <2>4, TimelineMade
  <2>6. Added(e) = 0 /\ Done(e, done) = no /\ Again(e, again) = yes
        /\ Listed(e, acts, pot) = acts
    BY <1>1, <1>12 DEF Added, Done, Again, Listed, CommitTypes
  <2>7. pot + 0 = pot
    BY <1>6
  <2> QED
    BY ONLY <1>4, <2>5, <2>6, <2>7
<1> QED
  BY <1>3, <1>7, <1>8, <1>9, <1>10, <1>11, <1>12 DEF EntryTypes, CorrectionTypes

(* The replay of one more entry, in the same terms. *)
LEMMA AppliedFields ==
    ASSUME NEW r \in Replayed, NEW e \in LedgerEntry, NEW m, m = ApplyEntry(r, e)
    PROVE  /\ m \in Replayed /\ m.pot = r.pot + Added(e)
           /\ m.is_completed = Done(e, r.is_completed)
           /\ m.is_reopened = Again(e, r.is_reopened)
<1>1. e.type \in EntryTypes /\ e.amount \in Int /\ r.pot \in Int
      /\ r.is_completed \in BOOLEAN /\ r.is_reopened \in BOOLEAN
  BY ReplayedColumns DEF LedgerEntry
<1>2. CASE e.type \in CommitTypes \cup {"ACTION_REVERSED"}
  <2>1. PICK x : x = Added(e)
    OBVIOUS
  <2>2. /\ x \in Int
        /\ \/ e.type \in CommitTypes /\ x = e.amount
           \/ e.type = "ACTION_REVERSED" /\ x = -e.amount
    BY ONLY <1>1, <1>2, <2>1 DEF Added, CommitTypes
  <2>3. m \in Replayed /\ m.pot = r.pot + x /\ SameEnd(m, r)
    BY ONLY <2>2, r \in Replayed, e \in LedgerEntry, m = ApplyEntry(r, e), BetApplied
  <2>4. Done(e, r.is_completed) = r.is_completed /\ Again(e, r.is_reopened) = r.is_reopened
    BY ONLY <1>2 DEF Done, Again, CommitTypes
  <2> QED
    BY ONLY <2>1, <2>3, <2>4 DEF SameEnd
<1>3. ASSUME e.type \notin CommitTypes \cup {"ACTION_REVERSED"}, SameBets(m, r)
      PROVE  m.pot = r.pot + Added(e)
  <2>1. Added(e) = 0
    BY ONLY <1>3 DEF Added
  <2> QED
    BY ONLY <1>1, <1>3, <2>1 DEF SameBets
<1>4. ASSUME e.type \notin {"ROUND_COMPLETED", "HAND_REOPENED"}, SameEnd(m, r)
      PROVE  /\ m.is_completed = Done(e, r.is_completed)
             /\ m.is_reopened = Again(e, r.is_reopened)
  BY ONLY <1>4 DEF SameEnd, Done, Again
<1>5. CASE e.type \in {"PAYOUT_AWARDED", "PAYOUT_CORRECTED"}
  <2>1. PICK w : \/ e.type = "PAYOUT_AWARDED" /\ w = Plus(r.won, e.player, e.amount)
                 \/ e.type = "PAYOUT_CORRECTED"
                    /\ w = Plus(Plus(r.won, e.old_player, -e.old_amount), e.player, e.amount)
    BY <1>5
  <2>2. m \in Replayed /\ SameBets(m, r) /\ SameEnd(m, r)
    BY ONLY <2>1, r \in Replayed, e \in LedgerEntry, m = ApplyEntry(r, e), PayoutApplied
  <2> QED
    BY <1>3, <1>4, <1>5, <2>2 DEF CommitTypes
<1>6. CASE e.type = "STACK_ADJUSTED"
  <2>1. m \in Replayed /\ SameBets(m, r) /\ SameEnd(m, r)
    BY ONLY <1>6, r \in Replayed, e \in LedgerEntry, m = ApplyEntry(r, e), AdjustmentApplied
  <2> QED
    BY <1>3, <1>4, <1>6, <2>1 DEF CommitTypes
<1>7. CASE e.type \in {"ROUND_COMPLETED", "HAND_REOPENED"}
  <2>1. /\ m \in Replayed /\ SameBets(m, r)
        /\ m.is_completed = (e.type = "ROUND_COMPLETED")
        /\ m.is_reopened = (r.is_reopened \/ e.type = "HAND_REOPENED")
    BY ONLY <1>7, r \in Replayed, e \in LedgerEntry, m = ApplyEntry(r, e), EndApplied
  <2>2. m.pot = r.pot + Added(e)
    BY <1>3, <1>7, <2>1 DEF CommitTypes
  <2>3. m.is_completed = Done(e, r.is_completed)
    BY ONLY <1>7, <2>1, Zenon DEF Done
  <2>4. m.is_reopened = Again(e, r.is_reopened)
    BY ONLY <1>1, <1>7, <2>1, Zenon DEF Again
  <2> QED
    BY <2>1, <2>2, <2>3, <2>4
<1> QED
  BY <1>1, <1>2, <1>5, <1>6, <1>7 DEF EntryTypes, CorrectionTypes

LEMMA TimelineEntryTyped ==
    ASSUME NEW t \in Timeline, NEW e \in LedgerEntry
    PROVE  TimelineEntry(t, e) \in Timeline
BY TimelineEntryFields DEF Shows

(* g[t] is the timeline of the entries of f at the places t. *)
IsTimeline(g, f, S) ==
    g = [t \in SUBSET S |-> IF t = {} THEN EmptyTimeline
                            ELSE TimelineEntry(g[t \ {Max(t)}], f[Max(t)])]

(* The timeline is the last of n steps, one for each entry in order. *)
TimelineSteps(a, f, n) ==
    /\ a[0] = EmptyTimeline
    /\ \A k \in 1..n : a[k] = TimelineEntry(a[k - 1], f[k])
    /\ \A k \in 0..n : a[k] \in Timeline

(* Every list of entries has a timeline. *)
LEMMA TimelineExists ==
    ASSUME NEW S \in SUBSET Nat, IsFiniteSet(S), NEW f \in [S -> LedgerEntry]
    PROVE  \E g : IsTimeline(g, f, S) /\ \A t \in SUBSET S : g[t] \in Timeline
<1>1. PICK step : step = [x \in Timeline \X LedgerEntry |-> TimelineEntry(x[1], x[2])]
  OBVIOUS
<1>2. \A v \in Timeline, e \in LedgerEntry : step[<<v, e>>] = TimelineEntry(v, e)
  BY ONLY <1>1
<1>3. EmptyTimeline \in Timeline
  BY EmptyTimelineTyped DEF Shows
<1>4. PICK g : IsFold(g, step, EmptyTimeline, f, S)
  BY FoldExists
<1>5. \A v \in Timeline : \A i \in S : step[<<v, f[i]>>] \in Timeline
  <2> SUFFICES ASSUME NEW v \in Timeline, NEW i \in S
               PROVE  step[<<v, f[i]>>] \in Timeline
    OBVIOUS
  <2>1. f[i] \in LedgerEntry
    OBVIOUS
  <2> QED
    BY ONLY <1>2, <2>1, v \in Timeline, TimelineEntryTyped
<1>6. \A t \in SUBSET S : g[t] \in Timeline
  BY ONLY <1>3, <1>4, <1>5, S \in SUBSET Nat, IsFiniteSet(S), FoldTyped
<1>7. \A t \in SUBSET S : t # {} => Max(t) \in S /\ t \ {Max(t)} \in SUBSET S
  <2> SUFFICES ASSUME NEW t \in SUBSET S, t # {}  PROVE Max(t) \in S
    OBVIOUS
  <2>1. t \in SUBSET Nat /\ IsFiniteSet(t)
    BY FS_Subset
  <2> QED
    BY <2>1, MaxNat
<1>8. ASSUME NEW t \in SUBSET S, t # {}
      PROVE  step[<<g[t \ {Max(t)}], f[Max(t)]>>] = TimelineEntry(g[t \ {Max(t)}], f[Max(t)])
  BY ONLY <1>2, <1>6, <1>7, <1>8, f \in [S -> LedgerEntry]
<1>9. g = [t \in SUBSET S |-> IF t = {} THEN EmptyTimeline
                              ELSE step[<<g[t \ {Max(t)}], f[Max(t)]>>]]
  BY <1>4 DEF IsFold
<1>10. IsTimeline(g, f, S)
  BY ONLY <1>8, <1>9, Zenon DEF IsTimeline
<1> QED
  BY <1>6, <1>10

(* It has the columns of a timeline. *)
LEMMA TimelineTyped ==
    ASSUME NEW S \in SUBSET Nat, IsFiniteSet(S), NEW f \in [S -> LedgerEntry],
           NEW g, IsTimeline(g, f, S)
    PROVE  \A t \in SUBSET S : g[t] \in Timeline
<1> DEFINE Bad == {u \in SUBSET S : g[u] \notin Timeline}
<1> SUFFICES ASSUME Bad # {}  PROVE FALSE
  OBVIOUS
<1>0. Bad \subseteq SUBSET S
  OBVIOUS
<1>1. PICK X \in Bad : \A Y \in SUBSET X : Y # X => Y \notin Bad
  <2> HIDE DEF Bad
  <2> QED  BY <1>0, MinimalSubset
<1>2. X \in SUBSET S /\ g[X] \notin Timeline
  OBVIOUS
<1>3. X # {}
  <2>1. {} \in SUBSET S
    OBVIOUS
  <2>2. g[{}] = EmptyTimeline
    BY ONLY <2>1, IsTimeline(g, f, S) DEF IsTimeline
  <2>3. EmptyTimeline \in Timeline
    BY EmptyTimelineTyped DEF Shows
  <2> QED
    BY ONLY <1>2, <2>2, <2>3
<1>4. PICK m \in X : m = Max(X)
  <2>1. X \in SUBSET Nat /\ IsFiniteSet(X)
    BY <1>2, FS_Subset
  <2> HIDE DEF Bad
  <2> QED
    BY <1>3, <2>1, MaxNat
<1>5. g[X \ {m}] \in Timeline
  BY <1>1, <1>2, <1>4
<1> HIDE DEF Bad
<1>6. g[X] = TimelineEntry(g[X \ {m}], f[m])
  <2>1. g[X] = TimelineEntry(g[X \ {Max(X)}], f[Max(X)])
    BY ONLY <1>2, <1>3, IsTimeline(g, f, S) DEF IsTimeline
  <2> QED
    BY ONLY <1>4, <2>1
<1>7. f[m] \in LedgerEntry
  BY <1>2, <1>4
<1> QED
  BY ONLY <1>2, <1>5, <1>6, <1>7, TimelineEntryTyped

(* build_hand_timeline, entry by entry. *)
LEMMA TimelineHistory ==
    ASSUME NEW n \in Nat, NEW f \in [1..n -> LedgerEntry]
    PROVE  \E a : /\ TimelineSteps(a, f, n)
                  /\ BuildHandTimeline(f) = a[n]
<1>0. PICK S : S = DOMAIN f
  OBVIOUS
<1>1. S = 1..n /\ S \in SUBSET Nat /\ f \in [S -> LedgerEntry]
  BY <1>0
<1>2. IsFiniteSet(S)
  <2>1. IsFiniteSet(1..n)
    BY FS_Interval
  <2> QED
    BY <1>1, <2>1
<1> DEFINE iter == CHOOSE g : IsTimeline(g, f, S)
<1>3. PICK g : IsTimeline(g, f, S) /\ \A t \in SUBSET S : g[t] \in Timeline
  BY <1>1, <1>2, TimelineExists
<1>4. IsTimeline(iter, f, S)
  BY <1>3
<1>5. BuildHandTimeline(f) = iter[S]
  BY ONLY <1>0, Zenon DEF BuildHandTimeline, FoldLeft, MapThenFoldSet, IsTimeline
<1> HIDE DEF iter
<1>6. \A t \in SUBSET S : iter[t] \in Timeline
  BY <1>1, <1>2, <1>4, TimelineTyped
<1>7. PICK a : a = [k \in 0..n |-> iter[1..k]]
  OBVIOUS
<1>8. a[0] = EmptyTimeline
  <2>1. 1..0 = {} /\ {} \in SUBSET S
    OBVIOUS
  <2>2. iter[{}] = EmptyTimeline
    BY ONLY <1>4, <2>1 DEF IsTimeline
  <2> QED
    BY ONLY <1>7, <2>1, <2>2, n \in Nat
<1>9. ASSUME NEW k \in 1..n  PROVE a[k] = TimelineEntry(a[k - 1], f[k])
  <2>1. Max(1..k) = k /\ (1..k) \ {k} = 1..(k - 1)
    BY MaxOfInterval
  <2>2. PICK t : t = 1..k
    OBVIOUS
  <2>3. t \in SUBSET S /\ t # {}
    <3>1. k \in 1..k /\ \A j \in 1..k : j \in 1..n
      OBVIOUS
    <3> QED
      BY ONLY <1>1, <2>2, <3>1
  <2>4. iter[t] = TimelineEntry(iter[t \ {Max(t)}], f[Max(t)])
    BY ONLY <1>4, <2>3 DEF IsTimeline
  <2>5. iter[1..k] = TimelineEntry(iter[1..(k - 1)], f[k])
    BY ONLY <2>1, <2>2, <2>4
  <2>6. k \in 0..n /\ k - 1 \in 0..n
    OBVIOUS
  <2> QED
    BY ONLY <1>7, <2>5, <2>6
<1>10. ASSUME NEW k \in 0..n  PROVE a[k] \in Timeline
  <2>1. 1..k \in SUBSET S
    BY <1>1
  <2> QED
    BY ONLY <1>6, <1>7, <2>1, k \in 0..n
<1>11. a[n] = iter[S]
  BY ONLY <1>1, <1>7, n \in Nat
<1>12. TimelineSteps(a, f, n)
  BY ONLY <1>8, <1>9, <1>10 DEF TimelineSteps
<1> QED
  BY <1>5, <1>11, <1>12

(* m is above all numbers of S. *)
Above(m, S) == S \in SUBSET Nat /\ IsFiniteSet(S) /\ m \in Nat /\ \A x \in S : x < m

(* p is the list q of n numbers and then m. *)
OneLonger(p, q, n, m) ==
    /\ n \in Nat /\ DOMAIN q = 1..n /\ DOMAIN p = 1..(n + 1)
    /\ \A i \in 1..n : p[i] = q[i]
    /\ p[n + 1] = m

(* A number above all others comes last. *)
LEMMA InOrderAppend ==
    ASSUME NEW S, NEW m, Above(m, S)
    PROVE  OneLonger(InOrder(S \cup {m}), InOrder(S), Cardinality(S), m)
<1>0. S \in SUBSET Nat /\ IsFiniteSet(S) /\ m \in Nat /\ \A x \in S : x < m
  BY DEF Above
<1>p. PICK n, q, T, p : /\ n = Cardinality(S) /\ q = InOrder(S)
                        /\ T = S \cup {m} /\ p = InOrder(T)
  OBVIOUS
<1>1. /\ n \in Nat /\ q \in [1..n -> S]
      /\ \A i, j \in 1..n : i < j => q[i] < q[j]
      /\ \A x \in S : \E i \in 1..n : q[i] = x
  BY ONLY <1>0, <1>p, InOrderLists
<1>2. m \notin S /\ T \in SUBSET Nat /\ \A x \in T : x <= m
  BY ONLY <1>0, <1>p
<1>3. IsFiniteSet(T) /\ Cardinality(T) = n + 1
  BY ONLY <1>0, <1>p, <1>2, FS_AddElement
<1>4. /\ p \in [1..(n + 1) -> T]
      /\ \A i, j \in 1..(n + 1) : i < j => p[i] < p[j]
      /\ \A x \in T : \E i \in 1..(n + 1) : p[i] = x
  <2>1. PICK k : k = n + 1
    OBVIOUS
  <2>2. T \in SUBSET Nat /\ IsFiniteSet(T) /\ k = Cardinality(T) /\ p = InOrder(T)
    BY <1>p, <1>2, <1>3, <2>1
  <2>3. /\ p \in [1..k -> T]
        /\ \A i, j \in 1..k : i < j => p[i] < p[j]
        /\ \A x \in T : \E i \in 1..k : p[i] = x
    BY ONLY <2>2, InOrderLists
  <2> QED
    BY ONLY <2>1, <2>3
<1>5. p[n + 1] = m
  <2>1. PICK j \in 1..(n + 1) : p[j] = m
    BY <1>p, <1>4
  <2>2. n + 1 \in 1..(n + 1) /\ p[n + 1] \in T
    <3>1. n + 1 \in 1..(n + 1)
      BY ONLY <1>1
    <3> QED
      BY ONLY <1>4, <3>1
  <2>3. p[n + 1] <= m /\ p[n + 1] \in Nat
    BY <1>2, <2>2
  <2>4. ~(j < n + 1)
    <3> SUFFICES ASSUME j < n + 1  PROVE FALSE
      OBVIOUS
    <3>1. p[j] < p[n + 1]
      BY <1>4, <2>2
    <3> QED
      BY ONLY <2>1, <2>3, <3>1, <1>0
  <2>5. j = n + 1
    <3>1. j \in 1..(n + 1)
      OBVIOUS
    <3> QED
      BY ONLY <1>1, <2>4, <3>1
  <2> QED
    BY <2>1, <2>5
<1> DEFINE Bad == {i \in 1..n : p[i] # q[i]}
<1>6. Bad = {}
  <2> SUFFICES ASSUME Bad # {}  PROVE FALSE
    OBVIOUS
  <2>1. PICK i \in Bad : \A j \in Bad : i <= j
    <3>1. Bad \in SUBSET Nat
      OBVIOUS
    <3> HIDE DEF Bad
    <3> QED
      BY <3>1, MinNat
  <2>2. i \in 1..n /\ p[i] # q[i]
    OBVIOUS
  <2>3. ASSUME NEW j \in 1..n, j < i  PROVE p[j] = q[j]
    <3>1. j \notin Bad
      <4>1. i \in Int /\ j \in Int
        BY <2>2
      <4>2. ~(i <= j)
        BY ONLY <2>3, <4>1
      <4> HIDE DEF Bad
      <4> QED
        BY <2>1, <4>2
    <3> QED
      BY <3>1
  <2> HIDE DEF Bad
  <2>4. /\ i \in 1..(n + 1) /\ n + 1 \in 1..(n + 1) /\ i < n + 1
        /\ \A j \in 1..n : j \in 1..(n + 1)
    BY <1>1, <2>2
  <2>5. p[i] \in T /\ q[i] \in S /\ p[i] \in Nat /\ q[i] \in Nat
    <3>1. p[i] \in T /\ q[i] \in S
      BY ONLY <1>1, <1>4, <2>2, <2>4
    <3> QED
      BY ONLY <1>0, <1>2, <3>1
  <2>6. p[i] < m
    <3>1. p[i] < p[n + 1]
      BY ONLY <1>4, <2>4
    <3> QED
      BY ONLY <1>5, <3>1
  <2>7. PICK k \in 1..n : q[k] = p[i]
    <3>1. p[i] \in S
      BY <1>p, <2>5, <2>6
    <3> QED
      BY <1>1, <3>1
  <2>8. PICK j \in 1..(n + 1) : p[j] = q[i]
    <3>1. q[i] \in T
      BY <1>p, <2>5
    <3> QED
      BY <1>4, <3>1
  <2>9. q[i] < p[i]
    <3>1. ~(k < i)
      <4> SUFFICES ASSUME k < i  PROVE FALSE
        OBVIOUS
      <4>1. p[k] = p[i]
        BY <2>3, <2>7
      <4>2. p[k] < p[i]
        BY <1>4, <2>4
      <4> QED
        BY <2>5, <4>1, <4>2
    <3>2. k # i
      BY <2>2, <2>7
    <3>3. i < k
      BY <1>1, <2>2, <3>1, <3>2
    <3> QED
      BY <1>1, <2>2, <2>7, <3>3
  <2>10. p[i] < q[i]
    <3>1. ~(j < i)
      <4> SUFFICES ASSUME j < i  PROVE FALSE
        OBVIOUS
      <4>1. j \in 1..n
        BY <1>1, <2>2
      <4>2. q[j] = q[i] /\ q[j] < q[i]
        BY <1>1, <2>2, <2>3, <2>8, <4>1
      <4> QED
        BY <2>5, <4>2
    <3>2. j # i
      BY <2>2, <2>8
    <3>3. i < j
      BY <1>1, <2>2, <3>1, <3>2
    <3> QED
      BY <1>4, <2>4, <2>8, <3>3
  <2> QED
    BY ONLY <2>5, <2>9, <2>10
<1>7. \A i \in 1..n : p[i] = q[i]
  BY <1>6
<1>8. DOMAIN q = 1..n /\ DOMAIN p = 1..(n + 1)
  BY ONLY <1>1, <1>4
<1>9. OneLonger(p, q, n, m)
  BY ONLY <1>1, <1>5, <1>7, <1>8 DEF OneLonger
<1> QED
  BY ONLY <1>p, <1>9

(* replay_hand: the n + 1 states of the replay of l, the empty one first. *)
ReplaySteps(r, l, n) ==
    /\ r[0] = NothingReplayed
    /\ \A k \in 1..n : r[k] = ApplyEntry(r[k - 1], l[k])
    /\ \A k \in 0..n : r[k] \in Replayed

LEMMA FirstEntries ==
    ASSUME NEW l \in Seq(LedgerEntry), NEW k \in 0..Len(l), NEW s, s = SubSeq(l, 1, k)
    PROVE  DOMAIN s = 1..k /\ \A i \in 1..k : s[i] = l[i]
OBVIOUS

LEMMA ReplayHistory ==
    ASSUME NEW l \in Seq(LedgerEntry), NEW n, n = Len(l),
           NEW r, r = [k \in 0..n |-> RebuildHandState(SubSeq(l, 1, k))]
    PROVE  ReplaySteps(r, l, n) /\ r[n] = RebuildHandState(l)
<1>1. n \in Nat /\ DOMAIN l = 1..n /\ \A i \in 1..n : l[i] \in LedgerEntry
  OBVIOUS
<1>2. PICK s : s = [k \in 0..n |-> SubSeq(l, 1, k)]
  OBVIOUS
<1>3. \A k \in 0..n : r[k] = RebuildHandState(s[k])
  BY ONLY <1>2, r = [k \in 0..n |-> RebuildHandState(SubSeq(l, 1, k))]
<1>4. \A k \in 0..n : DOMAIN s[k] = 1..k /\ \A i \in 1..k : s[k][i] = l[i]
  BY <1>2, FirstEntries
<1>5. r[0] = NothingReplayed
  <2>1. 0 \in 0..n /\ 1..0 = {}
    BY <1>1
  <2>2. DOMAIN s[0] = {}
    BY ONLY <1>4, <2>1
  <2> QED
    BY ONLY <1>3, <2>1, <2>2, ReplayEmpty
<1>6. ASSUME NEW k \in 1..n  PROVE r[k] = ApplyEntry(r[k - 1], l[k])
  <2>1. PICK j : j = k - 1
    OBVIOUS
  <2>2. /\ j \in Nat /\ j \in 0..n /\ k \in 0..n /\ k = j + 1
        /\ k \in 1..k /\ \A i \in 1..j : i \in 1..k
    BY <1>1, <2>1
  <2>3. PICK u, v : u = s[j] /\ v = s[k]
    OBVIOUS
  <2>4. DOMAIN u = 1..j /\ DOMAIN v = 1..(j + 1) /\ (\A i \in 1..j : v[i] = u[i])
        /\ v[j + 1] = l[k]
    BY ONLY <1>4, <2>2, <2>3
  <2>5. RebuildHandState(v) = ApplyEntry(RebuildHandState(u), v[j + 1])
    BY ONLY <2>2, <2>4, ReplayAppend
  <2> QED
    BY ONLY <1>3, <2>1, <2>2, <2>3, <2>4, <2>5
<1> DEFINE Bad == {k \in 0..n : r[k] \notin Replayed}
<1>7. Bad = {}
  <2> SUFFICES ASSUME Bad # {}  PROVE FALSE
    OBVIOUS
  <2>1. PICK k \in Bad : \A j \in Bad : k <= j
    <3>1. Bad \in SUBSET Nat
      OBVIOUS
    <3> HIDE DEF Bad
    <3> QED
      BY <3>1, MinNat
  <2>2. k \in 0..n /\ r[k] \notin Replayed
    OBVIOUS
  <2>3. k # 0
    BY ONLY <1>5, <2>2, NothingTyped
  <2>4. PICK j \in 0..n : j = k - 1
    BY <1>1, <2>2, <2>3
  <2>5. r[j] \in Replayed
    BY <1>1, <2>1, <2>2, <2>4
  <2> HIDE DEF Bad
  <2>6. k \in 1..n /\ l[k] \in LedgerEntry
    BY <1>1, <2>2, <2>3
  <2>7. r[k] = ApplyEntry(r[j], l[k])
    BY ONLY <1>6, <2>4, <2>6
  <2> QED
    BY ONLY <2>2, <2>5, <2>6, <2>7, AppliedFields
<1>8. r[n] = RebuildHandState(l)
  <2>1. n \in 0..n
    BY <1>1
  <2>2. SubSeq(l, 1, n) = l
    OBVIOUS
  <2> QED
    BY ONLY <2>1, <2>2, r = [k \in 0..n |-> RebuildHandState(SubSeq(l, 1, k))]
<1> QED
  BY <1>5, <1>6, <1>7, <1>8 DEF ReplaySteps

(* The timeline a and the replay r say the same, and the actions are       *)
(* listed with the replayed pot after each.                                *)
CommitsUpTo(l, k) == {i \in 1..k : l[i].type \in CommitTypes}

Agree(t, r) ==
    t.pot = r.pot /\ t.is_completed = r.is_completed /\ t.is_reopened = r.is_reopened

PotsAfter(c, r) == [j \in DOMAIN c |-> r[c[j]].pot]

Histories(a, r, l, n) ==
    /\ n \in Nat /\ l \in [1..n -> LedgerEntry]
    /\ TimelineSteps(a, l, n) /\ ReplaySteps(r, l, n)

LEMMA ListedAfter ==
    ASSUME NEW l, NEW k \in Nat, NEW r, NEW m, m = k + 1,
           NEW c, c = InOrder(CommitsUpTo(l, k)), NEW d, d = InOrder(CommitsUpTo(l, m)),
           NEW q \in Seq(Int), q = PotsAfter(c, r), r[m].pot \in Int
    PROVE  PotsAfter(d, r) = IF l[m].type \in CommitTypes THEN Append(q, r[m].pot) ELSE q
<1>1. PICK S, T : S = CommitsUpTo(l, k) /\ T = CommitsUpTo(l, m)
  OBVIOUS
<1>2. CASE l[m].type \notin CommitTypes
  <2>1. T = S
    BY ONLY <1>1, <1>2, k \in Nat, m = k + 1 DEF CommitsUpTo
  <2> QED
    BY <1>1, <1>2, <2>1
<1>3. CASE l[m].type \in CommitTypes
  <2>1. T = S \cup {m} /\ S \in SUBSET Nat /\ m \in Nat /\ S \in SUBSET (1..k)
        /\ \A x \in S : x < m
    BY ONLY <1>1, <1>3, k \in Nat, m = k + 1 DEF CommitsUpTo
  <2>2. IsFiniteSet(S)
    <3>1. 1 \in Int /\ k \in Int
      OBVIOUS
    <3>2. IsFiniteSet(1..k)
      BY ONLY <3>1, FS_Interval
    <3>3. PICK U : U = 1..k
      OBVIOUS
    <3>4. IsFiniteSet(U) /\ S \in SUBSET U
      BY ONLY <2>1, <3>2, <3>3
    <3> QED
      BY ONLY <3>4, FS_Subset
  <2>3. PICK n : n = Cardinality(S)
    OBVIOUS
  <2>4. /\ n \in Nat /\ DOMAIN c = 1..n /\ DOMAIN d = 1..(n + 1)
        /\ (\A i \in 1..n : d[i] = c[i]) /\ d[n + 1] = m
    <3>1. Above(m, S)
      BY ONLY <2>1, <2>2 DEF Above
    <3>2. OneLonger(InOrder(S \cup {m}), InOrder(S), Cardinality(S), m)
      BY ONLY <3>1, InOrderAppend
    <3>3. OneLonger(d, c, n, m)
      BY <1>1, <2>1, <2>3, <3>2
    <3> QED
      BY ONLY <3>3 DEF OneLonger
  <2>5. q = [j \in 1..n |-> r[c[j]].pot] /\ PotsAfter(d, r) = [j \in 1..(n + 1) |-> r[d[j]].pot]
    BY ONLY <2>4, q = PotsAfter(c, r) DEF PotsAfter
  <2>6. Len(q) = n
    <3>1. DOMAIN q = 1..n
      BY ONLY <2>5
    <3> QED
      BY ONLY <2>4, <3>1, q \in Seq(Int)
  <2>7. PICK e, x : e = Append(q, x) /\ x = r[m].pot
    OBVIOUS
  <2>8. /\ e = [j \in 1..(n + 1) |-> e[j]]
        /\ (\A j \in 1..n : e[j] = q[j]) /\ e[n + 1] = x
    BY ONLY <2>4, <2>6, <2>7, q \in Seq(Int), r[m].pot \in Int
  <2>9. ASSUME NEW j \in 1..(n + 1)  PROVE e[j] = r[d[j]].pot
    <3>1. CASE j \in 1..n
      BY ONLY <2>4, <2>5, <2>8, <3>1
    <3>2. CASE j = n + 1
      BY ONLY <2>4, <2>7, <2>8, <3>2
    <3> QED
      BY <2>4, <3>1, <3>2
  <2>10. PotsAfter(d, r) = e
    BY ONLY <2>5, <2>8, <2>9
  <2> QED
    BY <1>3, <2>7, <2>10
<1> QED
  BY <1>2, <1>3

(* Entry by entry the timeline and the replay stay in step. *)
InStep(a, r, l, k) ==
    Agree(a[k], r[k]) /\ a[k].actions = PotsAfter(InOrder(CommitsUpTo(l, k)), r)

LEMMA OneMoreInStep ==
    ASSUME NEW a, NEW r, NEW l, NEW n, Histories(a, r, l, n), NEW k \in 0..n, NEW m \in 0..n,
           m = k + 1, InStep(a, r, l, k)
    PROVE  InStep(a, r, l, m)
<1>1. /\ n \in Nat /\ l \in [1..n -> LedgerEntry]
      /\ TimelineSteps(a, l, n) /\ ReplaySteps(r, l, n)
  BY DEF Histories
<1>2. m \in 1..n /\ k = m - 1 /\ k \in Nat
  BY <1>1
<1>3. PICK t, u, p, q, e : t = a[k] /\ u = a[m] /\ p = r[k] /\ q = r[m] /\ e = l[m]
  OBVIOUS
<1>4. /\ t \in Timeline /\ u \in Timeline /\ p \in Replayed /\ q \in Replayed
      /\ e \in LedgerEntry
  BY <1>1, <1>2, <1>3 DEF TimelineSteps, ReplaySteps
<1>5. u = TimelineEntry(t, e) /\ q = ApplyEntry(p, e)
  BY <1>1, <1>2, <1>3 DEF TimelineSteps, ReplaySteps
<1>6. Shows(u, t.pot + Added(e), Listed(e, t.actions, t.pot + Added(e)),
            Done(e, t.is_completed), Again(e, t.is_reopened))
  BY ONLY <1>4, <1>5, TimelineEntryFields
<1>7. /\ q.pot = p.pot + Added(e) /\ q.is_completed = Done(e, p.is_completed)
      /\ q.is_reopened = Again(e, p.is_reopened)
  BY ONLY <1>4, <1>5, AppliedFields
<1>8. Agree(t, p) /\ t.actions = PotsAfter(InOrder(CommitsUpTo(l, k)), r)
  BY <1>3 DEF InStep
<1>9. Agree(u, q)
  BY ONLY <1>6, <1>7, <1>8 DEF Agree, Shows
<1>10. u.actions = Listed(e, t.actions, q.pot)
  BY ONLY <1>6, <1>7, <1>8 DEF Agree, Shows
<1>11. t.actions \in Seq(Int) /\ q.pot \in Int
  BY ONLY <1>4, TimelineColumns, ReplayedColumns
<1>12. PotsAfter(InOrder(CommitsUpTo(l, m)), r)
          = IF l[m].type \in CommitTypes THEN Append(t.actions, r[m].pot) ELSE t.actions
  <2>1. PICK c, d, acts : /\ c = InOrder(CommitsUpTo(l, k)) /\ d = InOrder(CommitsUpTo(l, m))
                          /\ acts = t.actions
    OBVIOUS
  <2>2. acts \in Seq(Int) /\ acts = PotsAfter(c, r) /\ r[m].pot \in Int
    BY ONLY <1>3, <1>8, <1>11, <2>1
  <2>3. PotsAfter(d, r) = IF l[m].type \in CommitTypes THEN Append(acts, r[m].pot) ELSE acts
    BY ONLY <1>2, <2>1, <2>2, m = k + 1, ListedAfter
  <2> QED
    BY ONLY <2>1, <2>3
<1>13. u.actions = PotsAfter(InOrder(CommitsUpTo(l, m)), r)
  BY ONLY <1>3, <1>10, <1>12 DEF Listed
<1> QED
  BY ONLY <1>3, <1>9, <1>13 DEF InStep

LEMMA NothingListed ==
    ASSUME NEW l, NEW r
    PROVE  PotsAfter(InOrder(CommitsUpTo(l, 0)), r) = <<>>
<1>1. PICK S, n, q : S = {} /\ n = Cardinality(S) /\ q = InOrder(S)
  OBVIOUS
<1>2. CommitsUpTo(l, 0) = S
  BY <1>1 DEF CommitsUpTo
<1>3. S \in SUBSET Nat /\ IsFiniteSet(S) /\ n = 0
  BY <1>1, FS_EmptySet
<1>4. q \in [1..n -> S]
  BY ONLY <1>1, <1>3, InOrderLists
<1>5. DOMAIN q = {}
  BY ONLY <1>3, <1>4
<1> QED
  BY ONLY <1>1, <1>2, <1>5 DEF PotsAfter

LEMMA AllInStep ==
    ASSUME NEW a, NEW r, NEW l, NEW n, Histories(a, r, l, n)
    PROVE  InStep(a, r, l, n)
<1>1. /\ n \in Nat /\ TimelineSteps(a, l, n) /\ ReplaySteps(r, l, n)
  BY DEF Histories
<1>2. InStep(a, r, l, 0)
  <2>1. a[0] = EmptyTimeline /\ r[0] = NothingReplayed
    BY ONLY <1>1 DEF TimelineSteps, ReplaySteps
  <2>2. Agree(EmptyTimeline, NothingReplayed) /\ EmptyTimeline.actions = <<>>
    BY DEF Agree, EmptyTimeline, NothingReplayed
  <2>3. PotsAfter(InOrder(CommitsUpTo(l, 0)), r) = <<>>
    BY NothingListed
  <2> QED
    BY ONLY <2>1, <2>2, <2>3 DEF InStep
<1> DEFINE Bad == {k \in 0..n : ~InStep(a, r, l, k)}
<1> SUFFICES ASSUME Bad # {}  PROVE FALSE
  BY <1>1
<1>3. PICK m \in Bad : \A j \in Bad : m <= j
  <2>1. Bad \in SUBSET Nat
    OBVIOUS
  <2> HIDE DEF Bad
  <2> QED
    BY <2>1, MinNat
<1>4. m \in 0..n /\ ~InStep(a, r, l, m)
  OBVIOUS
<1>5. m # 0
  BY <1>2, <1>4
<1>6. PICK k \in 0..n : m = k + 1
  BY <1>1, <1>4, <1>5
<1>7. k \notin Bad
  BY <1>3, <1>6
<1>8. InStep(a, r, l, k)
  BY <1>7
<1> QED
  BY ONLY <1>4, <1>6, <1>8, Histories(a, r, l, n), OneMoreInStep

(* The places of the posts and bets. *)
LEMMA CommitPlaces ==
    ASSUME NEW l \in Seq(LedgerEntry), NEW c,
           c = InOrder({i \in DOMAIN l : l[i].type \in CommitTypes})
    PROVE  \A k \in DOMAIN c : c[k] \in DOMAIN l
<1>1. PICK S, j, n : /\ S = {i \in DOMAIN l : l[i].type \in CommitTypes}
                     /\ j = Cardinality(S) /\ n = Len(l)
  OBVIOUS
<1>2. c = InOrder(S) /\ n \in Nat /\ DOMAIN l = 1..n
  BY <1>1
<1>3. PICK U : U = 1..n
  OBVIOUS
<1>4. S \in SUBSET Nat /\ S \in SUBSET U
  BY ONLY <1>1, <1>2, <1>3
<1>5. IsFiniteSet(U)
  <2>1. 1 \in Int /\ n \in Int
    BY <1>2
  <2> QED
    BY ONLY <1>3, <2>1, FS_Interval
<1>6. IsFiniteSet(S)
  BY ONLY <1>4, <1>5, FS_Subset
<1>7. j = Cardinality(S) /\ S \in SUBSET Nat /\ c = InOrder(S)
  BY ONLY <1>1, <1>2, <1>4
<1>8. c \in [1..j -> S]
  BY ONLY <1>6, <1>7, InOrderLists
<1> QED
  BY ONLY <1>2, <1>3, <1>4, <1>8

(* hand_ledger.py and hand_history.py read the entries l alike. *)
ReadAlike(l, timeline, state, commits) ==
    /\ timeline.is_completed = state.is_completed
    /\ timeline.is_reopened = state.is_reopened
    /\ timeline.pot = state.pot
    /\ timeline.actions
          = [k \in DOMAIN commits |-> RebuildHandState(SubSeq(l, 1, commits[k])).pot]

(* That is so for any list of entries, whatever commands wrote them. *)
THEOREM LedgerReadAlike ==
    ASSUME NEW l \in Seq(LedgerEntry), NEW c,
           c = InOrder({i \in DOMAIN l : l[i].type \in CommitTypes})
    PROVE  ReadAlike(l, BuildHandTimeline(l), RebuildHandState(l), c)
<1>1. PICK n, timeline, state :
         n = Len(l) /\ timeline = BuildHandTimeline(l) /\ state = RebuildHandState(l)
  OBVIOUS
<1>2. PICK r : r = [k \in 0..n |-> RebuildHandState(SubSeq(l, 1, k))]
  OBVIOUS
<1>3. n \in Nat /\ l \in [1..n -> LedgerEntry] /\ DOMAIN l = 1..n
  BY <1>1
<1>4. ReplaySteps(r, l, n) /\ r[n] = state
  BY <1>1, <1>2, ReplayHistory
<1>5. PICK a : TimelineSteps(a, l, n) /\ BuildHandTimeline(l) = a[n]
  BY ONLY <1>3, TimelineHistory
<1>6. InStep(a, r, l, n)
  <2>1. Histories(a, r, l, n)
    BY ONLY <1>3, <1>4, <1>5 DEF Histories
  <2> QED
    BY ONLY <2>1, AllInStep
<1>7. Agree(timeline, state) /\ timeline.actions = PotsAfter(InOrder(CommitsUpTo(l, n)), r)
  BY <1>1, <1>4, <1>5, <1>6 DEF InStep
<1>8. CommitsUpTo(l, n) = {i \in DOMAIN l : l[i].type \in CommitTypes}
  BY ONLY <1>3 DEF CommitsUpTo
<1>9. \A k \in DOMAIN c : c[k] \in 0..n
  <2>1. \A k \in DOMAIN c : c[k] \in DOMAIN l
    BY CommitPlaces
  <2> QED
    BY ONLY <1>3, <2>1
<1>10. timeline.actions = [k \in DOMAIN c |-> RebuildHandState(SubSeq(l, 1, c[k])).pot]
  <2>1. timeline.actions = [k \in DOMAIN c |-> r[c[k]].pot]
    <3>1. timeline.actions = PotsAfter(c, r)
      BY <1>7, <1>8
    <3> QED
      BY ONLY <3>1 DEF PotsAfter
  <2>2. \A k \in DOMAIN c : r[c[k]] = RebuildHandState(SubSeq(l, 1, c[k]))
    BY ONLY <1>2, <1>9
  <2> QED
    BY ONLY <2>1, <2>2
<1>11. ReadAlike(l, timeline, state, c)
  BY ONLY <1>7, <1>10 DEF Agree, ReadAlike
<1> QED
  BY ONLY <1>1, <1>11

(* A hand has at least the entries of its posts. *)
Started == DOMAIN ledger # {}

LEMMA StartedKept ==
    ASSUME LedgerInv, LedgerInv', Started, [HandStep \/ CorrectionStep]_vars
    PROVE  Started'
<1>1. LedgerSound(ledger) /\ ledger \in Seq(LedgerEntry)
  BY ExplainedParts DEF LedgerInv, LedgerSound
<1>2. ASSUME NEW x  PROVE DOMAIN Append(ledger, x) # {}
  <2>1. PICK T, n, l : T = LedgerEntry \cup {x} /\ n = Len(ledger) /\ l = ledger
    OBVIOUS
  <2>2. n \in Nat /\ l \in [1..n -> T]
    BY <1>1, <2>1
  <2>3. l \in Seq(T) /\ x \in T
    BY ONLY <2>1, <2>2, FunctionIsSeq
  <2>4. PICK e : e = Append(l, x)
    OBVIOUS
  <2>5. e \in Seq(T) /\ Len(e) = n + 1
    BY ONLY <2>1, <2>3, <2>4
  <2>6. 1 \in DOMAIN e
    BY ONLY <2>2, <2>5
  <2> QED
    BY ONLY <2>1, <2>4, <2>6
<1>3. ASSUME NEW payouts \in Submissions(hand), ResolveHand(payouts)  PROVE Started'
  <2>1. PICK r, m : r = RebuildHandState(ledger) /\ m = RebuildHandState(ledger')
    OBVIOUS
  <2>2. Explained(hand, dealt, ledger, r)
    BY <2>1 DEF LedgerInv
  <2>3. PayoutsAccepted(hand, payouts) /\ ledger' = ledger \o PayoutEntries(hand, payouts)
    BY <1>3 DEF ResolveHand
  <2>4. hand.pot_amount \in Nat /\ payouts \in PayoutRequest /\ payouts # <<>> /\ r \in Replayed
    <3>1. hand.pot_amount \in Nat /\ r \in Replayed
      BY <2>2, ExplainedParts, HandColumns
    <3> QED
      BY <2>3, <3>1 DEF PayoutsAccepted
  <2>5. Settling(ledger', ledger, hand, payouts)
    BY ONLY <2>3, <2>4 DEF Settling
  <2>6. Settled(ledger', ledger, m, r, payouts)
    BY ONLY <1>1, <2>1, <2>4, <2>5, SettlementAppended
  <2> QED
    BY ONLY <2>6 DEF Settled, Started
<1>4. CASE CorrectionStep
  BY <1>2, <1>4 DEF CorrectionStep, ReverseAction, AdjustStack, ReopenHand, CorrectPayout, Started
<1>5. ASSUME NEW p, NEW action, NEW amount, PlaceBet(p, action, amount)  PROVE Started'
  BY <1>2, <1>5 DEF PlaceBet, Started
<1>6. CASE AdvanceStreet
  BY <1>6 DEF AdvanceStreet, Started
<1>7. CASE UNCHANGED vars
  BY <1>7 DEF vars, Started
<1> QED
  BY <1>3, <1>4, <1>5, <1>6, <1>7 DEF HandStep

LEMMA StartedAlways == Spec => [](LedgerInv /\ Started)
<1>1. Init => LedgerInv /\ Started
  <2> SUFFICES ASSUME Init  PROVE Started
    BY LedgerInitially
  <2>1. PICK starting \in Seats :
           /\ hand = DealtHand(dealt, AssignPositions(Seats, starting), BlindLevel)
           /\ ledger = PostingEntries(hand, AssignPositions(Seats, starting))
    BY DEF Init
  <2>2. dealt \in FirstChips
    BY DEF Init
  <2>3. DOMAIN ledger # {}
    BY ONLY <2>1, <2>2, starting \in Seats, DealtExplained
  <2> QED
    BY <2>3 DEF Started
<1>2. LedgerInv /\ Started /\ [HandStep \/ CorrectionStep]_vars => (LedgerInv /\ Started)'
  <2>1. LedgerInv /\ [HandStep \/ CorrectionStep]_vars => LedgerInv'
    BY LedgerKept
  <2> QED
    BY <2>1, StartedKept
<1> QED
  BY <1>1, <1>2, PTL DEF Spec

(* replay_hand and build_hand_timeline, written apart, tell one history of *)
(* every hand, whatever was settled, reversed, reopened and corrected, and *)
(* end where the live hand is.                                             *)
THEOREM HistoriesAlwaysAgree == Spec => []HistoriesAgree
<1>1. LedgerInv /\ Started => HistoriesAgree
  <2> SUFFICES ASSUME LedgerInv, Started  PROVE HistoriesAgree
    OBVIOUS
  <2>1. PICK steps, last, timeline, c, n, state :
           /\ steps = ReplayHand(ledger) /\ last = steps[Len(ledger)]
           /\ timeline = BuildHandTimeline(ledger)
           /\ c = InOrder({i \in DOMAIN ledger : ledger[i].type \in CommitTypes})
           /\ n = Len(ledger) /\ state = RebuildHandState(ledger)
    OBVIOUS
  <2>2. /\ ledger \in Seq(LedgerEntry) /\ state.is_completed = (hand.status = "COMPLETED")
    BY <2>1, ExplainedParts DEF LedgerInv, LedgerSound
  <2>3. n \in DOMAIN ledger /\ SubSeq(ledger, 1, n) = ledger /\ DOMAIN ledger = 1..n
    BY <2>1, <2>2 DEF Started
  <2>4. \A i \in DOMAIN ledger : steps[i] = RebuildHandState(SubSeq(ledger, 1, i))
    BY ONLY <2>1 DEF ReplayHand
  <2>5. last = state
    BY ONLY <2>1, <2>3, <2>4
  <2>6. /\ timeline.is_completed = state.is_completed
        /\ timeline.is_reopened = state.is_reopened
        /\ timeline.pot = state.pot
        /\ timeline.actions = [k \in DOMAIN c |-> RebuildHandState(SubSeq(ledger, 1, c[k])).pot]
    <3>1. ReadAlike(ledger, timeline, state, c)
      BY ONLY <2>1, <2>2, LedgerReadAlike
    <3> QED
      BY ONLY <3>1 DEF ReadAlike
  <2>7. \A k \in DOMAIN c : c[k] \in DOMAIN ledger
    BY ONLY <2>1, <2>2, CommitPlaces
  <2>8. timeline.actions = [k \in DOMAIN c |-> steps[c[k]].pot]
    BY ONLY <2>4, <2>6, <2>7
  <2>9. /\ last.is_completed = (hand.status = "COMPLETED")
        /\ timeline.is_completed = last.is_completed
        /\ timeline.is_reopened = last.is_reopened
        /\ timeline.pot = last.pot
        /\ timeline.actions = [k \in DOMAIN c |-> steps[c[k]].pot]
    BY ONLY <2>2, <2>5, <2>6, <2>8
  <2> QED
    BY ONLY <2>1, <2>9 DEF HistoriesAgree
<1> QED
  BY <1>1, StartedAlways, PTL
=============================================================================
