-------------------------- MODULE HandEngineProofs --------------------------
(***************************************************************************)
(* What the engine's operators return, for every table: the lemmas the     *)
(* proofs about hands, rounds and games are built from.                    *)
(*                                                                         *)
(* The first part is about chip totals, for every finite set and every     *)
(* function.  SumFunction is a recursive function on the subsets of the    *)
(* domain, so each fact is an induction over finite subsets, done by       *)
(* minimal counterexample (lemma MinimalSubset).  The engine, the turn and *)
(* settlements follow; the last part takes calculate_side_pots apart, its  *)
(* layers and the fold that merges those nobody can win.                   *)
(***************************************************************************)
EXTENDS SidePots, FiniteSetTheorems, FunctionTheorems, WellFoundedInduction, TLAPS

-----------------------------------------------------------------------------
(* Sums                                                                    *)

(* The element of t the library's fold takes first. *)
Pick(t) == CHOOSE x \in t : TRUE

(* g[t] is the sum of f over t, for every subset t of S. *)
IsSum(g, f, S) ==
    g = [t \in SUBSET S |-> IF t = {} THEN 0 ELSE f[Pick(t)] + g[t \ {Pick(t)}]]

(* A non-empty family of subsets of a finite set has a minimal member. *)
LEMMA MinimalSubset ==
    ASSUME NEW S, IsFiniteSet(S), NEW F, F \subseteq SUBSET S, F # {}
    PROVE  \E X \in F : \A Y \in SUBSET X : Y # X => Y \notin F
<1>1. F \subseteq FiniteSubsetsOf(S)
  BY FS_Subset DEF FiniteSubsetsOf
<1>2. PICK X \in F : \A Y \in F : ~(<<Y, X>> \in StrictSubsetOrdering(S))
  BY <1>1, FS_StrictSubsetOrderingWellFounded, WFMin
<1>3. ASSUME NEW Y \in SUBSET X, Y # X, Y \in F
      PROVE  FALSE
  <2>1. <<Y, X>> \in StrictSubsetOrdering(S)
    BY <1>3, X \in SUBSET S DEF StrictSubsetOrdering
  <2> QED
    BY <1>2, <1>3, <2>1
<1> QED
  BY <1>2, <1>3

(* One step of the recursion. *)
LEMMA SumUnfold ==
    ASSUME NEW S, NEW f, NEW g, IsSum(g, f, S)
    PROVE  /\ g[{}] = 0
           /\ \A t \in SUBSET S : t # {} => g[t] = f[Pick(t)] + g[t \ {Pick(t)}]
BY DEF IsSum

(* Two sums of the same function agree wherever both are defined. *)
LEMMA SumUnique ==
    ASSUME NEW f, NEW A, NEW B, NEW g, NEW h, IsSum(g, f, A), IsSum(h, f, B),
           NEW t, IsFiniteSet(t), t \in SUBSET A, t \in SUBSET B
    PROVE  g[t] = h[t]
<1> DEFINE Bad == {u \in SUBSET t : g[u] # h[u]}
<1> SUFFICES ASSUME Bad # {}  PROVE FALSE
  OBVIOUS
<1>0. Bad \subseteq SUBSET t
  OBVIOUS
<1>1. PICK X \in Bad : \A Y \in SUBSET X : Y # X => Y \notin Bad
  <2> HIDE DEF Bad
  <2> QED  BY <1>0, MinimalSubset
<1>2. X # {}
  BY <1>1 DEF IsSum
<1>3. Pick(X) \in X
  BY <1>2 DEF Pick
<1>4. g[X \ {Pick(X)}] = h[X \ {Pick(X)}]
  BY <1>1, <1>3
<1>5. g[X] = f[Pick(X)] + g[X \ {Pick(X)}]
  BY <1>2 DEF IsSum
<1>6. h[X] = f[Pick(X)] + h[X \ {Pick(X)}]
  BY <1>2 DEF IsSum
<1> QED
  BY <1>1, <1>4, <1>5, <1>6

(* A function with natural values has a sum, and the sum is natural. *)
LEMMA SumExists ==
    ASSUME NEW S, IsFiniteSet(S), NEW f, \A s \in S : f[s] \in Nat
    PROVE  \E g \in [SUBSET S -> Nat] : IsSum(g, f, S)
<1> DEFINE Good(Y) == \E g \in [SUBSET Y -> Nat] : IsSum(g, f, Y)
           Bad == {Y \in SUBSET S : ~Good(Y)}
<1> SUFFICES ASSUME Bad # {}  PROVE FALSE
  OBVIOUS
<1>0. Bad \subseteq SUBSET S
  OBVIOUS
<1>1. PICK X \in Bad : \A Y \in SUBSET X : Y # X => Y \notin Bad
  <2> HIDE DEF Bad
  <2> QED  BY <1>0, MinimalSubset
<1> DEFINE G == [Y \in SUBSET X |-> CHOOSE g \in [SUBSET Y -> Nat] : IsSum(g, f, Y)]
           Rest == [t \in SUBSET X |-> t \ {Pick(t)}]
           h == [t \in SUBSET X |-> IF t = {} THEN 0
                                    ELSE f[Pick(t)] + G[Rest[t]][Rest[t]]]
<1>2. \A Y \in SUBSET X : Y # X => G[Y] \in [SUBSET Y -> Nat] /\ IsSum(G[Y], f, Y)
  <2> SUFFICES ASSUME NEW Y \in SUBSET X, Y # X
               PROVE  G[Y] \in [SUBSET Y -> Nat] /\ IsSum(G[Y], f, Y)
    OBVIOUS
  <2>1. \E g \in [SUBSET Y -> Nat] : IsSum(g, f, Y)
    BY <1>1
  <2> QED
    BY <2>1
<1>3. \A t \in SUBSET X : t # {} => /\ Pick(t) \in t
                                    /\ Rest[t] \in SUBSET X
                                    /\ Rest[t] \in SUBSET t
                                    /\ Rest[t] # X
                                    /\ Rest[t] = t \ {Pick(t)}
  BY DEF Pick
<1> HIDE DEF G, Rest
<1>4. \A t \in SUBSET X : h[t] = IF t = {} THEN 0
                                  ELSE f[Pick(t)] + G[Rest[t]][Rest[t]]
  OBVIOUS
<1>5. h = [t \in SUBSET X |-> h[t]]
  OBVIOUS
<1> HIDE DEF h
<1>x. IsFiniteSet(X)
  BY <1>0, FS_Subset
<1>6. \A t \in SUBSET X : h[t] \in Nat
  <2> SUFFICES ASSUME NEW t \in SUBSET X, t # {}  PROVE h[t] \in Nat
    BY <1>4
  <2>1. f[Pick(t)] \in Nat
    BY <1>3
  <2>2. G[Rest[t]] \in [SUBSET Rest[t] -> Nat]
    BY <1>2, <1>3
  <2>3. G[Rest[t]][Rest[t]] \in Nat
    BY <2>2
  <2> QED
    BY <2>1, <2>3, <1>4
<1>7. ASSUME NEW u \in SUBSET X, u # X
      PROVE  h[u] = G[u][u]
  <2>0. IsSum(G[u], f, u)
    BY <1>2, <1>7
  <2>1. CASE u = {}
    <3>1. G[u][u] = 0
      BY <2>0, <2>1 DEF IsSum
    <3> QED
      BY <3>1, <2>1, <1>4
  <2>2. CASE u # {}
    <3>1. Rest[u] \in SUBSET u /\ Rest[u] \in SUBSET X /\ Rest[u] # X
      BY <1>3, <2>2
    <3>2. IsSum(G[Rest[u]], f, Rest[u])
      BY <1>2, <3>1
    <3>3. G[u][Rest[u]] = G[Rest[u]][Rest[u]]
      <4>1. IsFiniteSet(Rest[u])
        BY <3>1, <1>x, FS_Subset
      <4> QED
        BY <2>0, <3>1, <3>2, <4>1, SumUnique
    <3>4. G[u][u] = f[Pick(u)] + G[u][Rest[u]]
      <4>1. G[u][u] = f[Pick(u)] + G[u][u \ {Pick(u)}]
        BY <2>0, <2>2, SumUnfold
      <4> QED
        BY <4>1, <1>3, <2>2
    <3> QED
      BY <3>3, <3>4, <2>2, <1>4
  <2> QED
    BY <2>1, <2>2
<1>8. ASSUME NEW t \in SUBSET X, t # {}
      PROVE  h[t] = f[Pick(t)] + h[t \ {Pick(t)}]
  <2>1. h[t] = f[Pick(t)] + G[Rest[t]][Rest[t]]
    BY <1>4, <1>8
  <2>2. h[Rest[t]] = G[Rest[t]][Rest[t]]
    BY <1>3, <1>7, <1>8
  <2>3. Rest[t] = t \ {Pick(t)}
    BY <1>3, <1>8
  <2> QED
    BY <2>1, <2>2, <2>3
<1>9. IsSum(h, f, X)
  BY <1>4, <1>5, <1>8 DEF IsSum
<1> QED
  BY <1>1, <1>5, <1>6, <1>9

(* SumFunction is such a sum, taken at the whole domain. *)
LEMMA SumFunctionIsSum ==
    ASSUME NEW f, IsFiniteSet(DOMAIN f), \A s \in DOMAIN f : f[s] \in Nat
    PROVE  \E g \in [SUBSET DOMAIN f -> Nat] :
              IsSum(g, f, DOMAIN f) /\ SumFunction(f) = g[DOMAIN f]
<1> DEFINE S == DOMAIN f
           iter == CHOOSE k : IsSum(k, f, S)
<1>1. PICK g \in [SUBSET S -> Nat] : IsSum(g, f, S)
  BY SumExists
<1>2. IsSum(iter, f, S)
  BY <1>1
<1>3. SumFunction(f) = iter[S]
  BY Zenon DEF SumFunction, SumFunctionOnSet, FoldFunctionOnSet, MapThenFoldSet, IsSum, Pick
<1> HIDE DEF iter
<1>4. iter[S] = g[S]
  BY <1>1, <1>2, SumUnique
<1> QED
  BY <1>1, <1>3, <1>4

(* SumFunction unfolds one element at a time, for some sum over the        *)
(* subsets of the domain.                                                  *)
LEMMA SumSpec ==
    ASSUME NEW S, IsFiniteSet(S), NEW f \in [S -> Nat]
    PROVE  \E g \in [SUBSET S -> Nat] : IsSum(g, f, S) /\ SumFunction(f) = g[S]
<1>1. DOMAIN f = S /\ \A s \in S : f[s] \in Nat
  OBVIOUS
<1>2. \E g \in [SUBSET DOMAIN f -> Nat] :
         IsSum(g, f, DOMAIN f) /\ SumFunction(f) = g[DOMAIN f]
  BY <1>1, SumFunctionIsSum
<1> QED
  BY <1>1, <1>2

(* Any element may be taken out first. *)
LEMMA SumTakeOut ==
    ASSUME NEW S, IsFiniteSet(S), NEW f, \A s \in S : f[s] \in Nat,
           NEW g \in [SUBSET S -> Nat], IsSum(g, f, S),
           NEW t \in SUBSET S, NEW x \in t
    PROVE  g[t] = f[x] + g[t \ {x}]
<1> DEFINE Bad == {u \in SUBSET S : \E y \in u : g[u] # f[y] + g[u \ {y}]}
<1> SUFFICES ASSUME Bad # {}  PROVE FALSE
  OBVIOUS
<1>0. Bad \subseteq SUBSET S
  OBVIOUS
<1>1. PICK X \in Bad : \A Y \in SUBSET X : Y # X => Y \notin Bad
  <2> HIDE DEF Bad
  <2> QED  BY <1>0, MinimalSubset
<1>2. PICK y \in X : g[X] # f[y] + g[X \ {y}]
  BY <1>1
<1> DEFINE p == Pick(X)  Xp == X \ {p}  Xy == X \ {y}  Xpy == Xp \ {y}
<1>3. p \in X
  BY <1>2 DEF Pick
<1>4. g[X] = f[p] + g[Xp]
  BY <1>2, SumUnfold
<1>5. y # p
  BY <1>2, <1>4
<1>6. g[Xp] = f[y] + g[Xpy]
  BY <1>1, <1>3, <1>5
<1>7. g[Xy] = f[p] + g[Xpy]
  <2>1. Xy \ {p} = Xpy
    OBVIOUS
  <2>2. g[Xy] = f[p] + g[Xy \ {p}]
    BY <1>1, <1>2, <1>3, <1>5
  <2> QED
    BY <2>1, <2>2
<1>8. f[p] \in Nat /\ f[y] \in Nat /\ g[Xpy] \in Nat
  BY <1>3, X \in SUBSET S
<1> HIDE DEF p, Xp, Xy, Xpy
<1>9. g[X] = f[y] + g[Xy]
  BY <1>4, <1>6, <1>7, <1>8
<1> QED
  BY <1>2, <1>9 DEF Xy

(* The sum of natural numbers is a natural number. *)
THEOREM SumFunctionNat ==
    ASSUME NEW S, IsFiniteSet(S), NEW f \in [S -> Nat]
    PROVE  SumFunction(f) \in Nat
<1>1. PICK g \in [SUBSET S -> Nat] : IsSum(g, f, S) /\ SumFunction(f) = g[S]
  BY SumSpec
<1> QED
  BY <1>1

(* The sum of the pointwise sums is the sum of the two sums. *)
THEOREM SumFunctionPlus ==
    ASSUME NEW S, IsFiniteSet(S),
           NEW a \in [S -> Nat], NEW b \in [S -> Nat], NEW c \in [S -> Nat],
           \A s \in S : c[s] = a[s] + b[s]
    PROVE  SumFunction(c) = SumFunction(a) + SumFunction(b)
<1>1. PICK ga \in [SUBSET S -> Nat] : IsSum(ga, a, S) /\ SumFunction(a) = ga[S]
  BY SumSpec
<1>2. PICK gb \in [SUBSET S -> Nat] : IsSum(gb, b, S) /\ SumFunction(b) = gb[S]
  BY SumSpec
<1>3. PICK gc \in [SUBSET S -> Nat] : IsSum(gc, c, S) /\ SumFunction(c) = gc[S]
  BY SumSpec
<1> DEFINE Bad == {u \in SUBSET S : gc[u] # ga[u] + gb[u]}
<1> SUFFICES ASSUME Bad # {}  PROVE FALSE
  BY <1>1, <1>2, <1>3
<1>4. Bad \subseteq SUBSET S
  OBVIOUS
<1>5. PICK X \in Bad : \A Y \in SUBSET X : Y # X => Y \notin Bad
  <2> HIDE DEF Bad
  <2> QED  BY <1>4, MinimalSubset
<1> DEFINE p == Pick(X)  Xp == X \ {p}
<1>6. X # {}
  <2>1. ga[{}] = 0 /\ gb[{}] = 0 /\ gc[{}] = 0
    BY <1>1, <1>2, <1>3, SumUnfold
  <2>2. gc[X] # ga[X] + gb[X]
    BY <1>5
  <2>3. SUFFICES ASSUME X = {}  PROVE FALSE
    OBVIOUS
  <2> QED
    BY <2>1, <2>2, <2>3
<1>7. p \in X /\ p \in S /\ Xp \in SUBSET X /\ Xp \in SUBSET S /\ Xp # X
  BY <1>6, X \in SUBSET S DEF Pick
<1>8. gc[Xp] = ga[Xp] + gb[Xp]
  BY <1>5, <1>7
<1>9. /\ ga[X] = a[p] + ga[Xp]
      /\ gb[X] = b[p] + gb[Xp]
      /\ gc[X] = c[p] + gc[Xp]
  BY <1>1, <1>2, <1>3, <1>6, SumUnfold
<1>10. /\ a[p] \in Nat /\ b[p] \in Nat /\ c[p] = a[p] + b[p]
       /\ ga[Xp] \in Nat /\ gb[Xp] \in Nat
  BY <1>7
<1> HIDE DEF p, Xp
<1>11. gc[X] = ga[X] + gb[X]
  BY <1>8, <1>9, <1>10
<1> QED
  BY <1>5, <1>11

(* The sum of a function that is zero everywhere is zero. *)
THEOREM SumFunctionZero ==
    ASSUME NEW S, IsFiniteSet(S), NEW z \in [S -> Nat], \A s \in S : z[s] = 0
    PROVE  SumFunction(z) = 0
<1>1. SumFunction(z) = SumFunction(z) + SumFunction(z)
  BY SumFunctionPlus
<1> QED
  BY <1>1, SumFunctionNat

(* A pointwise smaller function has a smaller sum. *)
THEOREM SumFunctionMonotonic ==
    ASSUME NEW S, IsFiniteSet(S), NEW a \in [S -> Nat], NEW b \in [S -> Nat],
           \A s \in S : a[s] <= b[s]
    PROVE  SumFunction(a) <= SumFunction(b)
<1> DEFINE d == [s \in S |-> b[s] - a[s]]
<1>1. d \in [S -> Nat] /\ \A s \in S : b[s] = a[s] + d[s]
  OBVIOUS
<1> HIDE DEF d
<1>2. SumFunction(b) = SumFunction(a) + SumFunction(d)
  BY <1>1, SumFunctionPlus
<1>3. SumFunction(a) \in Nat /\ SumFunction(d) \in Nat
  BY <1>1, SumFunctionNat
<1> QED
  BY <1>2, <1>3

(* One value taken out of the whole sum. *)
LEMMA SumSplit ==
    ASSUME NEW S, IsFiniteSet(S), NEW f \in [S -> Nat], NEW x \in S
    PROVE  \E g \in [SUBSET S -> Nat] :
              IsSum(g, f, S) /\ SumFunction(f) = f[x] + g[S \ {x}]
<1>1. PICK g \in [SUBSET S -> Nat] : IsSum(g, f, S) /\ SumFunction(f) = g[S]
  BY SumSpec
<1>2. g[S] = f[x] + g[S \ {x}]
  BY <1>1, SumTakeOut
<1> QED
  BY <1>1, <1>2

(* No value exceeds the sum. *)
THEOREM SumFunctionBound ==
    ASSUME NEW S, IsFiniteSet(S), NEW f \in [S -> Nat], NEW x \in S
    PROVE  f[x] <= SumFunction(f)
<1>1. PICK g \in [SUBSET S -> Nat] :
         IsSum(g, f, S) /\ SumFunction(f) = f[x] + g[S \ {x}]
  BY SumSplit
<1> QED
  BY <1>1, g[S \ {x}] \in Nat, f[x] \in Nat

(* Adding d to one value adds d to the sum. *)
THEOREM SumFunctionAdd ==
    ASSUME NEW S, IsFiniteSet(S), NEW f \in [S -> Nat], NEW x \in S, NEW d \in Nat
    PROVE  SumFunction([f EXCEPT ![x] = @ + d]) = SumFunction(f) + d
<1> DEFINE e == [s \in S |-> IF s = x THEN d ELSE 0]
           c == [f EXCEPT ![x] = @ + d]
<1>1. e \in [S -> Nat] /\ c \in [S -> Nat] /\ \A s \in S : c[s] = f[s] + e[s]
  OBVIOUS
<1>2. e[x] = d /\ \A s \in S \ {x} : e[s] = 0
  OBVIOUS
<1> HIDE DEF e, c
<1>3. SumFunction(c) = SumFunction(f) + SumFunction(e)
  BY <1>1, SumFunctionPlus
<1>4. SumFunction(e) = d
  <2>1. PICK g \in [SUBSET S -> Nat] :
           IsSum(g, e, S) /\ SumFunction(e) = e[x] + g[S \ {x}]
    BY <1>1, SumSplit, ZenonT(60)
  <2> DEFINE rest == [s \in S \ {x} |-> e[s]]
  <2>2. IsFiniteSet(S \ {x})
    BY FS_Subset
  <2>3. PICK k \in [SUBSET (S \ {x}) -> Nat] :
           IsSum(k, rest, S \ {x}) /\ SumFunction(rest) = k[S \ {x}]
    <3>1. rest \in [S \ {x} -> Nat]
      BY <1>1
    <3> HIDE DEF rest
    <3> QED  BY <2>2, <3>1, SumSpec, ZenonT(60)
  <2>4. SumFunction(rest) = 0
    BY <1>1, <1>2, <2>2, SumFunctionZero
  <2>5. IsSum(k, e, S \ {x})
    BY <2>3, ZenonT(60) DEF IsSum, Pick
  <2>6. g[S \ {x}] = k[S \ {x}]
    BY <2>1, <2>2, <2>5, SumUnique
  <2> QED
    BY <1>2, <2>1, <2>3, <2>4, <2>6
<1> QED
  BY <1>3, <1>4 DEF c

Without(S, x) == S \ {x}

(* The sum over a set is one value plus the sum over the rest. *)
LEMMA SumRemove ==
    ASSUME NEW S, IsFiniteSet(S), NEW f \in [S -> Nat], NEW x \in S,
           NEW r \in [Without(S, x) -> Nat], \A s \in Without(S, x) : r[s] = f[s]
    PROVE  SumFunction(f) = f[x] + SumFunction(r)
<1>0. PICK R : R = Without(S, x)
  OBVIOUS
<1>1. PICK g \in [SUBSET S -> Nat] :
         IsSum(g, f, S) /\ SumFunction(f) = f[x] + g[S \ {x}]
  BY SumSplit, ZenonT(60)
<1>2. IsFiniteSet(R) /\ R \in SUBSET S
  BY <1>0, FS_Subset DEF Without
<1>3. PICK k \in [SUBSET R -> Nat] : IsSum(k, r, R) /\ SumFunction(r) = k[R]
  BY <1>0, <1>2, SumSpec
<1>4. IsSum(k, f, R)
  BY <1>0, <1>3, SMTT(30) DEF IsSum, Pick
<1>5. g[R] = k[R]
  BY <1>1, <1>2, <1>4, SumUnique
<1> QED
  BY <1>0, <1>1, <1>3, <1>5 DEF Without

(* Two functions that differ in one value have sums that differ as much. *)
DifferAt(h, f, S, x) ==
    /\ IsFiniteSet(S) /\ x \in S /\ f \in [S -> Nat] /\ h \in [S -> Nat]
    /\ \A s \in S : s # x => h[s] = f[s]

LEMMA SumChange ==
    ASSUME NEW S, NEW f, NEW h, NEW x, DifferAt(h, f, S, x)
    PROVE  SumFunction(h) + f[x] = SumFunction(f) + h[x]
<1>0. /\ IsFiniteSet(S) /\ x \in S /\ f \in [S -> Nat] /\ h \in [S -> Nat]
      /\ \A s \in S : s # x => h[s] = f[s]
  BY DEF DifferAt
<1>1. PICK r : r = [s \in Without(S, x) |-> f[s]]
  OBVIOUS
<1>2. \A s \in Without(S, x) : s \in S /\ s # x
  BY DEF Without
<1>3. r \in [Without(S, x) -> Nat] /\ \A s \in Without(S, x) : r[s] = f[s] /\ r[s] = h[s]
  BY <1>0, <1>1, <1>2
<1>4. SumFunction(f) = f[x] + SumFunction(r)
  BY <1>0, <1>3, SumRemove
<1>5. SumFunction(h) = h[x] + SumFunction(r)
  BY <1>0, <1>3, SumRemove
<1>6. IsFiniteSet(Without(S, x))
  BY FS_Subset, <1>0, <1>2, Without(S, x) \in SUBSET S
<1>7. SumFunction(r) \in Nat
  BY <1>3, <1>6, SumFunctionNat
<1> QED
  BY <1>0, <1>4, <1>5, <1>7

(* cols holds the column sums of matrix A, rows its row sums. *)
RowAndColumnSums(A, B, cols, rows, I, S) ==
    /\ B \in [S -> [I -> Nat]]
    /\ \A s \in S : \A i \in I : B[s][i] = A[i][s]
    /\ cols \in [S -> Nat] /\ \A s \in S : cols[s] = SumFunction(B[s])
    /\ rows \in [I -> Nat] /\ \A i \in I : rows[i] = SumFunction(A[i])

(* Rows then columns, or columns then rows: the same total. *)
THEOREM SumFunctionExchange ==
    ASSUME NEW I, IsFiniteSet(I), NEW S, IsFiniteSet(S),
           NEW A \in [I -> [S -> Nat]], NEW B, NEW cols, NEW rows,
           RowAndColumnSums(A, B, cols, rows, I, S)
    PROVE  SumFunction(cols) = SumFunction(rows)
<1> DEFINE Cell == [J \in SUBSET I |-> [s \in S |-> [i \in J |-> A[i][s]]]]
           Cols == [J \in SUBSET I |-> [s \in S |-> SumFunction(Cell[J][s])]]
           Rows == [J \in SUBSET I |-> [i \in J |-> SumFunction(A[i])]]
           Bad == {J \in SUBSET I : SumFunction(Cols[J]) # SumFunction(Rows[J])}
<1>1. \A J \in SUBSET I : \A s \in S : /\ Cell[J][s] \in [J -> Nat]
                                       /\ \A i \in J : Cell[J][s][i] = A[i][s]
  OBVIOUS
<1>2. \A J \in SUBSET I :
         /\ Cols[J] = [s \in S |-> Cols[J][s]]
         /\ Rows[J] = [i \in J |-> Rows[J][i]]
  OBVIOUS
<1>a. \A J \in SUBSET I : \A s \in S : Cols[J][s] = SumFunction(Cell[J][s])
  OBVIOUS
<1>b. \A J \in SUBSET I : \A i \in J : Rows[J][i] = SumFunction(A[i])
  OBVIOUS
<1>3. Cols[I] = cols /\ Rows[I] = rows
  <2>1. \A s \in S : Cell[I][s] = B[s]
    BY <1>1 DEF RowAndColumnSums
  <2>2. \A s \in S : Cols[I][s] = cols[s]
    BY <2>1 DEF RowAndColumnSums
  <2>3. \A i \in I : Rows[I][i] = rows[i]
    BY <1>b DEF RowAndColumnSums
  <2> HIDE DEF Cell, Cols, Rows
  <2> QED
    BY <1>2, <2>2, <2>3, SMTT(30) DEF RowAndColumnSums
<1>4. Bad \subseteq SUBSET I
  OBVIOUS
<1>5. SUFFICES ASSUME Bad # {}  PROVE FALSE
  <2>1. SUFFICES ASSUME Bad = {}
                 PROVE  SumFunction(Cols[I]) = SumFunction(Rows[I])
    BY <1>3
  <2> QED
    BY <2>1
<1>6. PICK J \in Bad : \A K \in SUBSET J : K # J => K \notin Bad
  <2> HIDE DEF Bad
  <2> QED  BY <1>4, <1>5, MinimalSubset
<1>7. J \in SUBSET I /\ SumFunction(Cols[J]) # SumFunction(Rows[J])
  BY <1>6
<1>8. \A K \in SUBSET I : K \in SUBSET J /\ K # J =>
         SumFunction(Cols[K]) = SumFunction(Rows[K])
  BY <1>6
<1> HIDE DEF Cell, Cols, Rows, Bad
<1>9. \A K \in SUBSET I :
         IsFiniteSet(K) /\ Cols[K] \in [S -> Nat] /\ Rows[K] \in [K -> Nat]
  <2> SUFFICES ASSUME NEW K \in SUBSET I
               PROVE  IsFiniteSet(K) /\ Cols[K] \in [S -> Nat] /\ Rows[K] \in [K -> Nat]
    OBVIOUS
  <2>1. IsFiniteSet(K)
    BY FS_Subset
  <2>2. \A s \in S : SumFunction(Cell[K][s]) \in Nat
    BY <1>1, <2>1, SumFunctionNat
  <2>3. \A i \in K : SumFunction(A[i]) \in Nat
    BY SumFunctionNat
  <2>4. Cols[K] \in [S -> Nat]
    BY <1>2, <1>a, <2>2
  <2>5. Rows[K] \in [K -> Nat]
    BY <1>2, <1>b, <2>3
  <2> QED
    BY <2>1, <2>4, <2>5
<1>10. CASE J = {}
  <2>1. \A s \in S : Cols[J][s] = 0
    <3> SUFFICES ASSUME NEW s \in S  PROVE Cols[J][s] = 0
      OBVIOUS
    <3>1. SumFunction(Cell[J][s]) = 0
      BY <1>1, <1>7, <1>9, <1>10, SumFunctionZero
    <3> QED
      BY <1>a, <1>7, <3>1
  <2>2. SumFunction(Cols[J]) = 0
    BY <1>7, <1>9, <2>1, SumFunctionZero
  <2>3. SumFunction(Rows[J]) = 0
    BY <1>7, <1>9, <1>10, SumFunctionZero
  <2> QED
    BY <1>7, <2>2, <2>3
<1>11. CASE J # {}
  <2>1. PICK p \in J : TRUE
    BY <1>11
  <2>0. PICK K : K = Without(J, p)
    OBVIOUS
  <2>2. K \in SUBSET I /\ K \in SUBSET J /\ K # J /\ p \in I /\ J \in SUBSET I
    BY <1>7, <2>0 DEF Without
  <2>3. SumFunction(Rows[J]) = SumFunction(A[p]) + SumFunction(Rows[K])
    <3>1. Rows[J][p] = SumFunction(A[p]) /\ \A i \in K : Rows[K][i] = Rows[J][i]
      BY <1>b, <2>2
    <3>2. Rows[J] \in [J -> Nat] /\ Rows[K] \in [K -> Nat] /\ IsFiniteSet(J)
      BY <1>7, <1>9, <2>2
    <3>3. PICK j, k : j = Rows[J] /\ k = Rows[K]
      OBVIOUS
    <3>4. SumFunction(j) = j[p] + SumFunction(k)
      <4>1. j \in [J -> Nat] /\ k \in [K -> Nat] /\ \A i \in K : k[i] = j[i]
        BY <3>1, <3>2, <3>3
      <4> QED  BY <2>0, <3>2, <4>1, SumRemove
    <3> QED
      BY <3>1, <3>3, <3>4
  <2>4. ASSUME NEW s \in S
        PROVE  Cols[J][s] = A[p][s] + Cols[K][s]
    <3>1. /\ Cell[J][s] \in [J -> Nat] /\ Cell[K][s] \in [K -> Nat]
          /\ IsFiniteSet(J) /\ Cell[J][s][p] = A[p][s]
          /\ \A i \in K : Cell[K][s][i] = Cell[J][s][i]
      BY <1>1, <1>9, <2>2, SMTT(40)
    <3>2. SumFunction(Cell[J][s]) = Cell[J][s][p] + SumFunction(Cell[K][s])
      <4>1. PICK j, k : j = Cell[J][s] /\ k = Cell[K][s]
        OBVIOUS
      <4>2. j \in [J -> Nat] /\ k \in [K -> Nat] /\ \A i \in K : k[i] = j[i]
        BY <3>1, <4>1
      <4>3. SumFunction(j) = j[p] + SumFunction(k)
        BY <2>0, <3>1, <4>2, SumRemove, SMTT(40)
      <4> QED
        BY <4>1, <4>3
    <3> QED
      BY <1>a, <2>2, <3>1, <3>2
  <2>5. A[p] \in [S -> Nat] /\ Cols[J] \in [S -> Nat] /\ Cols[K] \in [S -> Nat]
    BY <1>7, <1>9, <2>2
  <2>6. SumFunction(Cols[J]) = SumFunction(A[p]) + SumFunction(Cols[K])
    BY <2>4, <2>5, SumFunctionPlus
  <2> QED
    BY <1>7, <1>8, <2>2, <2>3, <2>6
<1> QED
  BY <1>10, <1>11

-----------------------------------------------------------------------------
(* Positions, forced bets and turns                                        *)

(* A non-empty set of naturals has a least element, and Min is it. *)
LEMMA MinNat ==
    ASSUME NEW S \in SUBSET Nat, S # {}
    PROVE  Min(S) \in S /\ \A y \in S : Min(S) <= y
<1>1. PICK x \in S : \A y \in S : ~(<<y, x>> \in OpToRel(<, Nat))
  BY NatLessThanWellFounded, WFMin
<1>2. \A y \in S : ~(y < x)
  BY <1>1 DEF OpToRel
<1>3. \E z \in S : \A y \in S : z <= y
  BY <1>2
<1> QED
  BY <1>3 DEF Min

(* A non-empty finite set of naturals has a greatest element. *)
LEMMA MaxNat ==
    ASSUME NEW S \in SUBSET Nat, S # {}, IsFiniteSet(S)
    PROVE  Max(S) \in S /\ \A y \in S : Max(S) >= y
<1> DEFINE Top(T) == \E m \in T : \A y \in T : m >= y
           Bad == {T \in SUBSET S : T # {} /\ ~Top(T)}
<1>1. Bad = {}
  <2> SUFFICES ASSUME Bad # {}  PROVE FALSE
    OBVIOUS
  <2>1. Bad \subseteq SUBSET S
    OBVIOUS
  <2>2. PICK X \in Bad : \A Y \in SUBSET X : Y # X => Y \notin Bad
    <3> HIDE DEF Bad
    <3> QED  BY <2>1, MinimalSubset
  <2>3. PICK x \in X : TRUE
    BY <2>2
  <2>4. X \in SUBSET Nat /\ ~Top(X)
    BY <2>2
  <2>5. CASE X \ {x} = {}
    BY <2>4, <2>5
  <2>6. CASE X \ {x} # {}
    <3>1. PICK m \in X \ {x} : \A y \in X \ {x} : m >= y
      BY <2>2, <2>6
    <3>2. m \in Nat /\ x \in Nat
      BY <2>4, <3>1
    <3>3. CASE m >= x
      BY <2>4, <3>1, <3>3
    <3>4. CASE x >= m
      BY <2>4, <3>1, <3>2, <3>4
    <3> QED
      BY <3>2, <3>3, <3>4
  <2> QED
    BY <2>5, <2>6
<1>2. Top(S)
  BY <1>1
<1> QED
  BY <1>2 DEF Max

(* Going clockwise always finds a seat, and one other than the reference   *)
(* when there is one.                                                      *)
LEMMA FirstAfterFound ==
    ASSUME NEW S \in SUBSET Nat, S # {}, NEW ref \in Nat
    PROVE  /\ FirstAfter(S, ref) \in S
           /\ \A b \in S : b # ref => FirstAfter(S, ref) # ref
<1> DEFINE later == {s \in S : s > ref}
<1>1. CASE later # {}
  <2>1. later \in SUBSET Nat
    OBVIOUS
  <2>2. Min(later) \in later
    <3> HIDE DEF later
    <3> QED  BY <1>1, <2>1, MinNat
  <2>3. FirstAfter(S, ref) = Min(later)
    BY <1>1 DEF FirstAfter
  <2> QED
    BY <2>2, <2>3
<1>2. CASE later = {}
  <2>1. FirstAfter(S, ref) = Min(S)
    BY <1>2 DEF FirstAfter
  <2>2. Min(S) \in S /\ \A y \in S : Min(S) <= y
    BY MinNat
  <2> QED
    BY <1>2, <2>1, <2>2
<1> QED
  BY <1>1, <1>2

(* Dealer and blinds are taken by seats of the table, the blinds by two    *)
(* different ones.                                                         *)
LEMMA PositionsAreSeats ==
    ASSUME NEW S \in SUBSET Nat, ~AtMostOne(S), NEW dealer \in S
    PROVE  LET pos == PositionsFrom(S, dealer)
           IN  /\ pos \in [dealer: S, sb: S, bb: S]
               /\ pos.sb # pos.bb
<1>1. S # {} /\ \A a \in S : \E b \in S : b # a
  BY DEF AtMostOne
<1>2. PICK left : left = FirstAfter(S, dealer)
  OBVIOUS
<1>3. left \in S /\ left # dealer
  BY <1>1, <1>2, FirstAfterFound
<1>4. PICK next : next = FirstAfter(S, left)
  OBVIOUS
<1>5. next \in S /\ next # left
  BY <1>1, <1>3, <1>4, FirstAfterFound
<1> QED
  BY <1>2, <1>3, <1>4, <1>5 DEF PositionsFrom

(* The same for the first hand of a game and for every following hand.     *)
LEMMA NextPositionsAreSeats ==
    ASSUME NEW S \in SUBSET Nat, ~AtMostOne(S), NEW d \in Nat
    PROVE  /\ AssignPositions(S, d) \in [dealer: S, sb: S, bb: S]
           /\ AssignPositions(S, d).sb # AssignPositions(S, d).bb
           /\ RotatePositions(S, d) \in [dealer: S, sb: S, bb: S]
           /\ RotatePositions(S, d).sb # RotatePositions(S, d).bb
<1>1. S # {}
  BY DEF AtMostOne
<1>2. Min(S) \in S /\ FirstAfter(S, d) \in S
  BY <1>1, MinNat, FirstAfterFound
<1>3. PICK a \in S : AssignPositions(S, d) = PositionsFrom(S, a)
  BY <1>2 DEF AssignPositions
<1>4. PICK r \in S : RotatePositions(S, d) = PositionsFrom(S, r)
  BY <1>2 DEF RotatePositions
<1> QED
  BY <1>3, <1>4, PositionsAreSeats

-----------------------------------------------------------------------------
(* Forced bets                                                             *)

(* Nobody is forced to post more than he holds. *)
LEMMA PostedBound ==
    ASSUME NEW s \in Seats, NEW c \in Nat, NEW pos \in Positions, NEW level \in Level
    PROVE  Posted(s, c, pos, level) \in Nat /\ Posted(s, c, pos, level) <= c
<1>1. level.ante \in Nat /\ level.small_blind \in Nat /\ level.big_blind \in Nat
  BY DEF Level
<1>2. \A a, b \in Nat : /\ Smaller(a, b) \in Nat
                        /\ Smaller(a, b) <= a
                        /\ Smaller(a, b) <= b
  BY DEF Smaller
<1>3. PICK blind \in Nat :
         Posted(s, c, pos, level)
           = Smaller(level.ante, c) + Smaller(blind, c - Smaller(level.ante, c))
  BY <1>1 DEF Posted
<1>4. Smaller(level.ante, c) \in Nat /\ Smaller(level.ante, c) <= c
  BY <1>1, <1>2
<1>5. PICK a \in Nat : a = Smaller(level.ante, c) /\ a <= c
  BY <1>4
<1>6. c - a \in Nat
  BY <1>5
<1>7. Smaller(blind, c - a) \in Nat /\ Smaller(blind, c - a) <= c - a
  BY <1>2, <1>6
<1> QED
  BY <1>3, <1>5, <1>7

(* A dealt hand is well formed, its chips are those of the snapshot, its   *)
(* pot is what was posted and its highest bet bounds every posting.        *)
LEMMA DealtHandSound ==
    ASSUME NEW c \in [Seats -> Nat], NEW pos \in Positions, NEW level \in Level,
           {s \in Seats : c[s] > 0} # {}
    PROVE  LET h == DealtHand(c, pos, level)
           IN  /\ h \in HandState
               /\ h.status = "ACTIVE"
               /\ \A s \in Seats : h.stack_remaining[s] + h.committed_this_hand[s] = c[s]
               /\ h.pot_amount = SumFunction(h.committed_this_hand)
               /\ \A s \in Seats : h.committed_this_street[s] <= h.current_highest_bet
               /\ h.minimum_raise_amount = h.big_blind_amount
               /\ h.is_active_in_hand = {s \in Seats : c[s] > 0}
               /\ \A s \in h.is_active_in_hand :
                     s \in h.is_all_in <=> h.stack_remaining[s] = 0
<1> DEFINE dealt == {s \in Seats : c[s] > 0}
           posted == [s \in Seats |-> Posted(s, c[s], pos, level)]
           h == DealtHand(c, pos, level)
           bets == {posted[s] : s \in dealt}
<1>1. \A s \in Seats : posted[s] \in Nat /\ posted[s] <= c[s]
  BY PostedBound
<1>2. posted \in [Seats -> Nat]
  BY <1>1
<1>3. SumFunction(posted) \in Nat
  <2> HIDE DEF posted
  <2> QED  BY <1>2, SeatsAssumption, SumFunctionNat
<1>4. dealt # {} /\ IsFiniteSet(dealt) /\ dealt \in SUBSET Nat /\ dealt \in SUBSET Seats
  BY SeatsAssumption, FS_Subset
<1>5. IsFiniteSet(bets) /\ bets \in SUBSET Nat /\ bets # {}
  <2>1. IsFiniteSet(bets)
    <3> DEFINE m == [s \in dealt |-> posted[s]]
    <3>1. m \in Surjection(dealt, bets)
      BY DEF Surjection
    <3> HIDE DEF m, bets, dealt
    <3> QED  BY <1>4, <3>1, FS_Surjection
  <2> QED
    BY <1>1, <2>1
<1>6. Max(bets) \in Nat /\ \A y \in bets : y <= Max(bets)
  <2>1. Max(bets) \in bets /\ \A y \in bets : Max(bets) >= y
    <3> HIDE DEF bets
    <3> QED  BY <1>5, MaxNat
  <2> QED
    BY <1>5, <2>1
<1>7. \A s \in Seats : posted[s] <= Max(bets)
  <2> SUFFICES ASSUME NEW s \in Seats  PROVE posted[s] <= Max(bets)
    OBVIOUS
  <2>1. CASE s \in dealt
    BY <1>6, <2>1
  <2>2. CASE s \notin dealt
    <3>1. c[s] = 0
      BY <2>2
    <3>2. posted[s] = 0
      BY <1>1, <3>1
    <3> HIDE DEF posted, bets
    <3> QED  BY <1>6, <3>2
  <2> QED
    BY <2>1, <2>2
<1>8. FirstAfter(dealt, pos.bb) \in Seats /\ Min(dealt) \in Seats
  <2>1. pos.bb \in Nat
    BY SeatsAssumption DEF Positions
  <2> HIDE DEF dealt
  <2> QED
    BY <1>4, <2>1, FirstAfterFound, MinNat
<1>9. /\ h.status = "ACTIVE"
      /\ h.stack_remaining = [s \in Seats |-> c[s] - posted[s]]
      /\ h.committed_this_hand = posted
      /\ h.committed_this_street = posted
      /\ h.pot_amount = SumFunction(posted)
      /\ h.current_highest_bet = Max(bets)
      /\ h.minimum_raise_amount = h.big_blind_amount
      /\ h.is_active_in_hand = dealt
      /\ h.is_all_in = {s \in Seats : c[s] = posted[s] /\ posted[s] > 0}
  BY DEF DealtHand
<1>10. h \in HandState
  <2>1. [s \in Seats |-> c[s] - posted[s]] \in [Seats -> Nat]
    BY <1>1
  <2>2. /\ pos.dealer \in Nat /\ pos.bb \in Nat /\ level.big_blind \in Nat
    BY SeatsAssumption DEF Positions, Level
  <2> HIDE DEF dealt, posted, bets
  <2>3. h \in HandState <=>
          [status |-> "ACTIVE", street |-> "PRE_FLOP",
           dealer_seat |-> pos.dealer, big_blind_seat |-> pos.bb,
           big_blind_amount |-> level.big_blind,
           pot_amount |-> SumFunction(posted),
           current_highest_bet |-> Max(bets),
           minimum_raise_amount |-> level.big_blind,
           acting_player_id |-> IF pos.bb \in dealt THEN FirstAfter(dealt, pos.bb)
                                                    ELSE Min(dealt),
           is_action_closed |-> FALSE, last_aggressor_seat |-> NoSeat,
           state_version |-> 1,
           stack_remaining |-> [s \in Seats |-> c[s] - posted[s]],
           committed_this_street |-> posted, committed_this_hand |-> posted,
           has_folded |-> {},
           is_all_in |-> {s \in Seats : c[s] = posted[s] /\ posted[s] > 0},
           is_active_in_hand |-> dealt] \in HandState
    BY DEF DealtHand, dealt, posted, bets
  <2> QED
    BY <1>2, <1>3, <1>4, <1>6, <1>8, <2>1, <2>2, <2>3
       DEF HandState, Statuses, Streets
<1>11. \A s \in Seats : h.stack_remaining[s] + h.committed_this_hand[s] = c[s]
  <2> HIDE DEF h, posted
  <2> QED  BY <1>1, <1>9
<1>12. \A s \in dealt : s \in h.is_all_in <=> h.stack_remaining[s] = 0
  <2> HIDE DEF h, posted
  <2> QED  BY <1>1, <1>9
<1> HIDE DEF h, posted, bets, dealt
<1> QED
  BY <1>7, <1>9, <1>10, <1>11, <1>12 DEF h, dealt

-----------------------------------------------------------------------------
(* Actions                                                                 *)

(* The columns of a well-formed hand that betting reads. *)
LEMMA HandColumns ==
    ASSUME NEW h \in HandState
    PROVE  /\ h.stack_remaining \in [Seats -> Nat]
           /\ h.committed_this_street \in [Seats -> Nat]
           /\ h.committed_this_hand \in [Seats -> Nat]
           /\ h.pot_amount \in Nat /\ h.current_highest_bet \in Nat
           /\ h.minimum_raise_amount \in Nat /\ h.state_version \in Nat
           /\ h.dealer_seat \in Nat /\ h.big_blind_amount \in Nat
           /\ h.has_folded \in SUBSET Seats /\ h.is_all_in \in SUBSET Seats
           /\ h.is_active_in_hand \in SUBSET Seats
           /\ h.last_aggressor_seat \in Seats \cup {NoSeat}
           /\ h.street \in Streets
BY DEF HandState

(* A validated action moves between nothing and the whole stack.           *)
LEMMA ChipsBound ==
    ASSUME NEW h \in HandState, NEW p \in Seats, NEW action \in Actions,
           NEW amount \in Nat, ValidateBet(h, p, action, amount)
    PROVE  /\ Chips(h, p, action, amount) \in Nat
           /\ Chips(h, p, action, amount) <= h.stack_remaining[p]
<1>1. h.stack_remaining[p] \in Nat /\ h.committed_this_street[p] \in Nat
      /\ h.current_highest_bet \in Nat
  BY HandColumns
<1>2. CallAmount(h, p) \in Nat
  BY <1>1 DEF CallAmount
<1>3. Smaller(CallAmount(h, p), h.stack_remaining[p]) \in Nat
      /\ Smaller(CallAmount(h, p), h.stack_remaining[p]) <= h.stack_remaining[p]
  BY <1>1, <1>2 DEF Smaller
<1>4. CASE action = "CALL"
  BY <1>3, <1>4 DEF Chips
<1>5. CASE action = "BET"
  BY <1>1, <1>5 DEF Chips, ValidateBet, SizeAllowed
<1>6. CASE action = "RAISE"
  <2>1. Chips(h, p, action, amount) = amount - h.committed_this_street[p]
    BY <1>6 DEF Chips
  <2>2. SizeAllowed(h, p, Chips(h, p, action, amount), amount - h.current_highest_bet)
    BY <1>6 DEF ValidateBet
  <2> QED
    BY <1>1, <2>1, <2>2 DEF SizeAllowed
<1>7. CASE action = "ALL_IN"
  BY <1>1, <1>7 DEF Chips
<1>8. CASE action \in {"FOLD", "CHECK"}
  BY <1>1, <1>8 DEF Chips
<1> QED
  BY <1>4, <1>5, <1>6, <1>7, <1>8 DEF Actions

(* The columns Committed writes, one by one. *)
LEMMA CommittedColumns ==
    ASSUME NEW h \in HandState, NEW p \in Seats, NEW action, NEW amount,
           NEW chips, chips = Chips(h, p, action, amount),
           NEW effective, effective = EffectiveAction(h, p, action, amount),
           NEW post, post = h.committed_this_street[p] + chips,
           NEW k, k = Committed(h, p, action, amount)
    PROVE  /\ k.stack_remaining = [h.stack_remaining EXCEPT ![p] = @ - chips]
           /\ k.committed_this_street = [h.committed_this_street EXCEPT ![p] = post]
           /\ k.committed_this_hand = [h.committed_this_hand EXCEPT ![p] = @ + chips]
           /\ k.pot_amount = h.pot_amount + chips
           /\ k.status = h.status
           /\ k.street = h.street
           /\ k.dealer_seat = h.dealer_seat
           /\ k.big_blind_seat = h.big_blind_seat
           /\ k.big_blind_amount = h.big_blind_amount
           /\ k.state_version = h.state_version
           /\ k.has_folded = h.has_folded \cup (IF effective = "FOLD" THEN {p} ELSE {})
           /\ k.is_active_in_hand =
                 h.is_active_in_hand \ (IF effective = "FOLD" THEN {p} ELSE {})
           /\ k.is_all_in = h.is_all_in \cup (IF effective = "ALL_IN" THEN {p} ELSE {})
           /\ k.current_highest_bet =
                 IF effective \in {"BET", "RAISE", "ALL_IN"} /\ post - h.current_highest_bet > 0
                 THEN post ELSE h.current_highest_bet
           /\ k.minimum_raise_amount =
                 IF /\ effective \in {"BET", "RAISE", "ALL_IN"}
                    /\ post - h.current_highest_bet > h.minimum_raise_amount
                 THEN post - h.current_highest_bet ELSE h.minimum_raise_amount
           /\ k.last_aggressor_seat =
                 IF effective \in {"BET", "RAISE", "ALL_IN"} THEN p ELSE h.last_aggressor_seat
BY DEF Committed, RaisedMinimum, HandState

(* The turn goes to a player who can act, or to nobody. *)
LEMMA NextToActFound ==
    ASSUME NEW k, CanAct(k) \in SUBSET Seats, NEW current \in Seats
    PROVE  NextToAct(k, current) \in CanAct(k) \cup {NoSeat}
<1> DEFINE stops == NeedsAction(k) \cup (CanAct(k) \cap {k.last_aggressor_seat})
<1>1. stops \in SUBSET CanAct(k) /\ stops \in SUBSET Nat /\ current \in Nat
  BY SeatsAssumption DEF NeedsAction
<1>2. CASE stops = {}
  BY <1>2 DEF NextToAct
<1>3. CASE stops # {}
  <2>1. FirstAfter(stops, current) \in stops
    <3> HIDE DEF stops
    <3> QED  BY <1>1, <1>3, FirstAfterFound
  <2>2. NextToAct(k, current) \in {NoSeat, FirstAfter(stops, current)}
    BY DEF NextToAct
  <2> QED
    BY <1>1, <2>1, <2>2
<1> QED
  BY <1>2, <1>3

(* What passing the turn leaves alone. *)
LEMMA PassTurnSound ==
    ASSUME NEW k \in HandState, NEW p \in Seats, NEW m, m = PassTurn(k, p)
    PROVE  /\ m \in HandState
           /\ m.acting_player_id \in CanAct(m) \cup {NoSeat}
           /\ m.status = k.status
           /\ m.street = k.street
           /\ m.big_blind_amount = k.big_blind_amount
           /\ m.stack_remaining = k.stack_remaining
           /\ m.committed_this_street = k.committed_this_street
           /\ m.committed_this_hand = k.committed_this_hand
           /\ m.pot_amount = k.pot_amount
           /\ m.current_highest_bet = k.current_highest_bet
           /\ m.minimum_raise_amount = k.minimum_raise_amount
           /\ m.is_active_in_hand = k.is_active_in_hand
           /\ m.is_all_in = k.is_all_in
<1>1. CanAct(k) \in SUBSET Seats
  BY HandColumns DEF CanAct
<1>2. PICK next : next = NextToAct(k, p)
  OBVIOUS
<1>3. next \in CanAct(k) \cup {NoSeat}
  BY <1>1, <1>2, NextToActFound
<1>0. PICK closed \in BOOLEAN : closed = (next = NoSeat)
  OBVIOUS
<1>4. m = [k EXCEPT !.acting_player_id = next, !.is_action_closed = closed,
                    !.state_version = @ + 1]
  BY <1>0, <1>2 DEF PassTurn
<1>5. m \in HandState /\ m.acting_player_id = next
  <2>1. k.state_version + 1 \in Nat /\ next \in Seats \cup {NoSeat}
    BY <1>1, <1>3, HandColumns
  <2> QED
    BY <1>4, <2>1, ZenonT(60) DEF HandState
<1>6. CanAct(m) = CanAct(k)
  BY <1>4 DEF CanAct, HandState
<1> QED
  BY <1>3, <1>4, <1>5, <1>6 DEF HandState

(* A validated action keeps the columns of the hand well formed, on any    *)
(* hand: also on one whose columns were read at different times.           *)
LEMMA CommittedTyped ==
    ASSUME NEW h \in HandState, NEW p \in Seats, NEW action \in Actions,
           NEW amount \in Nat, ValidateBet(h, p, action, amount)
    PROVE  Committed(h, p, action, amount) \in HandState
<1>1. PICK chips, effective :
         /\ chips = Chips(h, p, action, amount)
         /\ effective = EffectiveAction(h, p, action, amount)
  OBVIOUS
<1>2. chips \in Nat /\ chips <= h.stack_remaining[p]
  BY <1>1, ChipsBound
<1>3. PICK post : post = h.committed_this_street[p] + chips
  OBVIOUS
<1>4. /\ h.stack_remaining \in [Seats -> Nat]
      /\ h.committed_this_street \in [Seats -> Nat]
      /\ h.committed_this_hand \in [Seats -> Nat]
      /\ h.pot_amount \in Nat /\ h.current_highest_bet \in Nat
      /\ h.minimum_raise_amount \in Nat
      /\ h.has_folded \in SUBSET Seats /\ h.is_all_in \in SUBSET Seats
      /\ h.is_active_in_hand \in SUBSET Seats
      /\ h.last_aggressor_seat \in Seats \cup {NoSeat}
  BY HandColumns
<1>5. post \in Nat
  BY <1>2, <1>3, <1>4
<1>6. PICK k : k = Committed(h, p, action, amount)
  OBVIOUS
<1>c. /\ k.stack_remaining = [h.stack_remaining EXCEPT ![p] = @ - chips]
      /\ k.committed_this_street = [h.committed_this_street EXCEPT ![p] = post]
      /\ k.committed_this_hand = [h.committed_this_hand EXCEPT ![p] = @ + chips]
      /\ k.pot_amount = h.pot_amount + chips
      /\ k.status = h.status
      /\ k.big_blind_amount = h.big_blind_amount
      /\ k.has_folded = h.has_folded \cup (IF effective = "FOLD" THEN {p} ELSE {})
      /\ k.last_aggressor_seat =
            IF effective \in {"BET", "RAISE", "ALL_IN"} THEN p ELSE h.last_aggressor_seat
      /\ k.is_active_in_hand =
            h.is_active_in_hand \ (IF effective = "FOLD" THEN {p} ELSE {})
      /\ k.is_all_in = h.is_all_in \cup (IF effective = "ALL_IN" THEN {p} ELSE {})
      /\ k.current_highest_bet =
            IF effective \in {"BET", "RAISE", "ALL_IN"} /\ post - h.current_highest_bet > 0
            THEN post ELSE h.current_highest_bet
      /\ k.minimum_raise_amount =
            IF /\ effective \in {"BET", "RAISE", "ALL_IN"}
               /\ post - h.current_highest_bet > h.minimum_raise_amount
            THEN post - h.current_highest_bet ELSE h.minimum_raise_amount
  BY <1>1, <1>3, <1>6, CommittedColumns
<1>7. k \in HandState
  <2>1. /\ k.stack_remaining \in [Seats -> Nat]
        /\ k.committed_this_street \in [Seats -> Nat]
        /\ k.committed_this_hand \in [Seats -> Nat]
    BY <1>2, <1>4, <1>5, <1>c
  <2>2. k.pot_amount \in Nat
    BY <1>2, <1>4, <1>c
  <2>3. k.current_highest_bet \in Nat /\ k.minimum_raise_amount \in Nat
    BY <1>4, <1>5, <1>c
  <2>4. /\ k.has_folded \in SUBSET Seats /\ k.is_all_in \in SUBSET Seats
        /\ k.is_active_in_hand \in SUBSET Seats
        /\ k.last_aggressor_seat \in Seats \cup {NoSeat}
    BY <1>4, <1>c
  <2>5. k = [h EXCEPT
               !.stack_remaining = k.stack_remaining,
               !.committed_this_street = k.committed_this_street,
               !.committed_this_hand = k.committed_this_hand,
               !.has_folded = k.has_folded, !.is_active_in_hand = k.is_active_in_hand,
               !.is_all_in = k.is_all_in, !.pot_amount = k.pot_amount,
               !.current_highest_bet = k.current_highest_bet,
               !.minimum_raise_amount = k.minimum_raise_amount,
               !.last_aggressor_seat = k.last_aggressor_seat]
    BY <1>6 DEF Committed, HandState
  <2> QED
    BY <2>1, <2>2, <2>3, <2>4, <2>5, ZenonT(60) DEF HandState
<1> QED
  BY <1>6, <1>7

(* So does the whole action, which raises the version by one. *)
LEMMA ApplyActionTyped ==
    ASSUME NEW h \in HandState, NEW p \in Seats, NEW action \in Actions,
           NEW amount \in Nat, ValidateBet(h, p, action, amount)
    PROVE  /\ ApplyAction(h, p, action, amount) \in HandState
           /\ ApplyAction(h, p, action, amount).state_version = h.state_version + 1
<1>1. PICK k, m : k = Committed(h, p, action, amount) /\ m = PassTurn(k, p)
  OBVIOUS
<1>2. k \in HandState
  BY <1>1, CommittedTyped
<1>3. m \in HandState
  BY <1>1, <1>2, PassTurnSound
<1>4. k.state_version = h.state_version
  BY <1>1 DEF Committed, HandState
<1>5. m.state_version = k.state_version + 1
  BY <1>1, <1>2 DEF PassTurn, HandState
<1> QED
  BY <1>1, <1>3, <1>4, <1>5 DEF ApplyAction

(* What the action moves leaves the player's stack for the pot. *)
LEMMA ActionMovesChips ==
    ASSUME NEW h \in HandState, NEW p \in Seats, NEW action, NEW amount,
           NEW m, m = ApplyAction(h, p, action, amount)
    PROVE  /\ m.pot_amount = h.pot_amount + Chips(h, p, action, amount)
           /\ m.stack_remaining[p] = h.stack_remaining[p] - Chips(h, p, action, amount)
<1>1. PICK chips, effective :
         /\ chips = Chips(h, p, action, amount)
         /\ effective = EffectiveAction(h, p, action, amount)
  OBVIOUS
<1>3. PICK k : k = Committed(h, p, action, amount)
  OBVIOUS
<1>4. /\ k.stack_remaining = [h.stack_remaining EXCEPT ![p] = @ - chips]
      /\ k.pot_amount = h.pot_amount + chips
  BY <1>1, <1>3 DEF Committed, RaisedMinimum, HandState
<1>5. m = PassTurn(k, p)
  BY <1>3 DEF ApplyAction
<1>6. m.stack_remaining = k.stack_remaining /\ m.pot_amount = k.pot_amount
  BY <1>5 DEF PassTurn
<1>7. h.stack_remaining \in [Seats -> Nat]
  BY HandColumns
<1> QED
  BY <1>1, <1>4, <1>6, <1>7

(* What holds of a hand before seat p acts. *)
ReadyToAct(h, p) ==
    /\ h.pot_amount = SumFunction(h.committed_this_hand)
    /\ \A s \in Seats : h.committed_this_street[s] <= h.current_highest_bet
    /\ h.stack_remaining[p] > 0

(* What relates the hand h before seat p acts to the hand m afterwards. *)
ActedSoundly(h, p, m) ==
    /\ m \in HandState
    /\ m.status = "ACTIVE"
    /\ m.acting_player_id \in CanAct(m) \cup {NoSeat}
    /\ m.big_blind_amount = h.big_blind_amount
    /\ \A s \in Seats : m.stack_remaining[s] + m.committed_this_hand[s]
                         = h.stack_remaining[s] + h.committed_this_hand[s]
    /\ m.pot_amount = SumFunction(m.committed_this_hand)
    /\ \A s \in Seats : m.committed_this_street[s] <= m.current_highest_bet
    /\ m.minimum_raise_amount >= h.minimum_raise_amount
    /\ m.is_active_in_hand \in SUBSET h.is_active_in_hand
    /\ p \in m.is_all_in <=> m.stack_remaining[p] = 0
    /\ \A s \in Seats \ {p} : s \in m.is_all_in <=> s \in h.is_all_in
    /\ \A s \in Seats \ {p} : m.stack_remaining[s] = h.stack_remaining[s]
    /\ m.stack_remaining[p] <= h.stack_remaining[p]

(* A validated action keeps the hand well formed, moves the same chips out *)
(* of the stack, into the commitments and into the pot, keeps the highest  *)
(* bet an upper bound, and marks the player all-in exactly when nothing is *)
(* left.                                                                   *)
LEMMA ApplyActionSound ==
    ASSUME NEW h \in HandState, NEW p \in Seats, NEW action \in Actions,
           NEW amount \in Nat, ValidateBet(h, p, action, amount), ReadyToAct(h, p)
    PROVE  ActedSoundly(h, p, ApplyAction(h, p, action, amount))
<1>0. PICK m : m = ApplyAction(h, p, action, amount)
  OBVIOUS
<1>1. PICK chips, effective :
         /\ chips = Chips(h, p, action, amount)
         /\ effective = EffectiveAction(h, p, action, amount)
  OBVIOUS
<1>2. chips \in Nat /\ chips <= h.stack_remaining[p]
  BY <1>1, ChipsBound
<1>3. PICK post : post = h.committed_this_street[p] + chips
  OBVIOUS
<1>4. /\ h.stack_remaining \in [Seats -> Nat]
      /\ h.committed_this_street \in [Seats -> Nat]
      /\ h.committed_this_hand \in [Seats -> Nat]
      /\ h.pot_amount \in Nat /\ h.current_highest_bet \in Nat
      /\ h.minimum_raise_amount \in Nat
      /\ h.has_folded \in SUBSET Seats /\ h.is_all_in \in SUBSET Seats
      /\ h.is_active_in_hand \in SUBSET Seats
      /\ h.last_aggressor_seat \in Seats \cup {NoSeat}
  BY HandColumns
<1>5. post \in Nat
  BY <1>2, <1>3, <1>4
<1>6. PICK k : k = Committed(h, p, action, amount)
  OBVIOUS
<1>c. /\ k.stack_remaining = [h.stack_remaining EXCEPT ![p] = @ - chips]
      /\ k.committed_this_street = [h.committed_this_street EXCEPT ![p] = post]
      /\ k.committed_this_hand = [h.committed_this_hand EXCEPT ![p] = @ + chips]
      /\ k.pot_amount = h.pot_amount + chips
      /\ k.status = h.status
      /\ k.big_blind_amount = h.big_blind_amount
      /\ k.has_folded = h.has_folded \cup (IF effective = "FOLD" THEN {p} ELSE {})
      /\ k.last_aggressor_seat =
            IF effective \in {"BET", "RAISE", "ALL_IN"} THEN p ELSE h.last_aggressor_seat
      /\ k.is_active_in_hand =
            h.is_active_in_hand \ (IF effective = "FOLD" THEN {p} ELSE {})
      /\ k.is_all_in = h.is_all_in \cup (IF effective = "ALL_IN" THEN {p} ELSE {})
      /\ k.current_highest_bet =
            IF effective \in {"BET", "RAISE", "ALL_IN"} /\ post - h.current_highest_bet > 0
            THEN post ELSE h.current_highest_bet
      /\ k.minimum_raise_amount =
            IF /\ effective \in {"BET", "RAISE", "ALL_IN"}
               /\ post - h.current_highest_bet > h.minimum_raise_amount
            THEN post - h.current_highest_bet ELSE h.minimum_raise_amount
  BY <1>1, <1>3, <1>6, CommittedColumns
<1>7. k \in HandState
  BY <1>6, CommittedTyped
<1>8. m = PassTurn(k, p)
  BY <1>0, <1>6 DEF ApplyAction
<1>m. /\ m \in HandState
      /\ m.acting_player_id \in CanAct(m) \cup {NoSeat}
      /\ m.status = k.status
      /\ m.big_blind_amount = k.big_blind_amount
      /\ m.stack_remaining = k.stack_remaining
      /\ m.committed_this_street = k.committed_this_street
      /\ m.committed_this_hand = k.committed_this_hand
      /\ m.pot_amount = k.pot_amount
      /\ m.current_highest_bet = k.current_highest_bet
      /\ m.minimum_raise_amount = k.minimum_raise_amount
      /\ m.is_active_in_hand = k.is_active_in_hand
      /\ m.is_all_in = k.is_all_in
  BY <1>7, <1>8, PassTurnSound
<1>9. m.status = "ACTIVE"
  BY <1>c, <1>m DEF ValidateBet, MayAct
<1>10. \A s \in Seats : m.stack_remaining[s] + m.committed_this_hand[s]
                        = h.stack_remaining[s] + h.committed_this_hand[s]
  BY <1>2, <1>4, <1>c, <1>m
<1>11. m.pot_amount = SumFunction(m.committed_this_hand)
  <2>1. PICK f : f = h.committed_this_hand /\ f \in [Seats -> Nat]
    BY <1>4
  <2>2. SumFunction([f EXCEPT ![p] = @ + chips]) = SumFunction(f) + chips
    BY <1>2, <2>1, SeatsAssumption, SumFunctionAdd
  <2> QED
    BY <1>c, <1>m, <2>1, <2>2 DEF ReadyToAct
<1>12. \A s \in Seats : m.committed_this_street[s] <= m.current_highest_bet
  <2>1. effective \notin {"BET", "RAISE", "ALL_IN"} => post <= h.current_highest_bet
    <3>1. CASE action \in {"FOLD", "CHECK"}
      BY <1>1, <1>3, <1>4, <3>1 DEF Chips, ReadyToAct
    <3>2. CASE action = "CALL"
      <4>1. chips = Smaller(CallAmount(h, p), h.stack_remaining[p])
        BY <1>1, <3>2 DEF Chips
      <4>2. CallAmount(h, p) \in Nat
            /\ h.committed_this_street[p] + CallAmount(h, p) <= h.current_highest_bet
        BY <1>4 DEF CallAmount, ReadyToAct
      <4> QED
        BY <1>2, <1>3, <1>4, <4>1, <4>2 DEF Smaller
    <3>3. CASE action \in {"BET", "RAISE", "ALL_IN"}
      BY <1>1, <3>3 DEF EffectiveAction
    <3> QED
      BY <3>1, <3>2, <3>3 DEF Actions
  <2>2. /\ post <= k.current_highest_bet
        /\ h.current_highest_bet <= k.current_highest_bet
        /\ k.current_highest_bet \in Nat
    BY <1>4, <1>5, <1>c, <2>1
  <2>3. \A s \in Seats : k.committed_this_street[s]
                             = IF s = p THEN post ELSE h.committed_this_street[s]
    BY <1>4, <1>c
  <2>4. \A s \in Seats : k.committed_this_street[s] <= k.current_highest_bet
    BY <1>4, <2>2, <2>3 DEF ReadyToAct
  <2> QED
    BY <1>m, <2>4
<1>13. m.minimum_raise_amount >= h.minimum_raise_amount
  BY <1>4, <1>5, <1>c, <1>m
<1>14. m.is_active_in_hand \in SUBSET h.is_active_in_hand
  BY <1>c, <1>m
<1>15. /\ p \in m.is_all_in <=> m.stack_remaining[p] = 0
       /\ \A s \in Seats \ {p} : s \in m.is_all_in <=> s \in h.is_all_in
       /\ \A s \in Seats \ {p} : m.stack_remaining[s] = h.stack_remaining[s]
  <2>1. p \notin h.is_all_in
    BY DEF ValidateBet, MayAct, CanAct
  <2>2. effective = "ALL_IN" <=> chips = h.stack_remaining[p]
    <3>1. CASE action \in {"FOLD", "CHECK"}
      BY <1>1, <1>4, <3>1 DEF Chips, EffectiveAction, ReadyToAct
    <3>2. CASE action \in {"CALL", "BET", "RAISE"}
      BY <1>1, <3>2 DEF EffectiveAction
    <3>3. CASE action = "ALL_IN"
      BY <1>1, <3>3 DEF Chips, EffectiveAction
    <3> QED
      BY <3>1, <3>2, <3>3 DEF Actions
  <2>3. p \in m.is_all_in <=> m.stack_remaining[p] = 0
    BY <1>2, <1>4, <1>c, <1>m, <2>1, <2>2
  <2>4. \A s \in Seats \ {p} : s \in m.is_all_in <=> s \in h.is_all_in
    BY <1>c, <1>m
  <2>5. \A s \in Seats \ {p} : m.stack_remaining[s] = h.stack_remaining[s]
    BY <1>4, <1>c, <1>m
  <2> QED
    BY <2>3, <2>4, <2>5
<1>16. m.stack_remaining[p] <= h.stack_remaining[p]
  BY <1>2, <1>4, <1>c, <1>m
<1> QED
  BY <1>0, <1>c, <1>m, <1>9, <1>10, <1>11, <1>12, <1>13, <1>14, <1>15, <1>16
     DEF ActedSoundly

-----------------------------------------------------------------------------
(* Streets                                                                 *)

(* Closing the betting moves no chips. *)
LEMMA ClosedHandSound ==
    ASSUME NEW h \in HandState, NEW m, m = ClosedHand(h)
    PROVE  /\ m \in HandState
           /\ m.acting_player_id = NoSeat
           /\ m.status = h.status
           /\ m.street = h.street
           /\ m.big_blind_amount = h.big_blind_amount
           /\ m.stack_remaining = h.stack_remaining
           /\ m.committed_this_street = h.committed_this_street
           /\ m.committed_this_hand = h.committed_this_hand
           /\ m.pot_amount = h.pot_amount
           /\ m.current_highest_bet = h.current_highest_bet
           /\ m.minimum_raise_amount = h.minimum_raise_amount
           /\ m.is_active_in_hand = h.is_active_in_hand
           /\ m.is_all_in = h.is_all_in
<1>1. PICK closed \in BOOLEAN : closed = TRUE
  OBVIOUS
<1>2. PICK version \in Nat : version = h.state_version + 1
  BY HandColumns
<1>3. m = [h EXCEPT !.is_action_closed = closed, !.acting_player_id = NoSeat,
                    !.state_version = version]
  BY <1>1, <1>2 DEF ClosedHand
<1>4. m \in HandState
  BY <1>3, ZenonT(60) DEF HandState
<1>5. /\ m.acting_player_id = NoSeat
      /\ m.status = h.status
      /\ m.street = h.street
      /\ m.big_blind_amount = h.big_blind_amount
      /\ m.stack_remaining = h.stack_remaining
      /\ m.committed_this_street = h.committed_this_street
  BY <1>3 DEF HandState
<1>6. /\ m.committed_this_hand = h.committed_this_hand
      /\ m.pot_amount = h.pot_amount
      /\ m.current_highest_bet = h.current_highest_bet
      /\ m.minimum_raise_amount = h.minimum_raise_amount
      /\ m.is_active_in_hand = h.is_active_in_hand
      /\ m.is_all_in = h.is_all_in
  BY <1>3 DEF HandState
<1> QED
  BY <1>4, <1>5, <1>6

(* Whatever the end of a street decides, the hand stays well formed, no    *)
(* chips move, the highest bet still bounds the street's commitments if it *)
(* did, and the turn goes to a player who can act or to nobody.            *)
LEMMA AdvancedHandSound ==
    ASSUME NEW h \in HandState, h.street # "SHOWDOWN", NEW m, m = AdvancedHand(h)
    PROVE  /\ m \in HandState
           /\ m.status = h.status
           /\ m.acting_player_id \in CanAct(m) \cup {NoSeat}
           /\ m.big_blind_amount = h.big_blind_amount
           /\ m.stack_remaining = h.stack_remaining
           /\ m.committed_this_hand = h.committed_this_hand
           /\ m.pot_amount = h.pot_amount
           /\ (\A s \in Seats : h.committed_this_street[s] <= h.current_highest_bet)
                 => \A s \in Seats : m.committed_this_street[s] <= m.current_highest_bet
           /\ m.minimum_raise_amount \in {h.minimum_raise_amount, h.big_blind_amount}
           /\ m.is_active_in_hand = h.is_active_in_hand
           /\ m.is_all_in = h.is_all_in
<1>1. PICK zero : zero = [s \in Seats |-> 0]
  OBVIOUS
<1>2. zero \in [Seats -> Nat] /\ \A s \in Seats : zero[s] = 0
  BY <1>1
<1>3. PICK k : k = ClosedHand(h)
  OBVIOUS
<1>4. /\ k \in HandState
      /\ k.acting_player_id = NoSeat
      /\ k.status = h.status
      /\ k.street = h.street
      /\ k.big_blind_amount = h.big_blind_amount
      /\ k.stack_remaining = h.stack_remaining
      /\ k.committed_this_street = h.committed_this_street
      /\ k.committed_this_hand = h.committed_this_hand
      /\ k.pot_amount = h.pot_amount
      /\ k.current_highest_bet = h.current_highest_bet
      /\ k.minimum_raise_amount = h.minimum_raise_amount
      /\ k.is_active_in_hand = h.is_active_in_hand
      /\ k.is_all_in = h.is_all_in
  BY <1>3, ClosedHandSound
<1>5. CASE EvaluateStreetEnd(h) = "SETTLE_HAND"
  <2>1. m = k
    BY <1>3, <1>5 DEF AdvancedHand
  <2> QED
    BY <1>4, <2>1
<1>6. CASE EvaluateStreetEnd(h) = "SHOWDOWN"
  <2>0. PICK street \in Streets, none \in Nat : street = "SHOWDOWN" /\ none = 0
    BY DEF Streets
  <2>1. m = [k EXCEPT !.street = street, !.current_highest_bet = none,
                      !.committed_this_street = zero]
    BY <1>1, <1>3, <1>6, <2>0 DEF AdvancedHand
  <2>2. m \in HandState /\ m.acting_player_id = NoSeat
    <3>1. m \in HandState
      BY <1>2, <1>4, <2>1, ZenonT(60) DEF HandState
    <3>2. m.acting_player_id = k.acting_player_id
      BY <1>4, <2>1 DEF HandState
    <3> QED
      BY <1>4, <3>1, <3>2
  <2>3. m.committed_this_street = zero /\ m.current_highest_bet = 0
    BY <1>4, <2>0, <2>1 DEF HandState
  <2>4. \A s \in Seats : m.committed_this_street[s] <= m.current_highest_bet
    BY <1>2, <2>3
  <2> QED
    BY <1>4, <2>1, <2>2, <2>4 DEF HandState
<1>7. CASE EvaluateStreetEnd(h) = "NEXT_STREET"
  <2>1. ~AtMostOne(CanAct(h)) /\ h.street \notin {"RIVER", "SHOWDOWN"}
    BY <1>7, AtMostOne(NotFolded(h)) \/ ~AtMostOne(NotFolded(h)) DEF EvaluateStreetEnd
  <2>2. CanAct(h) \in SUBSET Seats /\ CanAct(h) \in SUBSET Nat /\ CanAct(h) # {}
    BY <2>1, HandColumns, SeatsAssumption DEF CanAct, AtMostOne
  <2>3. PICK first : first = FirstAfter(CanAct(h), h.dealer_seat)
    OBVIOUS
  <2>4. first \in CanAct(h)
    BY <2>2, <2>3, HandColumns, FirstAfterFound
  <2>5. NextStreet[h.street] \in Streets
    BY <2>1, HandColumns DEF NextStreet, Streets
  <2>6. PICK street : street = NextStreet[h.street]
    OBVIOUS
  <2>a. PICK closed \in BOOLEAN : closed = FALSE
    OBVIOUS
  <2>b. PICK version \in Nat : version = h.state_version + 1
    BY HandColumns
  <2>c. PICK none \in Nat, nobody \in Seats \cup {NoSeat}, bb \in Nat :
           none = 0 /\ nobody = NoSeat /\ bb = h.big_blind_amount
    BY HandColumns
  <2>7. m = [h EXCEPT !.street = street, !.current_highest_bet = none,
                      !.minimum_raise_amount = bb,
                      !.acting_player_id = first, !.is_action_closed = closed,
                      !.last_aggressor_seat = nobody, !.committed_this_street = zero,
                      !.state_version = version]
    BY <1>1, <1>7, <2>3, <2>6, <2>a, <2>b, <2>c DEF AdvancedHand
  <2>8. m \in HandState
    <3>1. first \in Seats \cup {NoSeat} /\ street \in Streets
      BY <2>2, <2>4, <2>5, <2>6
    <3>2. PICK n : n = [h EXCEPT !.street = street, !.current_highest_bet = none,
                                 !.minimum_raise_amount = bb,
                                 !.committed_this_street = zero]
      OBVIOUS
    <3>3. n \in HandState
      BY <1>2, <3>1, <3>2 DEF HandState
    <3>4. m = [n EXCEPT !.acting_player_id = first, !.is_action_closed = closed,
                        !.last_aggressor_seat = nobody, !.state_version = version]
      BY <2>7, <3>2 DEF HandState
    <3> QED
      BY <3>1, <3>3, <3>4, ZenonT(60) DEF HandState
  <2>9. CanAct(m) = CanAct(h) /\ m.acting_player_id = first
    BY <2>7 DEF CanAct, HandState
  <2>10. m.committed_this_street = zero /\ m.current_highest_bet = 0
    BY <2>7, <2>c DEF HandState
  <2>11. \A s \in Seats : m.committed_this_street[s] <= m.current_highest_bet
    BY <1>2, <2>10
  <2> QED
    BY <2>4, <2>7, <2>8, <2>9, <2>11, <2>c DEF HandState
<1> QED
  BY <1>5, <1>6, <1>7 DEF EvaluateStreetEnd

-----------------------------------------------------------------------------
(* Settlement                                                              *)

(* The won columns of a submission are a matrix of naturals: what the      *)
(* seats receive is what the pots pay out.                                 *)
LEMMA SubmissionSums ==
    ASSUME NEW payouts \in PayoutRequest
    PROVE  /\ \A s \in Seats : Winnings(payouts, s) \in Nat
           /\ SumFunction([s \in Seats |-> Winnings(payouts, s)]) = TotalPaid(payouts)
<1> DEFINE I == DOMAIN payouts
           A == [i \in I |-> payouts[i].won]
           B == [s \in Seats |-> [i \in I |-> payouts[i].won[s]]]
           cols == [s \in Seats |-> Winnings(payouts, s)]
           rows == [i \in I |-> SumFunction(payouts[i].won)]
<1>1. IsFiniteSet(I) /\ IsFiniteSet(Seats)
  <2>1. I = 1..Len(payouts) /\ Len(payouts) \in Nat
    BY DEF PayoutRequest
  <2> HIDE DEF I
  <2> QED
    BY <2>1, FS_Interval, SeatsAssumption
<1>2. \A i \in I : payouts[i].won \in [Seats -> Nat]
  <2>1. PICK R : R = [pot_index: Nat, amount: Nat \ {0}, won: [Seats -> Nat]]
    OBVIOUS
  <2>2. payouts \in Seq(R)
    BY <2>1 DEF PayoutRequest
  <2>3. \A i \in I : payouts[i] \in R
    BY <2>2
  <2> QED
    BY <2>1, <2>3
<1>3. A \in [I -> [Seats -> Nat]] /\ B \in [Seats -> [I -> Nat]]
  BY <1>2
<1>4. \A s \in Seats : \A i \in I : B[s][i] = A[i][s]
  OBVIOUS
<1>5. \A s \in Seats : Winnings(payouts, s) = SumFunction(B[s])
  BY DEF Winnings
<1>6. \A s \in Seats : SumFunction(B[s]) \in Nat
  <2> SUFFICES ASSUME NEW s \in Seats  PROVE SumFunction(B[s]) \in Nat
    OBVIOUS
  <2>1. PICK f \in [I -> Nat] : f = B[s]
    BY <1>3
  <2>2. SumFunction(f) \in Nat
    BY <1>1, SumFunctionNat
  <2> QED
    BY <2>1, <2>2
<1>7. \A i \in I : SumFunction(A[i]) \in Nat
  <2> SUFFICES ASSUME NEW i \in I  PROVE SumFunction(A[i]) \in Nat
    OBVIOUS
  <2>1. PICK f \in [Seats -> Nat] : f = A[i]
    BY <1>3
  <2>2. SumFunction(f) \in Nat
    BY <1>1, SumFunctionNat
  <2> QED
    BY <2>1, <2>2
<1>8. cols \in [Seats -> Nat] /\ \A s \in Seats : cols[s] = SumFunction(B[s])
  BY <1>5, <1>6
<1>9. rows \in [I -> Nat] /\ \A i \in I : rows[i] = SumFunction(A[i])
  BY <1>7
<1>10. TotalPaid(payouts) = SumFunction(rows)
  BY DEF TotalPaid
<1>11. SumFunction(cols) = SumFunction(rows)
  <2> HIDE DEF I, A, B, cols, rows
  <2>1. RowAndColumnSums(A, B, cols, rows, I, Seats)
    BY <1>3, <1>4, <1>8, <1>9 DEF RowAndColumnSums
  <2> QED
    BY <1>1, <1>3, <2>1, SumFunctionExchange
<1> QED
  BY <1>5, <1>6, <1>10, <1>11

(* What settling writes on the hand. *)
LEMMA ResolvedHandSound ==
    ASSUME NEW h \in HandState, NEW payouts, NEW w \in [Seats -> Nat],
           w = [s \in Seats |-> Winnings(payouts, s)],
           NEW m, m = ResolvedHand(h, payouts)
    PROVE  /\ m \in HandState
           /\ m.status = "COMPLETED"
           /\ m.stack_remaining = [s \in Seats |-> h.stack_remaining[s] + w[s]]
           /\ m.committed_this_street = h.committed_this_street
           /\ m.committed_this_hand = h.committed_this_hand
           /\ m.pot_amount = h.pot_amount
           /\ m.current_highest_bet = h.current_highest_bet
<1>1. PICK k : k = ClosedHand(h)
  OBVIOUS
<1>2. /\ k \in HandState
      /\ k.stack_remaining = h.stack_remaining
      /\ k.committed_this_street = h.committed_this_street
      /\ k.committed_this_hand = h.committed_this_hand
      /\ k.pot_amount = h.pot_amount
      /\ k.current_highest_bet = h.current_highest_bet
  BY <1>1, ClosedHandSound
<1>3. PICK stacks : stacks = [s \in Seats |-> k.stack_remaining[s] + w[s]]
  OBVIOUS
<1>4. stacks \in [Seats -> Nat]
  BY <1>2, <1>3, HandColumns
<1>5. stacks = [s \in Seats |-> k.stack_remaining[s] + Winnings(payouts, s)]
  BY <1>3
<1>6. PICK street \in Streets, status \in Statuses :
         street = "SHOWDOWN" /\ status = "COMPLETED"
  BY DEF Streets, Statuses
<1>7. m = [k EXCEPT !.status = status, !.street = street, !.stack_remaining = stacks]
  BY <1>1, <1>5, <1>6 DEF ResolvedHand
<1>8. m \in HandState
  BY <1>2, <1>4, <1>7, ZenonT(60) DEF HandState
<1>9. m.stack_remaining = stacks
  BY <1>2, <1>7 DEF HandState
<1>10. stacks = [s \in Seats |-> h.stack_remaining[s] + w[s]]
  BY <1>2, <1>3
<1> QED
  BY <1>2, <1>6, <1>7, <1>8, <1>9, <1>10, ZenonT(60) DEF HandState
-----------------------------------------------------------------------------
(* The turn                                                                *)

(* Going clockwise from seat ref to seat n, seat s is passed. *)
Passes(ref, s, n) == IF ref < n THEN ref < s /\ s < n ELSE s > ref \/ s < n

(* Going clockwise passes no seat that is looked for. *)
LEMMA FirstAfterPasses ==
    ASSUME NEW S \in SUBSET Nat, S # {}, NEW ref \in Nat
    PROVE  \A s \in S : ~Passes(ref, s, FirstAfter(S, ref))
<1> DEFINE later == {s \in S : s > ref}
<1>1. CASE later # {}
  <2>1. Min(later) \in later /\ \A y \in later : Min(later) <= y
    <3>1. later \in SUBSET Nat
      OBVIOUS
    <3> HIDE DEF later
    <3> QED  BY <1>1, <3>1, MinNat
  <2>2. FirstAfter(S, ref) = Min(later)
    BY <1>1 DEF FirstAfter
  <2>3. ASSUME NEW s \in S PROVE ~Passes(ref, s, Min(later))
    <3>1. PICK n \in Nat : n = Min(later) /\ n > ref /\ (s > ref => n <= s)
      BY <2>1
    <3>2. s \in Nat
      OBVIOUS
    <3> QED
      BY <3>1, <3>2 DEF Passes
  <2> QED
    BY <2>2, <2>3
<1>2. CASE later = {}
  <2>1. FirstAfter(S, ref) = Min(S)
    BY <1>2 DEF FirstAfter
  <2>2. Min(S) \in S /\ \A y \in S : Min(S) <= y
    BY MinNat
  <2>3. ASSUME NEW s \in S PROVE ~Passes(ref, s, Min(S))
    <3>1. PICK n \in Nat : n = Min(S) /\ ~(n > ref) /\ ~(s > ref) /\ n <= s
      BY <1>2, <2>2
    <3>2. s \in Nat
      OBVIOUS
    <3> QED
      BY <3>1, <3>2 DEF Passes
  <2> QED
    BY <2>1, <2>3
<1> QED
  BY <1>1, <1>2

(* Two arcs that make up the whole circle pass every seat but their ends. *)
LEMMA WholeCircle ==
    ASSUME NEW g \in Nat, NEW p \in Nat, NEW s \in Nat, s # g, s # p,
           ~Passes(g, s, p)
    PROVE  Passes(p, s, g)
BY DEF Passes

(* The arc from g to n is the one from g to p, p itself and the one from p *)
(* to n, provided that the way from p to n does not meet g.                *)
LEMMA ArcsJoin ==
    ASSUME NEW g \in Nat, NEW p \in Nat, NEW n \in Nat, NEW s \in Nat,
           n # g, n # p, s # p, s # g,
           ~Passes(p, g, n), ~Passes(g, s, p), ~Passes(p, s, n)
    PROVE  ~Passes(g, s, n)
BY DEF Passes

(* While betting is open somebody has the turn, and of those behind a last *)
(* aggressor who can still act nobody owes chips up to that seat.          *)
TurnKept(h) ==
    /\ h.acting_player_id \in Seats
    /\ h.last_aggressor_seat \in CanAct(h) =>
          /\ h.committed_this_street[h.last_aggressor_seat] = h.current_highest_bet
          /\ \A s \in NeedsAction(h) :
                ~Passes(h.last_aggressor_seat, s, h.acting_player_id)

(* Somebody can win the hand; closed betting is closed for a reason, open  *)
(* betting has two players and a turn.                                     *)
Contested(h) ==
    /\ NotFolded(h) # {}
    /\ h.is_action_closed = TRUE => AtMostOne(CanAct(h)) \/ NeedsAction(h) = {}
    /\ h.is_action_closed = FALSE => ~AtMostOne(NotFolded(h)) /\ TurnKept(h)

(* Only columns matter: a hand that agrees on them is contested alike. *)
LEMMA CanActSubset ==
    ASSUME NEW h \in HandState
    PROVE  /\ CanAct(h) \subseteq NotFolded(h) /\ NotFolded(h) \subseteq Seats
           /\ NeedsAction(h) \subseteq CanAct(h)
           /\ Seats \subseteq Nat /\ NoSeat \notin Seats
BY HandColumns, SeatsAssumption DEF CanAct, NotFolded, NeedsAction

(* What an action does to those who follow: nobody else changes; a player  *)
(* who did not raise owes nothing any more, and one who did and can still  *)
(* act has set the bet.                                                    *)
LEMMA ActionAnswers ==
    ASSUME NEW h \in HandState, NEW p \in Seats, NEW action \in Actions,
           NEW amount \in Nat, ValidateBet(h, p, action, amount),
           ReadyToAct(h, p),
           NEW k, k = Committed(h, p, action, amount)
    PROVE  /\ NotFolded(k) \cup {p} = NotFolded(h)
           /\ CanAct(k) \cup {p} = CanAct(h)
           /\ \/ /\ k.last_aggressor_seat = h.last_aggressor_seat
                 /\ k.current_highest_bet = h.current_highest_bet
                 /\ p \notin NeedsAction(k)
                 /\ p \in CanAct(k) => k.committed_this_street[p] = k.current_highest_bet
              \/ /\ k.last_aggressor_seat = p
                 /\ p \in CanAct(k) => k.committed_this_street[p] = k.current_highest_bet
           /\ \A s \in Seats \ {p} : k.committed_this_street[s] = h.committed_this_street[s]
<1>1. PICK chips, effective :
         /\ chips = Chips(h, p, action, amount)
         /\ effective = EffectiveAction(h, p, action, amount)
  OBVIOUS
<1>2. PICK post : post = h.committed_this_street[p] + chips
  OBVIOUS
<1>3. chips \in Nat /\ chips <= h.stack_remaining[p]
  BY <1>1, ChipsBound
<1>4. /\ h.committed_this_street \in [Seats -> Nat] /\ h.stack_remaining[p] \in Nat
      /\ h.current_highest_bet \in Nat /\ h.minimum_raise_amount \in Nat
      /\ h.committed_this_street[p] \in Nat
      /\ h.committed_this_street[p] <= h.current_highest_bet
  BY HandColumns DEF ReadyToAct
<1>0. k = Committed(h, p, action, amount)
  OBVIOUS
<1>5. /\ k.committed_this_street = [h.committed_this_street EXCEPT ![p] = post]
      /\ k.has_folded = h.has_folded \cup (IF effective = "FOLD" THEN {p} ELSE {})
      /\ k.is_active_in_hand =
            h.is_active_in_hand \ (IF effective = "FOLD" THEN {p} ELSE {})
      /\ k.is_all_in = h.is_all_in \cup (IF effective = "ALL_IN" THEN {p} ELSE {})
      /\ k.current_highest_bet =
            IF effective \in {"BET", "RAISE", "ALL_IN"} /\ post - h.current_highest_bet > 0
            THEN post ELSE h.current_highest_bet
      /\ k.last_aggressor_seat =
            IF effective \in {"BET", "RAISE", "ALL_IN"} THEN p ELSE h.last_aggressor_seat
  BY <1>0, <1>1, <1>2 DEF Committed, HandState
<1>6. p \in CanAct(h)
  BY DEF ValidateBet, MayAct
<1>7. NotFolded(k) \cup {p} = NotFolded(h) /\ CanAct(k) \cup {p} = CanAct(h)
  BY <1>5, <1>6 DEF NotFolded, CanAct
<1>8. /\ k.committed_this_street[p] = post
      /\ \A s \in Seats \ {p} : k.committed_this_street[s] = h.committed_this_street[s]
  BY <1>4, <1>5
<1>9. CASE effective = "ALL_IN"
  <2>1. p \notin CanAct(k) /\ k.last_aggressor_seat = p
    BY <1>5, <1>9 DEF CanAct
  <2> QED
    BY <1>7, <1>8, <2>1
<1>10. CASE effective \in {"BET", "RAISE"}
  <2>1. action = effective /\ chips # h.stack_remaining[p]
    BY <1>1, <1>10 DEF EffectiveAction
  <2>2. post >= h.current_highest_bet
    <3>1. CASE action = "BET"
      BY <1>2, <1>3, <1>4, <3>1 DEF ValidateBet
    <3>2. CASE action = "RAISE"
      <4>1. chips = amount - h.committed_this_street[p]
        BY <1>1, <3>2 DEF Chips
      <4>2. amount - h.current_highest_bet >= h.minimum_raise_amount
        BY <1>1, <2>1, <3>2 DEF ValidateBet, SizeAllowed
      <4> QED
        BY <1>2, <1>4, <4>1, <4>2
    <3> QED
      BY <1>10, <2>1, <3>1, <3>2
  <2>3. post \in Nat
    BY <1>2, <1>3, <1>4
  <2>4. k.last_aggressor_seat = p /\ k.current_highest_bet = post
    BY <1>4, <1>5, <1>10, <2>2, <2>3
  <2> QED
    BY <1>7, <1>8, <2>4
<1>11. CASE effective \in {"FOLD", "CHECK", "CALL"}
  <2>1. action = effective
    BY <1>1, <1>11 DEF EffectiveAction
  <2>2. k.last_aggressor_seat = h.last_aggressor_seat
        /\ k.current_highest_bet = h.current_highest_bet
    BY <1>5, <1>11
  <2>3. CASE action = "FOLD"
    BY <1>5, <1>7, <1>8, <2>1, <2>2, <2>3 DEF CanAct, NeedsAction
  <2>4. CASE action # "FOLD"
    <3>1. post = h.current_highest_bet
      <4>1. CASE action = "CHECK"
        BY <1>1, <1>2, <1>4, <4>1 DEF ValidateBet, CallAmount, Chips
      <4>2. CASE action = "CALL"
        <5>1. chips # h.stack_remaining[p]
          BY <1>1, <2>1, <4>2 DEF EffectiveAction
        <5>2. chips = Smaller(CallAmount(h, p), h.stack_remaining[p])
          BY <1>1, <4>2 DEF Chips
        <5>3. chips = CallAmount(h, p)
          BY <5>1, <5>2 DEF Smaller
        <5> QED
          BY <1>2, <1>4, <5>3 DEF CallAmount
      <4> QED
        BY <1>11, <2>1, <2>4, <4>1, <4>2
    <3>2. p \notin NeedsAction(k)
      BY <1>4, <1>8, <2>2, <3>1 DEF NeedsAction
    <3> QED
      BY <1>7, <1>8, <2>2, <3>1, <3>2
  <2> QED
    BY <2>3, <2>4
<1>12. effective \in Actions
  BY <1>1 DEF EffectiveAction, Actions
<1> QED
  BY <1>9, <1>10, <1>11, <1>12 DEF Actions

(* next_to_act after a player has acted: betting closes only when nobody   *)
(* who can act owes chips or when at most one can act, and otherwise the   *)
(* turn has not passed anybody who owes chips since the last aggressor.    *)
LEMMA TurnPassed ==
    ASSUME NEW h \in HandState, NEW p \in Seats, NEW action \in Actions,
           NEW amount \in Nat, ValidateBet(h, p, action, amount),
           ReadyToAct(h, p),
           TurnKept(h), NEW k \in HandState, k = Committed(h, p, action, amount),
           NEW next, next = NextToAct(k, p)
    PROVE  /\ next = NoSeat => AtMostOne(CanAct(k)) \/ NeedsAction(k) = {}
           /\ next # NoSeat =>
                 /\ ~AtMostOne(CanAct(k)) /\ next \in Seats
                 /\ k.last_aggressor_seat \in CanAct(k) =>
                       /\ k.committed_this_street[k.last_aggressor_seat]
                             = k.current_highest_bet
                       /\ \A s \in NeedsAction(k) : ~Passes(k.last_aggressor_seat, s, next)
<1>1. /\ CanAct(k) \cup {p} = CanAct(h)
      /\ \/ /\ k.last_aggressor_seat = h.last_aggressor_seat
            /\ k.current_highest_bet = h.current_highest_bet
            /\ p \notin NeedsAction(k)
            /\ p \in CanAct(k) => k.committed_this_street[p] = k.current_highest_bet
         \/ /\ k.last_aggressor_seat = p
            /\ p \in CanAct(k) => k.committed_this_street[p] = k.current_highest_bet
      /\ \A s \in Seats \ {p} : k.committed_this_street[s] = h.committed_this_street[s]
  BY ActionAnswers
<1>2. PICK g : g = k.last_aggressor_seat
  OBVIOUS
<1>3. h.acting_player_id = p
  BY SeatsAssumption DEF ValidateBet, MayAct, TurnKept
<1>4. /\ CanAct(k) \subseteq Seats /\ NeedsAction(k) \subseteq CanAct(k)
      /\ Seats \subseteq Nat /\ NoSeat \notin Seats /\ p \in Nat
  BY CanActSubset
<1>5. g \in CanAct(k) => k.committed_this_street[g] = k.current_highest_bet
  <2>1. CASE g = p
    BY <1>1, <1>2, <2>1
  <2>2. CASE g # p
    BY <1>1, <1>2, <1>4, <2>2 DEF TurnKept
  <2> QED
    BY <2>1, <2>2
<1>6. g \in CanAct(k) => g \notin NeedsAction(k)
  <2>1. k.current_highest_bet \in Nat
    BY HandColumns
  <2> QED
    BY <1>5, <2>1 DEF NeedsAction
<1>7. ASSUME g \in CanAct(k), g # p, NEW s \in NeedsAction(k)
      PROVE  ~Passes(g, s, p) /\ s # p /\ s # g
  <2>1. k.current_highest_bet = h.current_highest_bet /\ h.last_aggressor_seat = g
        /\ s # p
    BY <1>1, <1>2, <1>7
  <2>2. s \in NeedsAction(h) /\ g \in CanAct(h)
    BY <1>1, <1>4, <1>7, <2>1 DEF NeedsAction
  <2> QED
    BY <1>3, <1>6, <1>7, <2>1, <2>2 DEF TurnKept
<1>8. PICK stops : stops = NeedsAction(k) \cup (CanAct(k) \cap {g})
  OBVIOUS
<1>9. stops \in SUBSET Nat /\ stops \subseteq CanAct(k) /\ NeedsAction(k) \subseteq stops
      /\ (g \in CanAct(k) => g \in stops)
  BY <1>4, <1>8
<1>10. PICK first : first = FirstAfter(stops, p)
  OBVIOUS
<1>11. next = IF AtMostOne(CanAct(k)) \/ stops = {} \/ first = g THEN NoSeat ELSE first
  BY <1>2, <1>8, <1>10 DEF NextToAct
<1>12. CASE AtMostOne(CanAct(k)) \/ stops = {}
  BY <1>9, <1>11, <1>12
<1>13. CASE ~AtMostOne(CanAct(k)) /\ stops # {}
  <2>1. first \in stops /\ \A s \in stops : ~Passes(p, s, first)
    BY <1>4, <1>9, <1>10, <1>13, FirstAfterFound, FirstAfterPasses
  <2>2. CASE first = g
    <3>1. ASSUME NEW s \in NeedsAction(k) PROVE FALSE
      <4>1. g \in CanAct(k) /\ s \in Nat /\ g \in Nat /\ s # g /\ ~Passes(p, s, g)
        BY <1>4, <1>6, <1>9, <2>1, <2>2
      <4>2. CASE g = p
        BY <1>4, <4>1, <4>2 DEF Passes
      <4>3. CASE g # p
        BY <1>4, <1>7, <4>1, <4>3, WholeCircle
      <4> QED
        BY <4>2, <4>3
    <3> QED
      BY <1>11, <1>13, <2>2, <3>1
  <2>3. CASE first # g
    <3>1. next = first /\ first \in Seats /\ next # NoSeat
      BY <1>4, <1>9, <1>11, <1>13, <2>1, <2>3
    <3>2. ASSUME g \in CanAct(k), NEW s \in NeedsAction(k) PROVE ~Passes(g, s, first)
      <4>1. ~Passes(p, s, first) /\ s \in Nat /\ g \in Nat /\ first \in Nat
        BY <1>4, <1>9, <2>1, <3>2
      <4>2. CASE g = p
        BY <4>1, <4>2
      <4>3. CASE g # p
        <5>1. ~Passes(g, s, p) /\ s # p /\ s # g
          BY <1>7, <3>2, <4>3
        <5>2. first \in NeedsAction(k)
          BY <1>8, <2>1, <2>3
        <5>3. first # p
          BY <1>7, <3>2, <4>3, <5>2
        <5>4. ~Passes(p, g, first)
          BY <1>9, <2>1, <3>2
        <5> QED
          BY <1>4, <2>3, <4>1, <5>1, <5>3, <5>4, ArcsJoin
      <4> QED
        BY <4>2, <4>3
    <3> QED
      BY <1>2, <1>5, <1>13, <3>1, <3>2
  <2> QED
    BY <2>2, <2>3
<1> QED
  BY <1>12, <1>13
(* Two hands that agree on the columns the turn engine reads have the same *)
(* players in them, able to act and in debt.                               *)
LEMMA SamePlayers ==
    ASSUME NEW h, NEW m, m.is_active_in_hand = h.is_active_in_hand,
           m.has_folded = h.has_folded, m.is_all_in = h.is_all_in
    PROVE  /\ NotFolded(m) = NotFolded(h) /\ CanAct(m) = CanAct(h)
           /\ m.committed_this_street = h.committed_this_street
              /\ m.current_highest_bet = h.current_highest_bet
                 => NeedsAction(m) = NeedsAction(h)
BY DEF NotFolded, CanAct, NeedsAction

(* An action on a contested hand leaves it contested: the last fold closes *)
(* the betting.                                                            *)
LEMMA ActionKeepsContest ==
    ASSUME NEW h \in HandState, NEW p \in Seats, NEW action \in Actions,
           NEW amount \in Nat, ValidateBet(h, p, action, amount), ReadyToAct(h, p),
           Contested(h), NEW m, m = ApplyAction(h, p, action, amount)
    PROVE  Contested(m)
<1>1. h.is_action_closed = FALSE
  <2>1. h.is_action_closed \in BOOLEAN
    BY DEF HandState
  <2> QED
    BY <2>1 DEF ValidateBet, MayAct
<1>2. ~AtMostOne(NotFolded(h)) /\ TurnKept(h)
  BY <1>1 DEF Contested
<1>3. PICK k \in HandState : k = Committed(h, p, action, amount)
  BY CommittedTyped
<1>4. NotFolded(k) \cup {p} = NotFolded(h)
  BY <1>3, ActionAnswers
<1>5. PICK next : next = NextToAct(k, p)
  OBVIOUS
<1>6. PICK closed \in BOOLEAN : closed = (next = NoSeat)
  OBVIOUS
<1>7. m = [k EXCEPT !.acting_player_id = next, !.is_action_closed = closed,
                    !.state_version = @ + 1]
  BY <1>3, <1>5, <1>6 DEF ApplyAction, PassTurn
<1>8. /\ m.acting_player_id = next /\ m.is_action_closed = closed
      /\ m.is_active_in_hand = k.is_active_in_hand /\ m.has_folded = k.has_folded
      /\ m.is_all_in = k.is_all_in /\ m.last_aggressor_seat = k.last_aggressor_seat
      /\ m.committed_this_street = k.committed_this_street
      /\ m.current_highest_bet = k.current_highest_bet
  BY <1>7 DEF HandState
<1>9. /\ NotFolded(m) = NotFolded(k) /\ CanAct(m) = CanAct(k)
      /\ NeedsAction(m) = NeedsAction(k)
  BY <1>8, SamePlayers
<1>10. /\ next = NoSeat => AtMostOne(CanAct(k)) \/ NeedsAction(k) = {}
       /\ next # NoSeat =>
             /\ ~AtMostOne(CanAct(k)) /\ next \in Seats
             /\ k.last_aggressor_seat \in CanAct(k) =>
                   /\ k.committed_this_street[k.last_aggressor_seat]
                         = k.current_highest_bet
                   /\ \A s \in NeedsAction(k) : ~Passes(k.last_aggressor_seat, s, next)
  BY <1>2, <1>3, <1>5, TurnPassed
<1>11. NotFolded(m) # {}
  BY <1>2, <1>4, <1>9 DEF AtMostOne
<1>12. ASSUME m.is_action_closed = TRUE
       PROVE  AtMostOne(CanAct(m)) \/ NeedsAction(m) = {}
  <2>1. next = NoSeat
    BY <1>6, <1>8, <1>12
  <2> QED
    BY <1>9, <1>10, <2>1
<1>13. ASSUME m.is_action_closed = FALSE
       PROVE  ~AtMostOne(NotFolded(m)) /\ TurnKept(m)
  <2>1. next # NoSeat
    BY <1>6, <1>8, <1>13
  <2>2. ~AtMostOne(CanAct(k)) /\ CanAct(k) \subseteq NotFolded(k)
    BY <1>10, <2>1, CanActSubset
  <2>3. ~AtMostOne(NotFolded(m))
    BY <1>9, <2>2 DEF AtMostOne
  <2>4. TurnKept(m)
    BY <1>8, <1>9, <1>10, <2>1 DEF TurnKept
  <2> QED
    BY <2>3, <2>4
<1> QED
  BY <1>11, <1>12, <1>13 DEF Contested

(* advance_street, also when it is called with the betting open: a street  *)
(* is opened only for two players who can act, and nobody owes on it yet.  *)
LEMMA StreetKeepsContest ==
    ASSUME NEW h \in HandState, h.street # "SHOWDOWN", Contested(h),
           NEW m, m = AdvancedHand(h)
    PROVE  Contested(m)
<1>1. PICK zero : zero = [s \in Seats |-> 0]
  OBVIOUS
<1>2. PICK closed \in BOOLEAN : closed = TRUE
  OBVIOUS
<1>3. PICK open \in BOOLEAN : open = FALSE
  OBVIOUS
<1>4. NotFolded(h) # {} /\ CanAct(h) \subseteq NotFolded(h) /\ CanAct(h) \subseteq Seats
  BY CanActSubset DEF Contested
<1>5. CASE AtMostOne(NotFolded(h))
  <2>1. EvaluateStreetEnd(h) = "SETTLE_HAND"
    BY <1>5 DEF EvaluateStreetEnd
  <2>2. m = [h EXCEPT !.is_action_closed = closed, !.acting_player_id = NoSeat,
                      !.state_version = @ + 1]
    BY <1>2, <2>1 DEF AdvancedHand, ClosedHand
  <2>3. /\ m.is_active_in_hand = h.is_active_in_hand /\ m.has_folded = h.has_folded
        /\ m.is_all_in = h.is_all_in /\ m.is_action_closed = closed
    BY <2>2 DEF HandState
  <2>4. NotFolded(m) = NotFolded(h) /\ CanAct(m) = CanAct(h)
    BY <2>3, SamePlayers
  <2>5. AtMostOne(CanAct(m))
    BY <1>4, <1>5, <2>4 DEF AtMostOne
  <2>6. m.is_action_closed # FALSE
    BY <1>2, <2>3
  <2> QED
    BY <1>4, <2>4, <2>5, <2>6 DEF Contested
<1>6. CASE ~AtMostOne(NotFolded(h)) /\ (h.street = "RIVER" \/ AtMostOne(CanAct(h)))
  <2>1. EvaluateStreetEnd(h) = "SHOWDOWN"
    BY <1>6 DEF EvaluateStreetEnd
  <2>2. PICK k : k = ClosedHand(h)
    OBVIOUS
  <2>3. k = [h EXCEPT !.is_action_closed = closed, !.acting_player_id = NoSeat,
                      !.state_version = @ + 1]
    BY <1>2, <2>2 DEF ClosedHand
  <2>4. m = [k EXCEPT !.street = "SHOWDOWN", !.current_highest_bet = 0,
                      !.committed_this_street = zero]
    BY <1>1, <2>1, <2>2 DEF AdvancedHand
  <2>5. /\ m.is_active_in_hand = h.is_active_in_hand /\ m.has_folded = h.has_folded
        /\ m.is_all_in = h.is_all_in /\ m.is_action_closed = closed
        /\ m.current_highest_bet = 0 /\ m.committed_this_street = zero
    BY <2>3, <2>4 DEF HandState
  <2>6. NotFolded(m) = NotFolded(h) /\ CanAct(m) = CanAct(h)
    BY <2>5, SamePlayers
  <2>7. NeedsAction(m) = {}
    BY <1>1, <1>4, <2>5, <2>6 DEF NeedsAction
  <2>8. m.is_action_closed # FALSE
    BY <1>2, <2>5
  <2> QED
    BY <1>4, <2>6, <2>7, <2>8 DEF Contested
<1>7. CASE ~AtMostOne(NotFolded(h)) /\ h.street # "RIVER" /\ ~AtMostOne(CanAct(h))
  <2>1. EvaluateStreetEnd(h) = "NEXT_STREET"
    BY <1>7 DEF EvaluateStreetEnd
  <2>2. PICK first : first = FirstAfter(CanAct(h), h.dealer_seat)
    OBVIOUS
  <2>3. m = [h EXCEPT !.street = NextStreet[@], !.current_highest_bet = 0,
                      !.minimum_raise_amount = h.big_blind_amount,
                      !.acting_player_id = first, !.is_action_closed = open,
                      !.last_aggressor_seat = NoSeat, !.committed_this_street = zero,
                      !.state_version = @ + 1]
    BY <1>1, <1>3, <2>1, <2>2 DEF AdvancedHand
  <2>4. /\ m.is_active_in_hand = h.is_active_in_hand /\ m.has_folded = h.has_folded
        /\ m.is_all_in = h.is_all_in /\ m.is_action_closed = open
        /\ m.acting_player_id = first /\ m.last_aggressor_seat = NoSeat
    BY <2>3 DEF HandState
  <2>5. NotFolded(m) = NotFolded(h) /\ CanAct(m) = CanAct(h)
    BY <2>4, SamePlayers
  <2>6. first \in Seats
    <3>1. CanAct(h) # {} /\ CanAct(h) \in SUBSET Nat /\ h.dealer_seat \in Nat
      BY <1>4, <1>7, HandColumns, SeatsAssumption DEF AtMostOne
    <3> QED
      BY <1>4, <2>2, <3>1, FirstAfterFound
  <2>7. TurnKept(m)
    BY <1>4, <2>4, <2>5, <2>6, SeatsAssumption DEF TurnKept
  <2>8. m.is_action_closed # TRUE
    BY <1>3, <2>4
  <2> QED
    BY <1>4, <1>7, <2>5, <2>7, <2>8 DEF Contested
<1> QED
  BY <1>5, <1>6, <1>7

(* A new hand is contested by everybody dealt in. *)
LEMMA DealtHandContested ==
    ASSUME NEW c \in [Seats -> Nat], NEW pos \in Positions, NEW level \in Level,
           ~AtMostOne({s \in Seats : c[s] > 0}),
           NEW m, m = DealtHand(c, pos, level)
    PROVE  Contested(m)
<1>1. PICK dealt \in SUBSET Seats : dealt = {s \in Seats : c[s] > 0}
  OBVIOUS
<1>2. dealt # {} /\ dealt \in SUBSET Nat /\ pos.bb \in Nat
  BY <1>1, SeatsAssumption DEF AtMostOne, Positions
<1>3. /\ m.is_active_in_hand = dealt /\ m.has_folded = {}
      /\ m.acting_player_id = (IF pos.bb \in dealt THEN FirstAfter(dealt, pos.bb)
                                                   ELSE Min(dealt))
      /\ m.last_aggressor_seat = NoSeat
  BY <1>1 DEF DealtHand
<1>4. m.is_action_closed # TRUE
  BY DEF DealtHand
<1>5. NotFolded(m) = dealt /\ CanAct(m) \subseteq dealt
  BY <1>3 DEF NotFolded, CanAct
<1>6. m.acting_player_id \in dealt
  BY <1>2, <1>3, FirstAfterFound, MinNat
<1>7. TurnKept(m)
  BY <1>3, <1>5, <1>6, SeatsAssumption DEF TurnKept
<1> QED
  BY <1>1, <1>2, <1>4, <1>5, <1>7 DEF Contested
-----------------------------------------------------------------------------
(* Sequences                                                               *)

(* InOrder lists every member of a finite set of numbers once, in          *)
(* ascending order.                                                        *)
LEMMA InOrderLists ==
    ASSUME NEW S \in SUBSET Nat, IsFiniteSet(S), NEW n, n = Cardinality(S),
           NEW q, q = InOrder(S)
    PROVE  /\ n \in Nat /\ q \in [1..n -> S]
           /\ \A i, j \in 1..n : i < j => q[i] < q[j]
           /\ \A x \in S : \E i \in 1..n : q[i] = x
<1> DEFINE Below(x) == {y \in S : y < x}
           rank == [x \in S |-> Cardinality(Below(x))]
<1>1. n \in Nat
  BY FS_CardinalityType
<1>2. \A x \in S : IsFiniteSet(Below(x)) /\ rank[x] \in Nat /\ rank[x] < n
  <2> SUFFICES ASSUME NEW x \in S
               PROVE  IsFiniteSet(Below(x)) /\ Cardinality(Below(x)) \in Nat
                      /\ Cardinality(Below(x)) < n
    OBVIOUS
  <2>1. Below(x) \in SUBSET S /\ Below(x) # S
    OBVIOUS
  <2> HIDE DEF Below
  <2>2. IsFiniteSet(Below(x)) /\ Cardinality(Below(x)) <= n /\ Cardinality(Below(x)) # n
    BY <2>1, FS_Subset
  <2> QED
    BY <1>1, <2>2, FS_CardinalityType
<1>3. \A x, y \in S : y < x => rank[y] < rank[x]
  <2> SUFFICES ASSUME NEW x \in S, NEW y \in S, y < x
               PROVE  Cardinality(Below(y)) < Cardinality(Below(x))
    OBVIOUS
  <2>1. Below(y) \in SUBSET Below(x) /\ Below(y) # Below(x)
    <3>1. Below(y) \in SUBSET Below(x)
      <4> SUFFICES ASSUME NEW z \in S, z < y  PROVE z < x
        OBVIOUS
      <4> QED
        BY x \in Nat, y \in Nat, z \in Nat
    <3>2. y \in Below(x) /\ y \notin Below(y)
      OBVIOUS
    <3> QED
      BY <3>1, <3>2
  <2>2. IsFiniteSet(Below(x)) /\ IsFiniteSet(Below(y))
    BY <1>2
  <2> HIDE DEF Below
  <2>3. Cardinality(Below(y)) <= Cardinality(Below(x))
        /\ Cardinality(Below(y)) # Cardinality(Below(x))
    BY <2>1, <2>2, FS_Subset
  <2> QED
    BY <2>2, <2>3, FS_CardinalityType
<1>r. \A x \in S : rank[x] \in Nat /\ rank[x] < n
  BY <1>2
<1> HIDE DEF rank, Below
<1>4. \A i \in 1..n : \E x \in S : rank[x] = i - 1
  <2>1. PICK T : T = 0..(n - 1)
    OBVIOUS
  <2>2. rank \in [S -> T]
    BY <1>1, <1>r, <2>1 DEF rank
  <2>3. \A x, y \in S : rank[x] = rank[y] => x = y
    <3> SUFFICES ASSUME NEW x \in S, NEW y \in S, rank[x] = rank[y], x # y  PROVE FALSE
      OBVIOUS
    <3>1. x < y \/ y < x
      BY x \in Nat, y \in Nat
    <3>2. rank[x] < rank[y] \/ rank[y] < rank[x]
      BY <1>3, <3>1
    <3> QED
      BY <1>r, <3>2
  <2>4. rank \in Injection(S, T)
    BY <2>2, <2>3, Fun_IsInj
  <2>5. IsFiniteSet(T) /\ Cardinality(T) = n
    BY <1>1, <2>1, FS_Interval
  <2>6. rank \in Surjection(S, T)
    BY <2>4, <2>5, FS_Injection
  <2>7. \A t \in T : \E x \in S : rank[x] = t
    BY <2>6, Fun_SurjectionProperties
  <2> QED
    BY <1>1, <2>1, <2>7
<1>5. \A i \in 1..n : q[i] \in S /\ rank[q[i]] = i - 1
  <2> SUFFICES ASSUME NEW i \in 1..n  PROVE q[i] \in S /\ rank[q[i]] = i - 1
    OBVIOUS
  <2>1. \E x \in S : Cardinality({y \in S : y < x}) = i - 1
    BY <1>4 DEF rank, Below
  <2>2. q[i] = CHOOSE x \in S : Cardinality({y \in S : y < x}) = i - 1
    BY DEF InOrder
  <2>3. q[i] \in S /\ Cardinality({y \in S : y < q[i]}) = i - 1
    BY <2>1, <2>2
  <2> QED
    BY <2>3 DEF rank, Below
<1>6. q \in [1..n -> S]
  BY <1>5 DEF InOrder
<1>7. \A i, j \in 1..n : i < j => q[i] < q[j]
  <2> SUFFICES ASSUME NEW i \in 1..n, NEW j \in 1..n, i < j  PROVE q[i] < q[j]
    OBVIOUS
  <2>1. PICK a, b : a = q[i] /\ b = q[j]
    OBVIOUS
  <2>2. a \in Nat /\ b \in Nat /\ a \in S /\ b \in S
        /\ rank[a] = i - 1 /\ rank[b] = j - 1
    BY <1>5, <2>1
  <2>3. ~(b < a) /\ a # b
    BY <1>1, <1>3, <2>2
  <2> QED
    BY <2>1, <2>2, <2>3
<1>8. ASSUME NEW x \in S  PROVE \E i \in 1..n : q[i] = x
  <2>0. rank[x] \in Nat /\ rank[x] < n
    BY <1>r
  <2>1. PICK i \in 1..n : i = rank[x] + 1
    BY <1>1, <2>0
  <2>2. PICK a : a = q[i]
    OBVIOUS
  <2>3. a \in Nat /\ a \in S /\ x \in Nat /\ rank[a] = rank[x] /\ rank[x] \in Nat
    <3>1. a \in S /\ rank[a] = i - 1
      BY <1>5, <2>2
    <3>2. i - 1 = rank[x]
      BY <2>0, <2>1
    <3> QED
      BY <2>0, <3>1, <3>2
  <2>4. ~(a < x) /\ ~(x < a)
    BY <1>3, <2>3
  <2> QED
    BY <2>2, <2>3, <2>4
<1> QED
  BY <1>1, <1>6, <1>7, <1>8
(* The sum of a sequence of naturals, one element at a time. *)
LEMMA SumSnoc ==
    ASSUME NEW n \in Nat, NEW f \in [1..(n + 1) -> Nat], NEW r \in [1..n -> Nat],
           \A i \in 1..n : r[i] = f[i]
    PROVE  SumFunction(f) = SumFunction(r) + f[n + 1]
<1>1. PICK S, R : S = 1..(n + 1) /\ R = 1..n
  OBVIOUS
<1>2. PICK x \in S : x = n + 1
  BY <1>1
<1>3. Without(S, x) = R
  BY <1>1, <1>2 DEF Without
<1>4. IsFiniteSet(S) /\ IsFiniteSet(R)
  BY <1>1, FS_Interval
<1>5. f \in [S -> Nat] /\ r \in [Without(S, x) -> Nat]
      /\ \A i \in Without(S, x) : r[i] = f[i]
  BY <1>1, <1>3
<1>6. SumFunction(f) = f[x] + SumFunction(r)
  BY <1>4, <1>5, SumRemove, SMTT(30)
<1>7. SumFunction(r) \in Nat /\ f[x] \in Nat
  BY <1>1, <1>4, SumFunctionNat
<1> QED
  BY <1>2, <1>6, <1>7

(* The sum of one sequence of naturals after another. *)
LEMMA SumConcat ==
    ASSUME NEW m \in Nat, NEW n \in Nat, NEW a \in [1..m -> Nat],
           NEW b \in [1..n -> Nat], NEW c \in [1..(m + n) -> Nat],
           \A i \in 1..m : c[i] = a[i], \A j \in 1..n : c[m + j] = b[j]
    PROVE  SumFunction(c) = SumFunction(a) + SumFunction(b)
<1> DEFINE bb == [k \in 0..n |-> [j \in 1..k |-> b[j]]]
           cc == [k \in 0..n |-> [i \in 1..(m + k) |-> c[i]]]
           Bad == {k \in 0..n : SumFunction(cc[k]) # SumFunction(a) + SumFunction(bb[k])}
<1>1. /\ \A k \in 0..n : bb[k] \in [1..k -> Nat] /\ cc[k] \in [1..(m + k) -> Nat]
      /\ \A k \in 0..n : \A j \in 1..k : bb[k][j] = b[j]
      /\ \A k \in 0..n : \A i \in 1..(m + k) : cc[k][i] = c[i]
  OBVIOUS
<1>2. bb[n] = b /\ cc[n] = c
  OBVIOUS
<1>3. cc[0] = a /\ SumFunction(bb[0]) = 0
  <2>1. cc[0] = a
    <3>1. cc[0] = [i \in 1..m |-> c[i]]
      OBVIOUS
    <3> QED
      BY <3>1
  <2>2. PICK z, E : z = bb[0] /\ E = 1..0
    OBVIOUS
  <2>3. z \in [E -> Nat] /\ E = {}
    BY <1>1, <2>2
  <2>4. IsFiniteSet(E)
    BY <2>3, FS_EmptySet
  <2>5. SumFunction(z) = 0
    BY <2>3, <2>4, SumFunctionZero
  <2> QED
    BY <2>1, <2>2, <2>5
<1>4. ASSUME NEW k \in 0..n  PROVE SumFunction(bb[k]) \in Nat /\ SumFunction(a) \in Nat
  <2>1. IsFiniteSet(1..k) /\ IsFiniteSet(1..m)
    BY FS_Interval
  <2>2. PICK d \in [1..k -> Nat] : d = bb[k]
    BY <1>1
  <2> QED
    BY <2>1, <2>2, SumFunctionNat
<1> SUFFICES ASSUME Bad # {}  PROVE FALSE
  <2>1. n \in 0..n
    OBVIOUS
  <2> QED
    BY <1>2, <2>1
<1>5. PICK k \in Bad : \A j \in Bad : k <= j
  <2>1. Bad \in SUBSET Nat
    OBVIOUS
  <2> HIDE DEF Bad
  <2> QED
    BY <2>1, MinNat
<1>6. k \in 0..n /\ SumFunction(cc[k]) # SumFunction(a) + SumFunction(bb[k])
  OBVIOUS
<1> HIDE DEF bb, cc
<1>7. k # 0
  BY <1>3, <1>4, <1>6
<1>8. PICK p \in 0..n : k = p + 1
  BY <1>6, <1>7
<1>9. SumFunction(cc[p]) = SumFunction(a) + SumFunction(bb[p])
  BY <1>5, <1>8
<1> HIDE DEF Bad
<1>10. SumFunction(bb[k]) = SumFunction(bb[p]) + b[k]
  <2>1. PICK f, r : f = bb[k] /\ r = bb[p]
    OBVIOUS
  <2>2. f \in [1..(p + 1) -> Nat] /\ r \in [1..p -> Nat]
    BY <1>1, <1>6, <1>8, <2>1
  <2>3. p \in Nat /\ k \in 1..k /\ 1..p \subseteq 1..k
    BY <1>6, <1>8
  <2>5. \A i \in 1..p : r[i] = f[i]
    BY <1>1, <1>6, <2>1, <2>3
  <2>6. f[p + 1] = b[k]
    BY <1>1, <1>6, <1>8, <2>1, <2>3
  <2>4. SumFunction(f) = SumFunction(r) + f[p + 1]
    BY <2>2, <2>3, <2>5, SumSnoc
  <2> QED
    BY <2>1, <2>4, <2>6
<1>11. SumFunction(cc[k]) = SumFunction(cc[p]) + b[k]
  <2>1. PICK f, r, q : f = cc[k] /\ r = cc[p] /\ q = m + p
    OBVIOUS
  <2>2. q \in Nat /\ q + 1 = m + k /\ c[q + 1] = b[k] /\ q + 1 \in 1..(m + k)
    BY <1>6, <1>8, <2>1
  <2>3. f \in [1..(q + 1) -> Nat] /\ r \in [1..q -> Nat]
    BY <1>1, <1>6, <2>1, <2>2
  <2>5. \A i \in 1..q : r[i] = f[i]
    BY <1>1, <1>6, <1>8, <2>1, <2>2
  <2>6. f[q + 1] = b[k]
    BY <1>1, <1>6, <2>1, <2>2
  <2>4. SumFunction(f) = SumFunction(r) + f[q + 1]
    BY <2>2, <2>3, <2>5, SumSnoc
  <2> QED
    BY <2>1, <2>4, <2>6
<1>12. SumFunction(a) \in Nat /\ SumFunction(bb[p]) \in Nat /\ b[k] \in Nat
  BY <1>4, <1>6, <1>8
<1> QED
  BY <1>6, <1>9, <1>10, <1>11, <1>12, SMTT(30)

(* A function that is zero everywhere but at one place. *)
LEMMA SumOfOne ==
    ASSUME NEW S, IsFiniteSet(S), NEW f \in [S -> Nat], NEW x \in S,
           \A s \in S : s # x => f[s] = 0
    PROVE  SumFunction(f) = f[x]
<1>1. PICK r : r = [s \in Without(S, x) |-> f[s]]
  OBVIOUS
<1>2. Without(S, x) \in SUBSET S /\ \A s \in Without(S, x) : s # x
  BY DEF Without
<1>3. r \in [Without(S, x) -> Nat] /\ \A s \in Without(S, x) : r[s] = f[s] /\ r[s] = 0
  BY <1>1, <1>2
<1>4. SumFunction(f) = f[x] + SumFunction(r)
  BY <1>3, SumRemove
<1>5. IsFiniteSet(Without(S, x))
  BY <1>2, FS_Subset
<1>6. SumFunction(r) = 0
  BY <1>3, <1>5, SumFunctionZero
<1> QED
  BY <1>4, <1>6, f[x] \in Nat
(* g[i] is the first i of the sequences q, one after another. *)
IsFlat(g, q, m) ==
    g = [i \in 1..m |-> IF i = 1 THEN q[i] ELSE g[i - 1] \o q[i]]

(* One step of the recursion. *)
LEMMA FlatUnfold ==
    ASSUME NEW g, NEW q, NEW m \in Nat, IsFlat(g, q, m)
    PROVE  \A i \in 1..m : g[i] = IF i = 1 THEN q[i] ELSE g[i - 1] \o q[i]
BY DEF IsFlat

(* Sequences can be flattened up to any place. *)
LEMMA FlatExists ==
    ASSUME NEW q, NEW n \in Nat
    PROVE  \E g : IsFlat(g, q, n)
<1> DEFINE Bad == {m \in Nat : ~\E g : IsFlat(g, q, m)}
<1> SUFFICES ASSUME Bad # {}  PROVE FALSE
  OBVIOUS
<1>1. PICK m \in Bad : \A j \in Bad : m <= j
  <2>1. Bad \in SUBSET Nat
    OBVIOUS
  <2> HIDE DEF Bad
  <2> QED
    BY <2>1, MinNat
<1>2. m \in Nat /\ ~\E g : IsFlat(g, q, m)
  OBVIOUS
<1>3. m # 0
  <2> SUFFICES ASSUME m = 0  PROVE FALSE
    OBVIOUS
  <2>1. PICK g : g = [i \in 1..m |-> q[i]]
    OBVIOUS
  <2>2. 1..m = {}
    OBVIOUS
  <2>3. IsFlat(g, q, m)
    BY <2>1, <2>2 DEF IsFlat
  <2> QED
    BY <1>2, <2>3
<1>4. PICK p \in Nat : m = p + 1
  BY <1>2, <1>3
<1>5. PICK h : IsFlat(h, q, p)
  BY <1>1, <1>4
<1> HIDE DEF Bad
<1>6. PICK last : last = IF m = 1 THEN q[m] ELSE h[p] \o q[m]
  OBVIOUS
<1>7. PICK g : g = [i \in 1..m |-> IF i = m THEN last ELSE h[i]]
  OBVIOUS
<1>8. \A i \in 1..m : g[i] = IF i = 1 THEN q[i] ELSE g[i - 1] \o q[i]
  <2> SUFFICES ASSUME NEW i \in 1..m
               PROVE  g[i] = IF i = 1 THEN q[i] ELSE g[i - 1] \o q[i]
    OBVIOUS
  <2>1. CASE i = m
    <3>1. g[i] = last
      BY <1>7, <2>1
    <3>2. CASE m = 1
      BY <1>6, <2>1, <3>1, <3>2
    <3>3. CASE m # 1
      <4>1. i - 1 = p /\ p \in 1..m /\ p # m
        BY <1>4, <2>1, <3>3
      <4>2. g[p] = h[p]
        BY <1>7, <4>1
      <4> QED
        BY <1>6, <2>1, <3>1, <3>3, <4>1, <4>2
    <3> QED
      BY <3>2, <3>3
  <2>2. CASE i # m
    <3>1. i \in 1..p /\ g[i] = h[i]
      BY <1>4, <1>7, <2>2
    <3>2. h[i] = IF i = 1 THEN q[i] ELSE h[i - 1] \o q[i]
      BY <1>5, <3>1, FlatUnfold
    <3>3. i # 1 => i - 1 \in 1..m /\ i - 1 # m
      BY <1>4, <3>1
    <3>4. i # 1 => g[i - 1] = h[i - 1]
      BY <1>7, <3>3
    <3> QED
      BY <3>1, <3>2, <3>4
  <2> QED
    BY <2>1, <2>2
<1>9. g = [i \in 1..m |-> g[i]]
  BY <1>7
<1>10. g = [i \in 1..m |-> IF i = 1 THEN q[i] ELSE g[i - 1] \o q[i]]
  BY <1>8, <1>9, Zenon
<1>11. IsFlat(g, q, m)
  BY <1>10 DEF IsFlat
<1> QED
  BY <1>2, <1>11

(* FlattenSeq is the last of those prefixes. *)
LEMMA FlattenSteps ==
    ASSUME NEW q, NEW m \in Nat, m = Len(q), m # 0
    PROVE  \E g : IsFlat(g, q, m) /\ FlattenSeq(q) = g[m]
<1> DEFINE flat == CHOOSE g : IsFlat(g, q, Len(q))
<1>1. IsFlat(flat, q, Len(q))
  BY FlatExists
<1>2. FlattenSeq(q) = flat[Len(q)]
  BY Zenon DEF FlattenSeq, IsFlat
<1> HIDE DEF flat
<1> QED
  BY <1>1, <1>2
(* A function that has one value on a set and is zero elsewhere. *)
LEMMA SumOnSubset ==
    ASSUME NEW S, IsFiniteSet(S), NEW T \in SUBSET S, NEW k \in Nat,
           NEW f \in [S -> Nat], \A s \in S : f[s] = IF s \in T THEN k ELSE 0
    PROVE  SumFunction(f) = k * Cardinality(T) /\ Cardinality(T) \in Nat
<1> DEFINE F == [U \in SUBSET T |-> [s \in S |-> IF s \in U THEN k ELSE 0]]
           Bad == {U \in SUBSET T : SumFunction(F[U]) # k * Cardinality(U)}
<1>1. IsFiniteSet(T) /\ \A U \in SUBSET T : IsFiniteSet(U) /\ Cardinality(U) \in Nat
  BY FS_Subset, FS_CardinalityType
<1>2. F[T] = f
  OBVIOUS
<1>3. /\ \A U \in SUBSET T : F[U] \in [S -> Nat]
      /\ \A U \in SUBSET T : \A s \in S : F[U][s] = IF s \in U THEN k ELSE 0
  OBVIOUS
<1> HIDE DEF F
<1> SUFFICES ASSUME Bad # {}  PROVE FALSE
  BY <1>1, <1>2
<1>4. Bad \subseteq SUBSET T
  OBVIOUS
<1>5. PICK X \in Bad : \A Y \in SUBSET X : Y # X => Y \notin Bad
  <2> HIDE DEF Bad
  <2> QED  BY <1>1, <1>4, MinimalSubset
<1>6. X \in SUBSET T /\ SumFunction(F[X]) # k * Cardinality(X)
  OBVIOUS
<1>7. X # {}
  <2> SUFFICES ASSUME X = {}  PROVE FALSE
    OBVIOUS
  <2>1. SumFunction(F[X]) = 0
    BY <1>3, <1>6, SumFunctionZero
  <2>2. Cardinality(X) = 0
    BY FS_EmptySet
  <2> QED
    BY <1>6, <2>1, <2>2
<1>8. PICK x \in X : TRUE
  BY <1>7
<1>9. PICK Y : Y = X \ {x}
  OBVIOUS
<1>10. Y \in SUBSET T /\ Y \in SUBSET X /\ Y # X /\ x \notin Y /\ x \in S
  BY <1>6, <1>8, <1>9
<1>11. SumFunction(F[Y]) = k * Cardinality(Y)
  BY <1>5, <1>10
<1> HIDE DEF Bad
<1>12. DifferAt(F[X], F[Y], S, x)
  BY <1>3, <1>6, <1>9, <1>10, ZenonT(60) DEF DifferAt
<1>13. SumFunction(F[X]) + F[Y][x] = SumFunction(F[Y]) + F[X][x]
  BY ONLY <1>12, SumChange
<1>14. F[Y][x] = 0 /\ F[X][x] = k
  BY <1>3, <1>6, <1>8, <1>10
<1>15. Cardinality(X) = Cardinality(Y) + 1
  <2>1. IsFiniteSet(X) /\ Cardinality(X) \in Nat
    BY <1>1, <1>6
  <2>2. Cardinality(Y) = Cardinality(X) - 1
    BY <1>8, <1>9, <2>1, FS_RemoveElement
  <2> QED
    BY <2>1, <2>2
<1>16. PICK a \in Nat, v \in Nat : a = Cardinality(Y) /\ v = SumFunction(F[X])
  BY <1>1, <1>3, <1>6, <1>10, SumFunctionNat
<1>17. v = k * a + k
  BY <1>11, <1>13, <1>14, <1>16
<1>18. k * (a + 1) = k * a + k
  OBVIOUS
<1> QED
  BY <1>6, <1>15, <1>16, <1>17, <1>18

(* r is f on T. *)
Restriction(r, f, T) == r = [s \in T |-> f[s]]

(* Values outside T that are zero do not count. *)
LEMMA SumRestrict ==
    ASSUME NEW S, IsFiniteSet(S), NEW f \in [S -> Nat], NEW T \in SUBSET S,
           \A s \in S : s \notin T => f[s] = 0,
           NEW r, Restriction(r, f, T)
    PROVE  SumFunction(f) = SumFunction(r)
<1> USE DEF Restriction
<1> DEFINE R == [U \in SUBSET S |-> [s \in U |-> f[s]]]
           Bad == {U \in SUBSET S : T \subseteq U /\ SumFunction(R[U]) # SumFunction(r)}
<1>1. R[S] = f /\ R[T] = r /\ S \in SUBSET S /\ T \subseteq S
  OBVIOUS
<1>2. \A U \in SUBSET S : /\ R[U] \in [U -> Nat] /\ IsFiniteSet(U)
                          /\ \A s \in U : R[U][s] = f[s]
  BY FS_Subset
<1> HIDE DEF R
<1> SUFFICES ASSUME Bad # {}  PROVE FALSE
  BY <1>1
<1>3. Bad \subseteq SUBSET S
  OBVIOUS
<1>4. PICK X \in Bad : \A Y \in SUBSET X : Y # X => Y \notin Bad
  <2> HIDE DEF Bad
  <2> QED  BY <1>3, MinimalSubset
<1>5. X \in SUBSET S /\ T \subseteq X /\ SumFunction(R[X]) # SumFunction(r)
  OBVIOUS
<1>6. X # T
  BY <1>1, <1>5
<1>7. PICK x \in X : x \notin T
  BY <1>5, <1>6
<1>8. PICK Y : Y = Without(X, x)
  OBVIOUS
<1>9. Y \in SUBSET X /\ Y \in SUBSET S /\ Y # X /\ T \subseteq Y
  BY <1>5, <1>7, <1>8 DEF Without
<1>10. SumFunction(R[Y]) = SumFunction(r)
  BY <1>4, <1>9
<1> HIDE DEF Bad
<1>11. PICK u, v : u = R[X] /\ v = R[Y]
  OBVIOUS
<1>12. /\ u \in [X -> Nat] /\ IsFiniteSet(X) /\ v \in [Y -> Nat] /\ IsFiniteSet(Y)
       /\ u[x] = 0 /\ \A s \in Y : v[s] = u[s]
  BY <1>2, <1>5, <1>7, <1>9, <1>11
<1>13. SumFunction(u) = u[x] + SumFunction(v)
  BY ONLY <1>7, <1>8, <1>12, SumRemove
<1>14. SumFunction(v) \in Nat
  BY ONLY <1>12, SumFunctionNat
<1> QED
  BY ONLY <1>5, <1>10, <1>11, <1>12, <1>13, <1>14

Differences(c, a, b, S) == c = [s \in S |-> a[s] - b[s]]

(* The sum of differences is the difference of the sums, also where a      *)
(* difference is negative.                                                 *)
LEMMA SumDifference ==
    ASSUME NEW S, IsFiniteSet(S), NEW a \in [S -> Nat], NEW b \in [S -> Nat],
           NEW c, Differences(c, a, b, S)
    PROVE  SumFunction(c) = SumFunction(a) - SumFunction(b)
<1> USE DEF Differences
<1>1. PICK ga \in [SUBSET S -> Nat] : IsSum(ga, a, S) /\ SumFunction(a) = ga[S]
  BY SumSpec
<1>2. PICK gb \in [SUBSET S -> Nat] : IsSum(gb, b, S) /\ SumFunction(b) = gb[S]
  BY SumSpec
<1>3. PICK g : g = [t \in SUBSET S |-> ga[t] - gb[t]]
  OBVIOUS
<1>4. g[{}] = 0
  <2>1. {} \in SUBSET S /\ ga[{}] = 0 /\ gb[{}] = 0
    BY <1>1, <1>2, SumUnfold
  <2> QED
    BY <1>3, <2>1
<1>5. ASSUME NEW t \in SUBSET S, t # {}
      PROVE  g[t] = c[Pick(t)] + g[t \ {Pick(t)}]
  <2>1. PICK p \in t : p = Pick(t)
    BY <1>5 DEF Pick
  <2>2. ga[t] = a[p] + ga[t \ {p}] /\ gb[t] = b[p] + gb[t \ {p}]
    BY <1>1, <1>2, <1>5, <2>1, SumUnfold
  <2>3. PICK u \in SUBSET S : u = t \ {p}
    OBVIOUS
  <2>4. /\ g[t] = ga[t] - gb[t] /\ g[u] = ga[u] - gb[u] /\ c[p] = a[p] - b[p]
        /\ a[p] \in Nat /\ b[p] \in Nat /\ ga[u] \in Nat /\ gb[u] \in Nat
    BY <1>3, <2>1
  <2> QED
    BY ONLY <2>1, <2>2, <2>3, <2>4
<1>6. IsSum(g, c, S)
  <2>1. g = [t \in SUBSET S |-> g[t]]
    BY <1>3
  <2>2. g = [t \in SUBSET S |-> IF t = {} THEN 0 ELSE c[Pick(t)] + g[t \ {Pick(t)}]]
    BY ONLY <1>4, <1>5, <2>1, Zenon
  <2> QED
    BY ONLY <2>2 DEF IsSum
<1> DEFINE iter == CHOOSE k : IsSum(k, c, DOMAIN c)
<1>7. DOMAIN c = S
  OBVIOUS
<1>8. IsSum(iter, c, DOMAIN c)
  BY ONLY <1>6, <1>7
<1>9. SumFunction(c) = iter[DOMAIN c]
  BY ONLY Zenon DEF SumFunction, SumFunctionOnSet, FoldFunctionOnSet, MapThenFoldSet, IsSum, Pick
<1> HIDE DEF iter
<1>10. iter[S] = g[S]
  <2>1. IsSum(iter, c, S) /\ S \in SUBSET S
    BY ONLY <1>7, <1>8
  <2> QED
    BY ONLY <1>6, <2>1, IsFiniteSet(S), SumUnique
<1> QED
  BY <1>1, <1>2, <1>3, <1>7, <1>9, <1>10

(* total[k] is the sum of the values v whose key is k. *)
KeyTotals(total, v, key, I, K) ==
    /\ IsFiniteSet(I) /\ IsFiniteSet(K) /\ v \in [I -> Nat] /\ key \in [I -> K]
    /\ total = [k \in K |-> SumFunction([i \in I |-> IF key[i] = k THEN v[i] ELSE 0])]

(* Sums by key add up to the sum. *)
LEMMA SumByKey ==
    ASSUME NEW total, NEW v, NEW key, NEW I, NEW K, KeyTotals(total, v, key, I, K)
    PROVE  total \in [K -> Nat] /\ SumFunction(total) = SumFunction(v)
<1>0. IsFiniteSet(I) /\ IsFiniteSet(K) /\ v \in [I -> Nat] /\ key \in [I -> K]
  BY DEF KeyTotals
<1>1. PICK A : A = [i \in I |-> [k \in K |-> IF key[i] = k THEN v[i] ELSE 0]]
  OBVIOUS
<1>2. PICK B : B = [k \in K |-> [i \in I |-> IF key[i] = k THEN v[i] ELSE 0]]
  OBVIOUS
<1>3. /\ A \in [I -> [K -> Nat]] /\ B \in [K -> [I -> Nat]]
      /\ \A k \in K : \A i \in I : B[k][i] = A[i][k]
      /\ \A i \in I : \A k \in K : A[i][k] = IF key[i] = k THEN v[i] ELSE 0
  BY ONLY <1>0, <1>1, <1>2
<1>4. /\ total = [k \in K |-> SumFunction(B[k])]
  BY ONLY <1>2, KeyTotals(total, v, key, I, K) DEF KeyTotals
<1>5. \A k \in K : SumFunction(B[k]) \in Nat
  BY ONLY <1>0, <1>3, SumFunctionNat
<1>6. total \in [K -> Nat] /\ \A k \in K : total[k] = SumFunction(B[k])
  BY ONLY <1>4, <1>5
<1>7. ASSUME NEW i \in I  PROVE v[i] = SumFunction(A[i])
  <2>1. PICK f : f = A[i]
    OBVIOUS
  <2>2. f \in [K -> Nat] /\ key[i] \in K /\ f[key[i]] = v[i]
    BY ONLY <1>0, <1>3, <2>1, i \in I
  <2>3. \A k \in K : k # key[i] => f[k] = 0
    BY ONLY <1>3, <2>1, i \in I
  <2>4. SumFunction(f) = f[key[i]]
    BY ONLY <1>0, <2>2, <2>3, SumOfOne
  <2> QED
    BY ONLY <2>1, <2>2, <2>4
<1>8. RowAndColumnSums(A, B, total, v, I, K)
  BY ONLY <1>0, <1>3, <1>6, <1>7 DEF RowAndColumnSums
<1>9. SumFunction(total) = SumFunction(v)
  BY ONLY <1>0, <1>3, <1>8, SumFunctionExchange
<1> QED
  BY ONLY <1>6, <1>9
-----------------------------------------------------------------------------
(* Folds                                                                   *)

(* g[t] is the fold of step over the values of f at the places t, in       *)
(* order.                                                                  *)
IsFold(g, step, base, f, S) ==
    g = [t \in SUBSET S |-> IF t = {} THEN base
                            ELSE step[<<g[t \ {Max(t)}], f[Max(t)]>>]]

(* One step of the recursion. *)
LEMMA FoldUnfold ==
    ASSUME NEW S, NEW step, NEW base, NEW f, NEW g, IsFold(g, step, base, f, S)
    PROVE  /\ g[{}] = base
           /\ \A t \in SUBSET S :
                 t # {} => g[t] = step[<<g[t \ {Max(t)}], f[Max(t)]>>]
<1>1. {} \in SUBSET S
  OBVIOUS
<1> QED
  BY <1>1 DEF IsFold

(* Folds over the same values agree wherever both are defined. *)
LEMMA FoldUnique ==
    ASSUME NEW step, NEW base, NEW f, NEW A, NEW B, NEW g, NEW h,
           IsFold(g, step, base, f, A), IsFold(h, step, base, f, B),
           NEW t \in SUBSET Nat, IsFiniteSet(t), t \in SUBSET A, t \in SUBSET B
    PROVE  g[t] = h[t]
<1> DEFINE Bad == {u \in SUBSET t : g[u] # h[u]}
<1> SUFFICES ASSUME Bad # {}  PROVE FALSE
  OBVIOUS
<1>0. Bad \subseteq SUBSET t
  OBVIOUS
<1>1. PICK X \in Bad : \A Y \in SUBSET X : Y # X => Y \notin Bad
  <2> HIDE DEF Bad
  <2> QED  BY <1>0, MinimalSubset
<1>2. X \in SUBSET t /\ g[X] # h[X]
  OBVIOUS
<1> HIDE DEF Bad
<1>3. X # {}
  <2>1. g[{}] = base
    BY FoldUnfold
  <2>2. h[{}] = base
    BY FoldUnfold
  <2> QED
    BY ONLY <1>2, <2>1, <2>2
<1>4. PICK m \in X : m = Max(X)
  <2>1. X \in SUBSET Nat /\ IsFiniteSet(X)
    BY <1>2, FS_Subset
  <2> QED
    BY <1>3, <2>1, MaxNat
<1>5. g[X \ {m}] = h[X \ {m}]
  BY <1>1, <1>2, <1>4 DEF Bad
<1>6. g[X] = step[<<g[X \ {m}], f[m]>>] /\ h[X] = step[<<h[X \ {m}], f[m]>>]
  <2>1. X \in SUBSET A /\ X \in SUBSET B
    BY <1>2
  <2>2. g[X] = step[<<g[X \ {Max(X)}], f[Max(X)]>>]
    BY ONLY <1>3, <2>1, IsFold(g, step, base, f, A) DEF IsFold
  <2>3. h[X] = step[<<h[X \ {Max(X)}], f[Max(X)]>>]
    BY ONLY <1>3, <2>1, IsFold(h, step, base, f, B) DEF IsFold
  <2> QED
    BY <1>4, <2>2, <2>3
<1> QED
  BY <1>2, <1>5, <1>6

(* Every finite set of places has a fold. *)
LEMMA FoldExists ==
    ASSUME NEW S \in SUBSET Nat, IsFiniteSet(S), NEW step, NEW base, NEW f
    PROVE  \E g : IsFold(g, step, base, f, S)
<1> DEFINE Bad == {Y \in SUBSET S : ~\E g : IsFold(g, step, base, f, Y)}
<1> SUFFICES ASSUME Bad # {}  PROVE FALSE
  OBVIOUS
<1>0. Bad \subseteq SUBSET S
  OBVIOUS
<1>1. PICK X \in Bad : \A Y \in SUBSET X : Y # X => Y \notin Bad
  <2> HIDE DEF Bad
  <2> QED  BY <1>0, MinimalSubset
<1>x. X \in SUBSET S /\ X \in SUBSET Nat /\ IsFiniteSet(X)
  BY <1>0, <1>1, FS_Subset
<1>n. ~\E g : IsFold(g, step, base, f, X)
  BY <1>1
<1> DEFINE G == [Y \in SUBSET X |-> CHOOSE g : IsFold(g, step, base, f, Y)]
           Rest == [t \in SUBSET X |-> t \ {Max(t)}]
           h == [t \in SUBSET X |-> IF t = {} THEN base
                                    ELSE step[<<G[Rest[t]][Rest[t]], f[Max(t)]>>]]
<1>2. \A Y \in SUBSET X : Y # X => IsFold(G[Y], step, base, f, Y)
  <2> SUFFICES ASSUME NEW Y \in SUBSET X, Y # X
               PROVE  IsFold(G[Y], step, base, f, Y)
    OBVIOUS
  <2>1. \E g : IsFold(g, step, base, f, Y)
    BY <1>1, <1>x
  <2>2. IsFold(CHOOSE g : IsFold(g, step, base, f, Y), step, base, f, Y)
    BY <2>1
  <2> QED
    BY <2>2
<1>3. ASSUME NEW t \in SUBSET X, t # {}
      PROVE  /\ Max(t) \in t
             /\ Rest[t] \in SUBSET X /\ Rest[t] \in SUBSET t /\ Rest[t] # X
             /\ Rest[t] = t \ {Max(t)}
             /\ Rest[t] \in SUBSET Nat /\ IsFiniteSet(Rest[t])
  <2>1. t \in SUBSET Nat /\ IsFiniteSet(t)
    BY <1>x, FS_Subset
  <2>2. Max(t) \in t
    BY <1>3, <2>1, MaxNat
  <2>3. Rest[t] = t \ {Max(t)}
    OBVIOUS
  <2> HIDE DEF Rest
  <2> QED
    BY <2>1, <2>2, <2>3, FS_Subset
<1> HIDE DEF G, Rest
<1>4. \A t \in SUBSET X : h[t] = IF t = {} THEN base
                                  ELSE step[<<G[Rest[t]][Rest[t]], f[Max(t)]>>]
  OBVIOUS
<1>5. h = [t \in SUBSET X |-> h[t]]
  OBVIOUS
<1> HIDE DEF h
<1>7. ASSUME NEW u \in SUBSET X, u # X
      PROVE  h[u] = G[u][u]
  <2>0. IsFold(G[u], step, base, f, u)
    BY <1>2, <1>7
  <2>1. CASE u = {}
    <3>1. G[u][u] = base
      BY <2>0, <2>1, FoldUnfold
    <3> QED
      BY <3>1, <2>1, <1>4
  <2>2. CASE u # {}
    <3>1. /\ Rest[u] \in SUBSET u /\ Rest[u] \in SUBSET X /\ Rest[u] # X
          /\ Rest[u] \in SUBSET Nat /\ IsFiniteSet(Rest[u])
          /\ Rest[u] = u \ {Max(u)}
      BY <1>3, <2>2
    <3>2. IsFold(G[Rest[u]], step, base, f, Rest[u])
      BY <1>2, <3>1
    <3>3. G[u][Rest[u]] = G[Rest[u]][Rest[u]]
      BY <2>0, <3>1, <3>2, FoldUnique
    <3>4. G[u][u] = step[<<G[u][Rest[u]], f[Max(u)]>>]
      <4>1. u \in SUBSET u
        OBVIOUS
      <4> QED
        BY <2>0, <2>2, <3>1, <4>1, FoldUnfold
    <3> QED
      BY <3>3, <3>4, <2>2, <1>4
  <2> QED
    BY <2>1, <2>2
<1>8. ASSUME NEW t \in SUBSET X, t # {}
      PROVE  h[t] = step[<<h[t \ {Max(t)}], f[Max(t)]>>]
  <2>1. h[t] = step[<<G[Rest[t]][Rest[t]], f[Max(t)]>>]
    BY <1>4, <1>8
  <2>2. Rest[t] = t \ {Max(t)} /\ Rest[t] \in SUBSET X /\ Rest[t] # X
    BY <1>3, <1>8
  <2>3. h[Rest[t]] = G[Rest[t]][Rest[t]]
    BY <1>7, <2>2
  <2> QED
    BY <2>1, <2>2, <2>3
<1>9. h = [t \in SUBSET X |-> IF t = {} THEN base
                               ELSE step[<<h[t \ {Max(t)}], f[Max(t)]>>]]
  BY <1>4, <1>5, <1>8, Zenon
<1>10. IsFold(h, step, base, f, X)
  BY <1>9 DEF IsFold
<1> QED
  BY <1>n, <1>10

(* A fold stays in any set its steps stay in. *)
LEMMA FoldTyped ==
    ASSUME NEW S \in SUBSET Nat, IsFiniteSet(S), NEW step, NEW V, NEW base \in V, NEW f,
           \A v \in V : \A i \in S : step[<<v, f[i]>>] \in V,
           NEW g, IsFold(g, step, base, f, S)
    PROVE  \A t \in SUBSET S : g[t] \in V
<1> DEFINE Bad == {u \in SUBSET S : g[u] \notin V}
<1> SUFFICES ASSUME Bad # {}  PROVE FALSE
  OBVIOUS
<1>0. Bad \subseteq SUBSET S
  OBVIOUS
<1>1. PICK X \in Bad : \A Y \in SUBSET X : Y # X => Y \notin Bad
  <2> HIDE DEF Bad
  <2> QED  BY <1>0, MinimalSubset
<1>2. X \in SUBSET S /\ g[X] \notin V
  OBVIOUS
<1>3. X # {}
  <2>1. g[{}] = base
    BY FoldUnfold
  <2> QED
    BY ONLY <1>2, <2>1, base \in V
<1>4. PICK m \in X : m = Max(X)
  <2>1. X \in SUBSET Nat /\ IsFiniteSet(X)
    BY <1>2, FS_Subset
  <2> HIDE DEF Bad
  <2> QED
    BY <1>3, <2>1, MaxNat
<1>5. g[X \ {m}] \in V
  BY <1>1, <1>2, <1>4
<1> HIDE DEF Bad
<1>6. g[X] = step[<<g[X \ {m}], f[m]>>]
  <2>1. g[X] = step[<<g[X \ {Max(X)}], f[Max(X)]>>]
    BY ONLY <1>2, <1>3, IsFold(g, step, base, f, S) DEF IsFold
  <2> QED
    BY ONLY <1>4, <2>1
<1> QED
  BY <1>2, <1>5, <1>6

(* The greatest of the first places. *)
LEMMA MaxOfInterval ==
    ASSUME NEW k \in Nat, k # 0
    PROVE  Max(1..k) = k /\ (1..k) \ {k} = 1..(k - 1)
<1>1. 1..k \in SUBSET Nat /\ 1..k # {} /\ k \in 1..k
  OBVIOUS
<1>2. IsFiniteSet(1..k)
  BY FS_Interval
<1>3. Max(1..k) \in 1..k /\ \A y \in 1..k : Max(1..k) >= y
  BY <1>1, <1>2, MaxNat
<1>4. (1..k) \ {k} = 1..(k - 1)
  OBVIOUS
<1> QED
  BY <1>1, <1>3, <1>4
(* What a fold over the first n places is after each of them. *)
LEMMA FoldHistory ==
    ASSUME NEW n \in Nat, NEW step, NEW base, NEW f, NEW g,
           IsFold(g, step, base, f, 1..n),
           NEW a, a = [k \in 0..n |-> g[1..k]]
    PROVE  /\ a[0] = base
           /\ \A k \in 1..n : a[k] = step[<<a[k - 1], f[k]>>]
<1>0. g[{}] = base
  BY FoldUnfold
<1>1. a[0] = base
  <2>1. 1..0 = {}
    OBVIOUS
  <2> QED
    BY ONLY <1>0, <2>1, n \in Nat, a = [k \in 0..n |-> g[1..k]]
<1>2. ASSUME NEW k \in 1..n  PROVE a[k] = step[<<a[k - 1], f[k]>>]
  <2>1. Max(1..k) = k /\ (1..k) \ {k} = 1..(k - 1)
    BY MaxOfInterval
  <2>2. PICK t : t = 1..k
    OBVIOUS
  <2>3. t \in SUBSET (1..n) /\ t # {}
    BY <2>2
  <2>4. g[t] = step[<<g[t \ {Max(t)}], f[Max(t)]>>]
    BY ONLY <2>3, IsFold(g, step, base, f, 1..n) DEF IsFold
  <2>5. g[1..k] = step[<<g[1..(k - 1)], f[k]>>]
    BY ONLY <2>1, <2>2, <2>4
  <2>6. k \in 0..n /\ k - 1 \in 0..n
    OBVIOUS
  <2> QED
    BY ONLY <2>5, <2>6, a = [j \in 0..n |-> g[1..j]]
<1> QED
  BY <1>1, <1>2
-----------------------------------------------------------------------------
(* Side pots                                                               *)

Pot == [amount: Nat, contributors: SUBSET Seats, eligible: SUBSET Seats]
Merged == [result: Seq(Pot), carry: Pot]
NothingMerged == [result |-> <<>>, carry |-> NoCarry]

(* What joining two pots does. *)
LEMMA AddPotFields ==
    ASSUME NEW p \in Pot, NEW q \in Pot
    PROVE  /\ AddPot(p, q) \in Pot
           /\ AddPot(p, q).amount = p.amount + q.amount
           /\ AddPot(p, q).eligible = p.eligible
<1>1. PICK x, c : x = p.amount + q.amount /\ c = p.contributors \cup q.contributors
  OBVIOUS
<1>2. x \in Nat /\ c \in SUBSET Seats
  BY <1>1 DEF Pot
<1>3. AddPot(p, q) = [p EXCEPT !.amount = x, !.contributors = c]
  BY ONLY <1>1, p \in Pot DEF AddPot, Pot
<1>4. /\ [p EXCEPT !.amount = x, !.contributors = c] \in Pot
      /\ [p EXCEPT !.amount = x, !.contributors = c].amount = x
      /\ [p EXCEPT !.amount = x, !.contributors = c].eligible = p.eligible
  BY ONLY <1>2, p \in Pot DEF Pot
<1> QED
  BY ONLY <1>1, <1>3, <1>4

(* What one step of the merge does. *)
LEMMA MergePotFields ==
    ASSUME NEW v \in Merged, NEW p \in Pot
    PROVE  /\ MergePot(v, p) \in Merged
           /\ p.eligible # {} =>
                 /\ MergePot(v, p).result = Append(v.result, AddPot(p, v.carry))
                 /\ MergePot(v, p).carry = NoCarry
           /\ p.eligible = {} =>
                 /\ MergePot(v, p).result = v.result
                 /\ MergePot(v, p).carry = AddPot(p, v.carry)
<1>0. v.result \in Seq(Pot) /\ v.carry \in Pot
  BY DEF Merged
<1>1. PICK x : x = AddPot(p, v.carry)
  OBVIOUS
<1>2. x \in Pot
  BY <1>0, <1>1, AddPotFields
<1>3. NoCarry \in Pot
  BY DEF NoCarry, Pot
<1>4. PICK r : r = Append(v.result, x)
  OBVIOUS
<1>5. r \in Seq(Pot)
  BY <1>0, <1>2, <1>4
<1>6. CASE p.eligible # {}
  <2>1. MergePot(v, p) = [result |-> r, carry |-> NoCarry]
    BY ONLY <1>1, <1>4, <1>6 DEF MergePot
  <2> QED
    BY ONLY <1>1, <1>3, <1>4, <1>5, <1>6, <2>1 DEF Merged
<1>7. CASE p.eligible = {}
  <2>1. MergePot(v, p) = [v EXCEPT !.carry = x]
    BY ONLY <1>1, <1>7 DEF MergePot
  <2>2. [v EXCEPT !.carry = x] \in Merged
    BY ONLY <1>2, v \in Merged DEF Merged
  <2>3. [v EXCEPT !.carry = x].result = v.result /\ [v EXCEPT !.carry = x].carry = x
    BY ONLY <1>2, v \in Merged DEF Merged
  <2> QED
    BY ONLY <1>1, <1>7, <2>1, <2>2, <2>3
<1> QED
  BY <1>6, <1>7

(* g[t] is the merge of the pots at the places t. *)
IsMerge(g, raw, S) ==
    g = [t \in SUBSET S |-> IF t = {} THEN NothingMerged
                            ELSE MergePot(g[t \ {Max(t)}], raw[Max(t)])]

(* The merge is the last of n steps, one for each raw pot in order. *)
MergeSteps(a, raw, n) ==
    /\ a[0] = NothingMerged
    /\ \A k \in 1..n : a[k] = MergePot(a[k - 1], raw[k])
    /\ \A k \in 0..n : a[k] \in Merged

(* Every list of pots can be merged. *)
LEMMA MergeExists ==
    ASSUME NEW S \in SUBSET Nat, IsFiniteSet(S), NEW raw \in [S -> Pot]
    PROVE  \E g : IsMerge(g, raw, S) /\ \A t \in SUBSET S : g[t] \in Merged
<1>1. PICK step : step = [x \in Merged \X Pot |-> MergePot(x[1], x[2])]
  OBVIOUS
<1>2. \A v \in Merged, p \in Pot : step[<<v, p>>] = MergePot(v, p)
  BY ONLY <1>1
<1>3. NothingMerged \in Merged
  BY DEF NothingMerged, Merged, NoCarry, Pot
<1>4. PICK g : IsFold(g, step, NothingMerged, raw, S)
  BY FoldExists
<1>5. \A v \in Merged : \A i \in S : step[<<v, raw[i]>>] \in Merged
  <2> SUFFICES ASSUME NEW v \in Merged, NEW i \in S
               PROVE  step[<<v, raw[i]>>] \in Merged
    OBVIOUS
  <2>1. raw[i] \in Pot
    OBVIOUS
  <2> QED
    BY ONLY <1>2, <2>1, v \in Merged, MergePotFields
<1>6. \A t \in SUBSET S : g[t] \in Merged
  BY ONLY <1>3, <1>4, <1>5, S \in SUBSET Nat, IsFiniteSet(S), FoldTyped
<1>7. \A t \in SUBSET S : t # {} => Max(t) \in S /\ t \ {Max(t)} \in SUBSET S
  <2> SUFFICES ASSUME NEW t \in SUBSET S, t # {}  PROVE Max(t) \in S
    OBVIOUS
  <2>1. t \in SUBSET Nat /\ IsFiniteSet(t)
    BY FS_Subset
  <2> QED
    BY <2>1, MaxNat
<1>8. ASSUME NEW t \in SUBSET S, t # {}
      PROVE  step[<<g[t \ {Max(t)}], raw[Max(t)]>>] = MergePot(g[t \ {Max(t)}], raw[Max(t)])
  BY ONLY <1>2, <1>6, <1>7, <1>8, raw \in [S -> Pot]
<1>9. g = [t \in SUBSET S |-> IF t = {} THEN NothingMerged
                              ELSE step[<<g[t \ {Max(t)}], raw[Max(t)]>>]]
  BY <1>4 DEF IsFold
<1>10. IsMerge(g, raw, S)
  BY ONLY <1>8, <1>9, Zenon DEF IsMerge
<1> QED
  BY <1>6, <1>10
(* Merging pots yields pots. *)
LEMMA MergeTyped ==
    ASSUME NEW S \in SUBSET Nat, IsFiniteSet(S), NEW raw \in [S -> Pot],
           NEW g, IsMerge(g, raw, S)
    PROVE  \A t \in SUBSET S : g[t] \in Merged
<1> DEFINE Bad == {u \in SUBSET S : g[u] \notin Merged}
<1> SUFFICES ASSUME Bad # {}  PROVE FALSE
  OBVIOUS
<1>0. Bad \subseteq SUBSET S
  OBVIOUS
<1>1. PICK X \in Bad : \A Y \in SUBSET X : Y # X => Y \notin Bad
  <2> HIDE DEF Bad
  <2> QED  BY <1>0, MinimalSubset
<1>2. X \in SUBSET S /\ g[X] \notin Merged
  OBVIOUS
<1>3. X # {}
  <2>1. {} \in SUBSET S
    OBVIOUS
  <2>2. g[{}] = NothingMerged
    BY ONLY <2>1, IsMerge(g, raw, S) DEF IsMerge
  <2>3. NothingMerged \in Merged
    BY DEF NothingMerged, Merged, NoCarry, Pot
  <2> QED
    BY ONLY <1>2, <2>2, <2>3
<1>4. PICK m \in X : m = Max(X)
  <2>1. X \in SUBSET Nat /\ IsFiniteSet(X)
    BY <1>2, FS_Subset
  <2> HIDE DEF Bad
  <2> QED
    BY <1>3, <2>1, MaxNat
<1>5. g[X \ {m}] \in Merged
  BY <1>1, <1>2, <1>4
<1> HIDE DEF Bad
<1>6. g[X] = MergePot(g[X \ {m}], raw[m])
  <2>1. g[X] = MergePot(g[X \ {Max(X)}], raw[Max(X)])
    BY ONLY <1>2, <1>3, IsMerge(g, raw, S) DEF IsMerge
  <2> QED
    BY ONLY <1>4, <2>1
<1>7. raw[m] \in Pot
  BY <1>2, <1>4
<1> QED
  BY ONLY <1>2, <1>5, <1>6, <1>7, MergePotFields

(* The merge, step by step. *)
LEMMA MergeHistory ==
    ASSUME NEW n \in Nat, NEW raw \in [1..n -> Pot]
    PROVE  \E a : /\ MergeSteps(a, raw, n)
                  /\ FoldLeft(MergePot, [result |-> <<>>, carry |-> NoCarry], raw) = a[n]
<1>0. PICK S : S = DOMAIN raw
  OBVIOUS
<1>1. S = 1..n /\ S \in SUBSET Nat /\ raw \in [S -> Pot]
  BY <1>0
<1>2. IsFiniteSet(S)
  <2>1. IsFiniteSet(1..n)
    BY FS_Interval
  <2> QED
    BY <1>1, <2>1
<1> DEFINE iter == CHOOSE g : IsMerge(g, raw, S)
<1>3. PICK g : IsMerge(g, raw, S) /\ \A t \in SUBSET S : g[t] \in Merged
  BY <1>1, <1>2, MergeExists
<1>4. IsMerge(iter, raw, S)
  BY <1>3
<1>5. FoldLeft(MergePot, [result |-> <<>>, carry |-> NoCarry], raw) = iter[S]
  BY ONLY <1>0, Zenon DEF FoldLeft, MapThenFoldSet, IsMerge, NothingMerged
<1> HIDE DEF iter
<1>6. \A t \in SUBSET S : iter[t] \in Merged
  BY <1>1, <1>2, <1>4, MergeTyped
<1>7. PICK a : a = [k \in 0..n |-> iter[1..k]]
  OBVIOUS
<1>8. a[0] = NothingMerged
  <2>1. 1..0 = {} /\ {} \in SUBSET S
    OBVIOUS
  <2>2. iter[{}] = NothingMerged
    BY ONLY <1>4, <2>1 DEF IsMerge
  <2> QED
    BY ONLY <1>7, <2>1, <2>2, n \in Nat
<1>9. ASSUME NEW k \in 1..n  PROVE a[k] = MergePot(a[k - 1], raw[k])
  <2>1. Max(1..k) = k /\ (1..k) \ {k} = 1..(k - 1)
    BY MaxOfInterval
  <2>2. PICK t : t = 1..k
    OBVIOUS
  <2>3. t \in SUBSET S /\ t # {}
    <3>1. k \in 1..k /\ \A j \in 1..k : j \in 1..n
      OBVIOUS
    <3> QED
      BY ONLY <1>1, <2>2, <3>1
  <2>4. iter[t] = MergePot(iter[t \ {Max(t)}], raw[Max(t)])
    BY ONLY <1>4, <2>3 DEF IsMerge
  <2>5. iter[1..k] = MergePot(iter[1..(k - 1)], raw[k])
    BY ONLY <2>1, <2>2, <2>4
  <2>6. k \in 0..n /\ k - 1 \in 0..n
    OBVIOUS
  <2> QED
    BY ONLY <1>7, <2>5, <2>6
<1>10. ASSUME NEW k \in 0..n  PROVE a[k] \in Merged
  <2>1. 1..k \in SUBSET S
    BY <1>1
  <2> QED
    BY ONLY <1>6, <1>7, <2>1, k \in 0..n
<1>11. a[n] = iter[S]
  BY ONLY <1>1, <1>7, n \in Nat
<1>12. MergeSteps(a, raw, n)
  BY ONLY <1>8, <1>9, <1>10 DEF MergeSteps
<1> QED
  BY <1>5, <1>11, <1>12
(* z has the first e of the n values of f and zeros, r those e alone. *)
FirstOnly(z, r, f, n, e) ==
    /\ n \in Nat /\ e \in 0..n /\ f \in [1..n -> Nat] /\ z \in [1..n -> Nat]
    /\ \A i \in 1..n : z[i] = IF i <= e THEN f[i] ELSE 0
    /\ r = [i \in 1..e |-> f[i]]

LEMMA PrefixSum ==
    ASSUME NEW n, NEW e, NEW f, NEW z, NEW r, FirstOnly(z, r, f, n, e)
    PROVE  SumFunction(z) = SumFunction(r)
<1> USE DEF FirstOnly
<1>1. /\ n \in Nat /\ e \in 0..n /\ f \in [1..n -> Nat] /\ z \in [1..n -> Nat]
      /\ \A i \in 1..n : z[i] = IF i <= e THEN f[i] ELSE 0
      /\ r = [i \in 1..e |-> f[i]]
  OBVIOUS
<1> HIDE DEF FirstOnly
<1>2. PICK k \in Nat : k = n - e
  BY <1>1
<1>3. PICK o : o = [j \in 1..k |-> 0]
  OBVIOUS
<1>4. e \in Nat /\ n = e + k
  BY <1>1, <1>2
<1>5. r \in [1..e -> Nat] /\ o \in [1..k -> Nat] /\ \A j \in 1..k : o[j] = 0
  BY <1>1, <1>3
<1>6. z \in [1..(e + k) -> Nat] /\ \A i \in 1..e : z[i] = r[i]
  BY <1>1, <1>4
<1>7. \A j \in 1..k : z[e + j] = o[j]
  BY <1>1, <1>4, <1>5
<1>8. SumFunction(z) = SumFunction(r) + SumFunction(o)
  BY ONLY <1>2, <1>4, <1>5, <1>6, <1>7, SumConcat
<1>9. IsFiniteSet(1..k) /\ IsFiniteSet(1..e)
  BY <1>4, FS_Interval
<1>10. SumFunction(o) = 0
  BY <1>5, <1>9, SumFunctionZero
<1>11. SumFunction(r) \in Nat
  BY <1>5, <1>9, SumFunctionNat
<1> QED
  BY <1>8, <1>10, <1>11

(* The amounts of the pots, in order. *)
PotAmounts(pots) == [i \in DOMAIN pots |-> pots[i].amount]

(* P[k] is what the first k raw pots hold. *)
Running(P, raw, m) ==
    /\ P \in [0..m -> Nat]
    /\ \A k \in 0..m : P[k] = SumFunction([i \in 1..k |-> raw[i].amount])
    /\ P[0] = 0
    /\ \A k \in 1..m : P[k] = P[k - 1] + raw[k].amount

LEMMA RunningExists ==
    ASSUME NEW m \in Nat, NEW raw \in [1..m -> Pot]
    PROVE  \E P : Running(P, raw, m)
<1>0. PICK am : am = [k \in 0..m |-> [i \in 1..k |-> raw[i].amount]]
  OBVIOUS
<1>1. \A k \in 0..m : am[k] \in [1..k -> Nat] /\ IsFiniteSet(1..k)
  <2> SUFFICES ASSUME NEW k \in 0..m  PROVE am[k] \in [1..k -> Nat] /\ IsFiniteSet(1..k)
    OBVIOUS
  <2>1. \A i \in 1..k : raw[i].amount \in Nat
    BY DEF Pot
  <2>2. 1 \in Int /\ k \in Int
    OBVIOUS
  <2>3. IsFiniteSet(1..k)
    BY ONLY <2>2, FS_Interval
  <2>4. am[k] = [i \in 1..k |-> raw[i].amount]
    BY ONLY <1>0, k \in 0..m
  <2>5. am[k] \in [1..k -> Nat]
    BY ONLY <2>1, <2>4
  <2> QED
    BY <2>3, <2>5
<1>2. PICK P : P = [k \in 0..m |-> SumFunction(am[k])]
  OBVIOUS
<1>3. P \in [0..m -> Nat]
  BY <1>1, <1>2, SumFunctionNat
<1>4. \A k \in 0..m : P[k] = SumFunction([i \in 1..k |-> raw[i].amount])
  BY <1>0, <1>2
<1>5. P[0] = 0
  <2>1. 0 \in 0..m /\ 1..0 = {}
    OBVIOUS
  <2>2. am[0] \in [1..0 -> Nat] /\ IsFiniteSet(1..0) /\ \A i \in 1..0 : am[0][i] = 0
    BY <1>1, <2>1
  <2>3. SumFunction(am[0]) = 0
    BY ONLY <2>2, SumFunctionZero
  <2> QED
    BY <1>2, <2>1, <2>3
<1>6. ASSUME NEW k \in 1..m  PROVE P[k] = P[k - 1] + raw[k].amount
  <2>1. PICK j \in Nat : j = k - 1
    OBVIOUS
  <2>2. k = j + 1 /\ j \in 0..m /\ k \in 0..m
    BY <2>1
  <2>3. am[k] \in [1..(j + 1) -> Nat] /\ am[j] \in [1..j -> Nat]
    BY <1>1, <2>2
  <2>4. \A i \in 1..j : am[j][i] = am[k][i]
    BY <1>0, <2>2
  <2>5. SumFunction(am[k]) = SumFunction(am[j]) + am[k][j + 1]
    BY ONLY <2>1, <2>3, <2>4, SumSnoc
  <2>6. am[k][j + 1] = raw[k].amount
    BY <1>0, <2>2
  <2> QED
    BY ONLY <1>2, <2>1, <2>2, <2>5, <2>6
<1> QED
  BY <1>3, <1>4, <1>5, <1>6 DEF Running

(* The first d raw pots can be won, the others cannot. *)
LiveUpTo(raw, m, d) ==
    \A i \in 1..m : (raw[i].eligible # {}) <=> (i <= d)

(* The merge after k raw pots: those that can be won, and the rest carried. *)
MergedAt(v, raw, P, d, k) ==
    /\ Len(v.result) = Smaller(k, d)
    /\ \A i \in 1..Smaller(k, d) :
          /\ v.result[i].amount = raw[i].amount
          /\ v.result[i].eligible = raw[i].eligible
    /\ v.carry.amount = IF k <= d THEN 0 ELSE P[k] - P[d]
    /\ v.carry.eligible = {}

LEMMA MergeStep ==
    ASSUME NEW m \in Nat, NEW raw \in [1..m -> Pot], NEW P, Running(P, raw, m),
           NEW d \in 0..m, LiveUpTo(raw, m, d), NEW k \in 1..m,
           NEW v \in Merged, MergedAt(v, raw, P, d, k - 1)
    PROVE  MergedAt(MergePot(v, raw[k]), raw, P, d, k)
<1>0. PICK p, w : p = raw[k] /\ w = MergePot(v, p)
  OBVIOUS
<1>1. /\ p \in Pot /\ p.amount \in Nat
      /\ v.result \in Seq(Pot) /\ v.carry \in Pot /\ v.carry.amount \in Nat
  BY <1>0 DEF Merged, Pot
<1>2. PICK x : x = AddPot(p, v.carry)
  OBVIOUS
<1>3. x \in Pot /\ x.amount = p.amount + v.carry.amount /\ x.eligible = p.eligible
  BY <1>1, <1>2, AddPotFields
<1>4. CASE k <= d
  <2>1. Smaller(k, d) = k /\ Smaller(k - 1, d) = k - 1 /\ k - 1 <= d
    BY <1>4 DEF Smaller
  <2>2. /\ Len(v.result) = k - 1 /\ v.carry.amount = 0
        /\ \A i \in 1..(k - 1) : /\ v.result[i].amount = raw[i].amount
                                 /\ v.result[i].eligible = raw[i].eligible
    BY ONLY <2>1, MergedAt(v, raw, P, d, k - 1) DEF MergedAt
  <2>3. p.eligible # {}
    BY <1>0, <1>4 DEF LiveUpTo
  <2>4. w.result = Append(v.result, x) /\ w.carry = NoCarry
    BY <1>0, <1>1, <1>2, <2>3, MergePotFields
  <2>5. PICK j \in Nat : j = k - 1
    OBVIOUS
  <2>6. /\ Len(w.result) = j + 1 /\ w.result[j + 1] = x
        /\ \A i \in 1..j : w.result[i] = v.result[i]
    BY ONLY <1>1, <1>3, <2>2, <2>4, <2>5
  <2>7. w.carry.amount = 0 /\ w.carry.eligible = {}
    BY <2>4 DEF NoCarry
  <2>8. x.amount = raw[k].amount /\ x.eligible = raw[k].eligible
    BY ONLY <1>0, <1>1, <1>3, <2>2
  <2>9. \A i \in 1..k : /\ w.result[i].amount = raw[i].amount
                        /\ w.result[i].eligible = raw[i].eligible
    <3> SUFFICES ASSUME NEW i \in 1..k
                 PROVE  /\ w.result[i].amount = raw[i].amount
                        /\ w.result[i].eligible = raw[i].eligible
      OBVIOUS
    <3>1. CASE i = k
      BY ONLY <3>1, <2>5, <2>6, <2>8, k \in 1..m, m \in Nat
    <3>2. CASE i # k
      <4>1. i \in 1..j
        BY <3>2, <2>5
      <4> QED
        BY ONLY <4>1, <2>2, <2>5, <2>6
    <3> QED
      BY <3>1, <3>2
  <2>10. Len(w.result) = k
    BY <2>5, <2>6
  <2> QED
    BY ONLY <1>0, <1>4, <2>1, <2>7, <2>9, <2>10 DEF MergedAt
<1>5. CASE ~(k <= d)
  <2>1. Smaller(k, d) = d /\ Smaller(k - 1, d) = d
    BY <1>5 DEF Smaller
  <2>2. /\ Len(v.result) = d
        /\ \A i \in 1..d : /\ v.result[i].amount = raw[i].amount
                           /\ v.result[i].eligible = raw[i].eligible
        /\ v.carry.amount = IF k - 1 <= d THEN 0 ELSE P[k - 1] - P[d]
    BY ONLY <2>1, MergedAt(v, raw, P, d, k - 1) DEF MergedAt
  <2>3. p.eligible = {}
    BY <1>0, <1>5 DEF LiveUpTo
  <2>4. w.result = v.result /\ w.carry = x
    BY <1>0, <1>1, <1>2, <2>3, MergePotFields
  <2>5. P[k] = P[k - 1] + p.amount /\ P[k - 1] \in Nat /\ P[d] \in Nat
    BY <1>0 DEF Running
  <2>6. x.amount = P[k] - P[d]
    <3>1. CASE k - 1 <= d
      <4>1. k - 1 = d
        BY <1>5, <3>1
      <4> QED
        BY ONLY <1>1, <1>3, <2>2, <2>5, <3>1, <4>1, SMTT(30)
    <3>2. CASE ~(k - 1 <= d)
      BY ONLY <1>1, <1>3, <2>2, <2>5, <3>2, SMTT(30)
    <3> QED
      BY <3>1, <3>2
  <2> QED
    BY ONLY <1>0, <1>3, <1>5, <2>1, <2>2, <2>3, <2>4, <2>6 DEF MergedAt
<1> QED
  BY <1>4, <1>5
(* The pots calculate_side_pots returns when the first d raw pots of m can *)
(* be won: those, the last of them with everything that lies above it, or  *)
(* one pot nobody can win.                                                 *)
PotsShape(pots, raw, P, m, d) ==
    /\ d > 0 => /\ DOMAIN pots = 1..d
                /\ \A i \in 1..d : pots[i].eligible = raw[i].eligible
                /\ \A i \in 1..d :
                      pots[i].amount = IF i < d THEN raw[i].amount
                                       ELSE raw[i].amount + (P[m] - P[d])
    /\ d = 0 => IF P[m] = 0 THEN DOMAIN pots = {}
                ELSE /\ DOMAIN pots = {1}
                     /\ pots[1].amount = P[m] /\ pots[1].eligible = {}

LEMMA MergedPots ==
    ASSUME NEW m \in Nat, NEW raw \in [1..m -> Pot], NEW P, Running(P, raw, m),
           NEW d \in 0..m, LiveUpTo(raw, m, d)
    PROVE  PotsShape(MergeDeadPots(raw), raw, P, m, d)
<1>1. PICK a : /\ MergeSteps(a, raw, m)
               /\ FoldLeft(MergePot, [result |-> <<>>, carry |-> NoCarry], raw) = a[m]
  BY MergeHistory
<1>2. /\ a[0] = NothingMerged
      /\ \A k \in 1..m : a[k] = MergePot(a[k - 1], raw[k])
      /\ \A k \in 0..m : a[k] \in Merged
  BY <1>1 DEF MergeSteps
<1>3. \A k \in 0..m : MergedAt(a[k], raw, P, d, k)
  <2> DEFINE Bad == {k \in 0..m : ~MergedAt(a[k], raw, P, d, k)}
  <2> SUFFICES ASSUME Bad # {}  PROVE FALSE
    OBVIOUS
  <2>1. PICK k \in Bad : \A j \in Bad : k <= j
    <3>1. Bad \in SUBSET Nat
      OBVIOUS
    <3> HIDE DEF Bad
    <3> QED
      BY <3>1, MinNat
  <2>2. k \in 0..m /\ ~MergedAt(a[k], raw, P, d, k)
    OBVIOUS
  <2>3. k # 0
    <3>1. Smaller(0, d) = 0 /\ 0 <= d /\ 1..0 = {}
      BY DEF Smaller
    <3>2. /\ Len(NothingMerged.result) = 0 /\ NothingMerged.carry.amount = 0
          /\ NothingMerged.carry.eligible = {}
      BY DEF NothingMerged, NoCarry
    <3>3. MergedAt(NothingMerged, raw, P, d, 0)
      BY ONLY <3>1, <3>2 DEF MergedAt
    <3> QED
      BY <1>2, <2>2, <3>3
  <2>4. k \in 1..m /\ k - 1 \in 0..m /\ ~(k <= k - 1)
    BY <2>2, <2>3
  <2>5. MergedAt(a[k - 1], raw, P, d, k - 1)
    BY <2>1, <2>4
  <2> HIDE DEF Bad
  <2>6. a[k - 1] \in Merged /\ a[k] = MergePot(a[k - 1], raw[k])
    BY ONLY <1>2, <2>4
  <2>7. MergedAt(MergePot(a[k - 1], raw[k]), raw, P, d, k)
    BY <2>4, <2>5, <2>6, MergeStep
  <2> QED
    BY ONLY <2>2, <2>6, <2>7
<1>4. PICK v : v = a[m]
  OBVIOUS
<1>5. /\ v \in Merged /\ v.result \in Seq(Pot) /\ v.carry \in Pot
      /\ v.carry.amount \in Nat
  <2>1. v \in Merged
    BY <1>2, <1>4
  <2>2. v.result \in Seq(Pot) /\ v.carry \in Pot
    BY ONLY <2>1 DEF Merged
  <2>3. v.carry.amount \in Nat
    BY ONLY <2>2 DEF Pot
  <2> QED
    BY <2>1, <2>2, <2>3
<1>6. P[d] \in Nat /\ P[m] \in Nat /\ P[0] = 0
  BY DEF Running
<1>7. /\ Len(v.result) = d
      /\ \A i \in 1..d : /\ v.result[i].amount = raw[i].amount
                         /\ v.result[i].eligible = raw[i].eligible
      /\ v.carry.amount = P[m] - P[d]
      /\ v.carry.eligible = {}
  <2>1. Smaller(m, d) = d
    BY DEF Smaller
  <2>2. MergedAt(v, raw, P, d, m)
    BY <1>3, <1>4
  <2>3. v.carry.amount = P[m] - P[d]
    <3>1. CASE m <= d
      <4>1. m = d
        BY <3>1
      <4> QED
        BY ONLY <1>6, <2>2, <3>1, <4>1 DEF MergedAt
    <3>2. CASE ~(m <= d)
      BY ONLY <2>2, <3>2 DEF MergedAt
    <3> QED
      BY <3>1, <3>2
  <2> QED
    BY ONLY <2>1, <2>2, <2>3 DEF MergedAt
<1>8. PICK pots : pots = MergeDeadPots(raw)
  OBVIOUS
<1>9. pots = CASE v.carry.amount = 0 -> v.result
               [] v.carry.amount > 0 /\ Len(v.result) > 0 ->
                    [v.result EXCEPT ![Len(v.result)] = AddPot(@, v.carry)]
               [] OTHER -> <<v.carry>>
  BY ONLY <1>1, <1>4, <1>8 DEF MergeDeadPots
<1>10. DOMAIN v.result = 1..d
  BY ONLY <1>5, <1>7
<1>11. CASE v.carry.amount = 0
  <2>1. pots = v.result
    BY ONLY <1>9, <1>11
  <2>2. P[m] = P[d]
    BY ONLY <1>6, <1>7, <1>11
  <2>3. \A i \in 1..d : raw[i].amount \in Nat
    BY DEF Pot
  <2>4. ASSUME NEW i \in 1..d
        PROVE  pots[i].amount = IF i < d THEN raw[i].amount
                                ELSE raw[i].amount + (P[m] - P[d])
    BY ONLY <1>6, <1>7, <2>1, <2>2, <2>3, i \in 1..d
  <2>5. d = 0 => P[m] = 0 /\ DOMAIN pots = {}
    <3>1. 1..0 = {}
      OBVIOUS
    <3> QED
      BY ONLY <1>6, <1>10, <2>1, <2>2, <3>1
  <2> QED
    BY ONLY <1>7, <1>8, <1>10, <2>1, <2>4, <2>5 DEF PotsShape
<1>12. CASE v.carry.amount > 0 /\ d > 0
  <2>1. pots = [v.result EXCEPT ![d] = AddPot(@, v.carry)]
    <3>1. v.carry.amount # 0 /\ v.carry.amount > 0 /\ Len(v.result) > 0
      BY <1>7, <1>12
    <3> QED
      BY ONLY <1>7, <1>9, <3>1
  <2>2. d \in 1..d
    BY <1>12
  <2>3. PICK x : x = AddPot(v.result[d], v.carry)
    OBVIOUS
  <2>4. x.amount = v.result[d].amount + v.carry.amount /\ x.eligible = v.result[d].eligible
    <3>1. v.result[d] \in Pot
      BY ONLY <1>5, <1>7, <2>2
    <3> QED
      BY ONLY <1>5, <2>3, <3>1, AddPotFields
  <2>5. DOMAIN pots = 1..d /\ pots[d] = x /\ \A i \in 1..d : i # d => pots[i] = v.result[i]
    BY ONLY <1>10, <2>1, <2>2, <2>3
  <2>6. ASSUME NEW i \in 1..d
        PROVE  /\ pots[i].eligible = raw[i].eligible
               /\ pots[i].amount = IF i < d THEN raw[i].amount
                                   ELSE raw[i].amount + (P[m] - P[d])
    <3>1. CASE i = d
      BY ONLY <1>7, <2>2, <2>4, <2>5, <3>1, d \in 0..m, m \in Nat
    <3>2. CASE i # d
      <4>1. i < d
        BY <3>2
      <4> QED
        BY ONLY <1>7, <2>5, <3>2, <4>1, i \in 1..d
    <3> QED
      BY <3>1, <3>2
  <2>7. d # 0
    BY <1>12
  <2> QED
    BY ONLY <1>8, <2>5, <2>6, <2>7 DEF PotsShape
<1>13. CASE v.carry.amount > 0 /\ d = 0
  <2>1. pots = <<v.carry>>
    <3>1. v.carry.amount # 0 /\ ~(Len(v.result) > 0)
      BY <1>7, <1>13
    <3> QED
      BY ONLY <1>9, <3>1
  <2>2. DOMAIN pots = {1} /\ pots[1] = v.carry
    <3>1. 1..1 = {1}
      OBVIOUS
    <3>2. DOMAIN <<v.carry>> = 1..1 /\ <<v.carry>>[1] = v.carry
      OBVIOUS
    <3> QED
      BY ONLY <2>1, <3>1, <3>2
  <2>3. v.carry.amount = P[m] /\ P[m] # 0 /\ ~(d > 0)
    BY ONLY <1>6, <1>7, <1>13
  <2> QED
    BY ONLY <1>7, <1>8, <2>2, <2>3 DEF PotsShape
<1> QED
  <2>1. d > 0 \/ d = 0
    OBVIOUS
  <2> QED
    BY ONLY <1>5, <1>11, <1>12, <1>13, <2>1
(* What the pots hold in all, and what those open to a player hold who can *)
(* win the first e raw pots.                                               *)
LEMMA PotTotals ==
    ASSUME NEW m \in Nat, NEW raw \in [1..m -> Pot], NEW P, Running(P, raw, m),
           NEW d \in 0..m, NEW pots, PotsShape(pots, raw, P, m, d)
    PROVE  /\ SumFunction(PotAmounts(pots)) = P[m]
           /\ \A e \in 0..m : \A z :
                 (/\ d > 0 /\ e < d
                  /\ z = [i \in DOMAIN pots |-> IF i <= e THEN pots[i].amount ELSE 0])
                 => SumFunction(z) = P[e]
<1>1. /\ P \in [0..m -> Nat] /\ P[0] = 0
      /\ \A k \in 0..m : P[k] = SumFunction([i \in 1..k |-> raw[i].amount])
      /\ \A k \in 1..m : P[k] = P[k - 1] + raw[k].amount
  BY DEF Running
<1>2. \A i \in 1..m : raw[i].amount \in Nat
  BY DEF Pot
<1>3. P[d] <= P[m]
  <2> DEFINE Bad == {k \in 0..m : d <= k /\ ~(P[d] <= P[k])}
  <2>0. m \in 0..m /\ d <= m
    OBVIOUS
  <2> SUFFICES ASSUME Bad # {}  PROVE FALSE
    BY <2>0
  <2>1. PICK k \in Bad : \A j \in Bad : k <= j
    <3>1. Bad \in SUBSET Nat
      OBVIOUS
    <3> HIDE DEF Bad
    <3> QED
      BY <3>1, MinNat
  <2>2. k \in 0..m /\ d <= k /\ ~(P[d] <= P[k]) /\ P[d] \in Nat
    BY <1>1
  <2>3. k # d
    BY <2>2
  <2>4. k - 1 \in 0..m /\ d <= k - 1 /\ ~(k <= k - 1) /\ k \in 1..m
    BY <2>2, <2>3
  <2>5. P[d] <= P[k - 1]
    BY <2>1, <2>4
  <2> HIDE DEF Bad
  <2>6. P[k] = P[k - 1] + raw[k].amount /\ P[k - 1] \in Nat /\ raw[k].amount \in Nat
    BY ONLY <1>1, <1>2, <2>4
  <2> QED
    BY ONLY <2>2, <2>5, <2>6
<1>4. P[m] \in Nat /\ P[d] \in Nat
  BY <1>1
<1>5. CASE d = 0 /\ P[m] = 0
  <2>1. DOMAIN pots = {}
    BY ONLY <1>5, PotsShape(pots, raw, P, m, d) DEF PotsShape
  <2>2. PICK f : f = PotAmounts(pots)
    OBVIOUS
  <2>3. f \in [{} -> Nat] /\ \A s \in {} : f[s] = 0
    BY ONLY <2>1, <2>2 DEF PotAmounts
  <2>4. SumFunction(f) = 0
    BY ONLY <2>3, FS_EmptySet, SumFunctionZero
  <2> QED
    BY ONLY <1>5, <2>2, <2>4
<1>6. CASE d = 0 /\ P[m] # 0
  <2>1. DOMAIN pots = {1} /\ pots[1].amount = P[m]
    BY ONLY <1>6, PotsShape(pots, raw, P, m, d) DEF PotsShape
  <2>2. PICK f : f = PotAmounts(pots)
    OBVIOUS
  <2>3. f \in [{1} -> Nat] /\ f[1] = P[m]
    BY ONLY <1>4, <2>1, <2>2 DEF PotAmounts
  <2>4. SumFunction(f) = f[1]
    <3>1. IsFiniteSet({1}) /\ 1 \in {1} /\ \A s \in {1} : s # 1 => f[s] = 0
      BY FS_Singleton
    <3> QED
      BY ONLY <2>3, <3>1, SumOfOne
  <2> QED
    BY ONLY <1>6, <2>2, <2>3, <2>4
<1>7. CASE d > 0
  <2>0. /\ DOMAIN pots = 1..d
        /\ \A i \in 1..d : pots[i].amount = IF i < d THEN raw[i].amount
                                            ELSE raw[i].amount + (P[m] - P[d])
    BY ONLY <1>7, PotsShape(pots, raw, P, m, d) DEF PotsShape
  <2>1. \A i \in 1..d : pots[i].amount \in Nat
    <3> SUFFICES ASSUME NEW i \in 1..d  PROVE pots[i].amount \in Nat
      OBVIOUS
    <3>1. raw[i].amount \in Nat
      BY <1>2
    <3> QED
      BY ONLY <1>3, <1>4, <2>0, <3>1
  <2>2. SumFunction(PotAmounts(pots)) = P[m]
    <3>1. PICK f : f = PotAmounts(pots)
      OBVIOUS
    <3>2. PICK j \in Nat : j = d - 1
      BY <1>7
    <3>3. j + 1 = d /\ j \in 0..m /\ d \in 1..m /\ d \in 1..d /\ d - 1 = j
      BY <1>7, <3>2
    <3>4. PICK r : r = [i \in 1..j |-> raw[i].amount]
      OBVIOUS
    <3>5. f \in [1..(j + 1) -> Nat] /\ f[j + 1] = raw[d].amount + (P[m] - P[d])
      <4>1. f = [i \in 1..d |-> pots[i].amount]
        BY ONLY <2>0, <3>1 DEF PotAmounts
      <4>2. ~(d < d)
        OBVIOUS
      <4> QED
        BY ONLY <2>0, <2>1, <3>3, <4>1, <4>2
    <3>6. r \in [1..j -> Nat] /\ \A i \in 1..j : r[i] = f[i]
      <4>1. ASSUME NEW i \in 1..j
            PROVE  raw[i].amount \in Nat /\ raw[i].amount = f[i]
        <5>1. i \in 1..d /\ i < d /\ i \in 1..m
          BY <3>3
        <5> QED
          BY ONLY <1>2, <2>0, <3>1, <5>1 DEF PotAmounts
      <4> QED
        BY ONLY <3>4, <4>1
    <3>7. SumFunction(f) = SumFunction(r) + f[j + 1]
      BY ONLY <3>2, <3>5, <3>6, SumSnoc
    <3>8. SumFunction(r) = P[j] /\ P[j] \in Nat /\ P[d] = P[j] + raw[d].amount
      BY ONLY <1>1, <3>3, <3>4
    <3>9. raw[d].amount \in Nat
      BY <1>2, <3>3
    <3> QED
      BY ONLY <1>4, <3>1, <3>5, <3>7, <3>8, <3>9, SMTT(30)
  <2>3. ASSUME NEW e \in 0..m, e < d,
               NEW z, z = [i \in DOMAIN pots |-> IF i <= e THEN pots[i].amount ELSE 0]
        PROVE  SumFunction(z) = P[e]
    <3>1. PICK f : f = [i \in 1..d |-> pots[i].amount]
      OBVIOUS
    <3>2. f \in [1..d -> Nat] /\ z \in [1..d -> Nat]
      BY ONLY <2>0, <2>1, <2>3, <3>1
    <3>3. \A i \in 1..d : z[i] = IF i <= e THEN f[i] ELSE 0
      BY ONLY <2>0, <2>3, <3>1
    <3>a. PICK r : r = [i \in 1..e |-> f[i]]
      OBVIOUS
    <3>4. SumFunction(z) = SumFunction(r)
      <4>1. d \in Nat /\ e \in 0..d
        BY <2>3
      <4>2. FirstOnly(z, r, f, d, e)
        BY ONLY <3>a, <3>2, <3>3, <4>1 DEF FirstOnly
      <4> QED
        BY ONLY <4>2, PrefixSum
    <3>5. r = [i \in 1..e |-> raw[i].amount]
      <4>1. ASSUME NEW i \in 1..e  PROVE f[i] = raw[i].amount
        <5>1. i \in 1..d /\ i < d
          BY <2>3
        <5> QED
          BY ONLY <2>0, <3>1, <5>1
      <4> QED
        BY ONLY <3>a, <4>1
    <3> QED
      BY ONLY <1>1, <3>4, <3>5, e \in 0..m
  <2> QED
    BY <2>2, <2>3
<1>8. d = 0 \/ d > 0
  OBVIOUS
<1>9. SumFunction(PotAmounts(pots)) = P[m]
  <2>1. CASE d = 0
    BY ONLY <1>5, <1>6, <2>1
  <2>2. CASE d > 0
    BY ONLY <1>7, <2>2
  <2> QED
    BY <1>8, <2>1, <2>2
<1> QED
  BY ONLY <1>7, <1>9
(* The two facts about sums that the layers need, over the seats. *)
Joins(c, a, b) ==
    /\ a \in [Seats -> Nat] /\ b \in [Seats -> Nat] /\ c \in [Seats -> Nat]
    /\ \A s \in Seats : c[s] = a[s] + b[s]

LEMMA SeatsPlus ==
    ASSUME NEW c, NEW a, NEW b, Joins(c, a, b)
    PROVE  SumFunction(c) = SumFunction(a) + SumFunction(b)
<1>1. PICK S : S = Seats
  OBVIOUS
<1>2. IsFiniteSet(S)
  BY <1>1, SeatsAssumption
<1>3. a \in [S -> Nat] /\ b \in [S -> Nat] /\ c \in [S -> Nat]
  BY <1>1 DEF Joins
<1>4. \A s \in S : c[s] = a[s] + b[s]
  BY <1>1 DEF Joins
<1> QED
  BY ONLY <1>2, <1>3, <1>4, SumFunctionPlus

Evenly(f, T, k) ==
    /\ T \in SUBSET Seats /\ k \in Nat
    /\ f \in [Seats -> Nat] /\ \A s \in Seats : f[s] = IF s \in T THEN k ELSE 0

LEMMA SeatsEvenly ==
    ASSUME NEW f, NEW T, NEW k, Evenly(f, T, k)
    PROVE  SumFunction(f) = k * Cardinality(T)
<1>1. PICK S : S = Seats
  OBVIOUS
<1>2. IsFiniteSet(S)
  BY <1>1, SeatsAssumption
<1>3. T \in SUBSET S /\ k \in Nat /\ f \in [S -> Nat]
  BY <1>1 DEF Evenly
<1>4. \A s \in S : f[s] = IF s \in T THEN k ELSE 0
  BY <1>1 DEF Evenly
<1> QED
  BY ONLY <1>2, <1>3, <1>4, SumOnSubset

(* L lists the levels the commitments c reach, lowest first, zero in front. *)
LevelsOf(L, n, c) ==
    /\ n \in Nat /\ n > 0 /\ L \in [1..n -> Nat] /\ L[1] = 0
    /\ \A i, j \in 1..n : i < j => L[i] < L[j]
    /\ \A s \in Seats : \E i \in 1..n : c[s] = L[i]

LEMMA LevelsListed ==
    ASSUME NEW h \in HandState, NEW L, L = CommitmentLevels(h)
    PROVE  LevelsOf(L, Len(L), h.committed_this_hand)
<1>0. PICK c \in [Seats -> Nat] : c = h.committed_this_hand
  BY HandColumns
<1>1. PICK S : S = {0} \cup {c[s] : s \in Seats}
  OBVIOUS
<1>2. S \in SUBSET Nat /\ 0 \in S /\ \A s \in Seats : c[s] \in S
  BY <1>1
<1>3. IsFiniteSet(S)
  <2>1. PICK R : R = {c[s] : s \in Seats}
    OBVIOUS
  <2>2. IsFiniteSet(R)
    <3>1. c \in Surjection(Seats, R)
      BY <2>1 DEF Surjection
    <3> QED
      BY <3>1, SeatsAssumption, FS_Surjection
  <2>3. IsFiniteSet({0})
    BY FS_Singleton
  <2>4. IsFiniteSet({0} \cup R)
    BY ONLY <2>2, <2>3, FS_Union
  <2> QED
    BY ONLY <1>1, <2>1, <2>4
<1>4. PICK n : n = Cardinality(S)
  OBVIOUS
<1>5. L = InOrder(S)
  BY <1>0, <1>1 DEF CommitmentLevels
<1>6. /\ n \in Nat /\ L \in [1..n -> S]
      /\ \A i, j \in 1..n : i < j => L[i] < L[j]
      /\ \A x \in S : \E i \in 1..n : L[i] = x
  BY ONLY <1>2, <1>3, <1>4, <1>5, InOrderLists
<1>7. Len(L) = n
  BY ONLY <1>6
<1>8. L \in [1..n -> Nat]
  BY ONLY <1>2, <1>6
<1>9. PICK i \in 1..n : L[i] = 0
  BY ONLY <1>2, <1>6
<1>10. n > 0 /\ 1 \in 1..n
  BY <1>6, <1>9
<1>11. L[1] = 0
  <2>1. CASE i = 1
    BY <1>9, <2>1
  <2>2. CASE i # 1
    <3>1. 1 < i
      BY <2>2
    <3>2. L[1] < L[i] /\ L[1] \in Nat
      BY ONLY <1>6, <1>8, <1>10, <3>1, i \in 1..n
    <3> QED
      BY ONLY <1>9, <3>2
  <2> QED
    BY <2>1, <2>2
<1>12. \A s \in Seats : \E j \in 1..n : c[s] = L[j]
  BY ONLY <1>2, <1>6
<1> QED
  BY ONLY <1>0, <1>6, <1>7, <1>8, <1>10, <1>11, <1>12 DEF LevelsOf

(* raw holds, between neighbouring levels, a slice of every commitment. *)
LayersOf(raw, L, m, c) ==
    \A i \in 1..m :
       raw[i].amount = (L[i + 1] - L[i]) * Cardinality({s \in Seats : c[s] > L[i]})

(* low[k] is the part of every commitment up to the level above layer k. *)
LowerParts(low, c, L, m) ==
    low = [k \in 0..m |-> [q \in Seats |-> Smaller(c[q], L[k + 1])]]

(* The first e layers hold every commitment up to the level above them. *)
LEMMA LevelSums ==
    ASSUME NEW m \in Nat, NEW c \in [Seats -> Nat], NEW L, LevelsOf(L, m + 1, c),
           NEW raw \in [1..m -> Pot], LayersOf(raw, L, m, c),
           NEW P, Running(P, raw, m), NEW e \in 0..m,
           NEW low, LowerParts(low, c, L, m)
    PROVE  P[e] = SumFunction(low[e])
<1>1. /\ L \in [1..(m + 1) -> Nat] /\ L[1] = 0
      /\ \A i, j \in 1..(m + 1) : i < j => L[i] < L[j]
      /\ \A s \in Seats : \E i \in 1..(m + 1) : c[s] = L[i]
  BY DEF LevelsOf
<1>2. /\ P \in [0..m -> Nat] /\ P[0] = 0
      /\ \A k \in 1..m : P[k] = P[k - 1] + raw[k].amount
  BY DEF Running
<1>3. ASSUME NEW k \in 0..m
      PROVE  /\ L[k + 1] \in Nat /\ low[k] \in [Seats -> Nat]
             /\ \A q \in Seats : low[k][q] = Smaller(c[q], L[k + 1])
  <2>1. k + 1 \in 1..(m + 1)
    OBVIOUS
  <2>2. L[k + 1] \in Nat
    BY ONLY <1>1, <2>1
  <2>3. low[k] = [q \in Seats |-> Smaller(c[q], L[k + 1])]
    BY DEF LowerParts
  <2>4. \A q \in Seats : Smaller(c[q], L[k + 1]) \in Nat
    BY <2>2 DEF Smaller
  <2> QED
    BY ONLY <2>2, <2>3, <2>4
<1> DEFINE Bad == {k \in 0..m : P[k] # SumFunction(low[k])}
<1> SUFFICES ASSUME Bad # {}  PROVE FALSE
  OBVIOUS
<1>4. PICK k \in Bad : \A j \in Bad : k <= j
  <2>1. Bad \in SUBSET Nat
    OBVIOUS
  <2> HIDE DEF Bad
  <2> QED
    BY <2>1, MinNat
<1>5. k \in 0..m /\ P[k] # SumFunction(low[k])
  OBVIOUS
<1>6. k # 0
  <2> SUFFICES ASSUME k = 0  PROVE FALSE
    OBVIOUS
  <2>1. 0 \in 0..m /\ 0 + 1 = 1
    OBVIOUS
  <2>2. /\ low[0] \in [Seats -> Nat]
        /\ \A q \in Seats : low[0][q] = Smaller(c[q], 0)
    BY ONLY <1>1, <1>3, <2>1
  <2>3. \A q \in Seats : low[0][q] = 0
    BY <2>2 DEF Smaller
  <2>4. SumFunction(low[0]) = 0
    BY ONLY <2>2, <2>3, SeatsAssumption, SumFunctionZero
  <2> QED
    BY <1>2, <1>5, <2>4
<1>7. k \in 1..m /\ k - 1 \in 0..m /\ ~(k <= k - 1)
  BY <1>5, <1>6
<1>8. P[k - 1] = SumFunction(low[k - 1])
  BY <1>4, <1>7
<1> HIDE DEF Bad
<1>9. PICK T \in SUBSET Seats : T = {s \in Seats : c[s] > L[k]}
  OBVIOUS
<1>10. k \in 1..(m + 1) /\ k + 1 \in 1..(m + 1) /\ k < k + 1 /\ (k - 1) + 1 = k
  BY <1>7
<1>11. L[k] < L[k + 1] /\ L[k] \in Nat /\ L[k + 1] \in Nat
  BY ONLY <1>1, <1>10
<1>12. PICK w \in Nat : w = L[k + 1] - L[k]
  BY <1>11
<1>13. PICK f : f = [s \in Seats |-> IF s \in T THEN w ELSE 0]
  OBVIOUS
<1>14. f \in [Seats -> Nat] /\ \A s \in Seats : f[s] = IF s \in T THEN w ELSE 0
  BY ONLY <1>12, <1>13
<1>15. SumFunction(f) = w * Cardinality(T)
  <2>1. Evenly(f, T, w)
    BY ONLY <1>12, <1>14, T \in SUBSET Seats, w \in Nat DEF Evenly
  <2> QED
    BY ONLY <2>1, SeatsEvenly
<1>16. raw[k].amount = w * Cardinality(T)
  BY <1>7, <1>9, <1>12 DEF LayersOf
<1>17. ASSUME NEW s \in Seats
       PROVE  low[k][s] = low[k - 1][s] + f[s]
  <2>1. low[k][s] = Smaller(c[s], L[k + 1]) /\ low[k - 1][s] = Smaller(c[s], L[k])
    BY ONLY <1>3, <1>5, <1>7, <1>10, s \in Seats
  <2>2. PICK i \in 1..(m + 1) : c[s] = L[i]
    BY <1>1
  <2>3. c[s] > L[k] => c[s] >= L[k + 1]
    <3> SUFFICES ASSUME c[s] > L[k]  PROVE c[s] >= L[k + 1]
      OBVIOUS
    <3>1. ~(i < k) /\ i # k
      <4>1. i < k => L[i] < L[k]
        BY ONLY <1>1, <1>10, i \in 1..(m + 1)
      <4>2. L[i] \in Nat
        BY <1>1
      <4> QED
        BY <1>11, <2>2, <4>1, <4>2
    <3>2. i = k + 1 \/ k + 1 < i
      BY <3>1, <1>7
    <3>3. k + 1 < i => L[k + 1] < L[i]
      BY ONLY <1>1, <1>10, i \in 1..(m + 1)
    <3>4. L[i] \in Nat
      BY <1>1
    <3> QED
      BY ONLY <1>11, <2>2, <3>2, <3>3, <3>4
  <2>4. c[s] \in Nat /\ (s \in T <=> c[s] > L[k])
    BY <1>9
  <2>5. CASE c[s] > L[k]
    <3>1. f[s] = w /\ c[s] >= L[k + 1]
      BY <1>14, <2>3, <2>4, <2>5
    <3> QED
      BY ONLY <1>11, <1>12, <2>1, <2>4, <2>5, <3>1 DEF Smaller
  <2>6. CASE ~(c[s] > L[k])
    <3>1. f[s] = 0
      BY <1>14, <2>4, <2>6
    <3> QED
      BY ONLY <1>11, <2>1, <2>4, <2>6, <3>1 DEF Smaller
  <2> QED
    BY <2>5, <2>6
<1>18. low[k] \in [Seats -> Nat] /\ low[k - 1] \in [Seats -> Nat]
  BY ONLY <1>3, <1>5, <1>7
<1>19. SumFunction(low[k]) = SumFunction(low[k - 1]) + SumFunction(f)
  <2>1. PICK u, v : u = low[k] /\ v = low[k - 1]
    OBVIOUS
  <2>2. u \in [Seats -> Nat] /\ v \in [Seats -> Nat] /\ f \in [Seats -> Nat]
    BY ONLY <1>14, <1>18, <2>1
  <2>3. \A s \in Seats : u[s] = v[s] + f[s]
    BY ONLY <1>17, <2>1
  <2>4. Joins(u, v, f)
    BY ONLY <2>2, <2>3 DEF Joins
  <2>5. SumFunction(u) = SumFunction(v) + SumFunction(f)
    BY ONLY <2>4, SeatsPlus
  <2> QED
    BY ONLY <2>1, <2>5
<1> QED
  BY <1>2, <1>5, <1>7, <1>8, <1>15, <1>16, <1>19
(* How the side pots of a hand come about. *)
PotsBuilt(h, c, pots, m, L, raw, P, d) ==
    /\ m \in Nat /\ d \in 0..m
    /\ LevelsOf(L, m + 1, c) /\ LayersOf(raw, L, m, c)
    /\ raw = RawPots(h) /\ raw \in [1..m -> Pot] /\ Running(P, raw, m)
    /\ PotsShape(pots, raw, P, m, d)
    /\ \A i \in 1..m : raw[i].eligible = {s \in NotFolded(h) : c[s] > L[i]}
    /\ \A s \in NotFolded(h) : c[s] <= L[d + 1]
    /\ d > 0 => \E s \in NotFolded(h) : c[s] = L[d + 1]

(* A seat of S with the largest commitment of all in S. *)
LEMMA LargestCommitment ==
    ASSUME NEW S \in SUBSET Seats, S # {}, NEW c \in [Seats -> Nat]
    PROVE  \E s \in S : \A q \in S : c[q] <= c[s]
<1>1. PICK R : R = {c[s] : s \in S}
  OBVIOUS
<1>2. R \in SUBSET Nat /\ R # {}
  BY <1>1
<1>3. IsFiniteSet(R)
  <2>0. PICK f : f = [s \in S |-> c[s]]
    OBVIOUS
  <2>1. f \in Surjection(S, R)
    BY <1>1, <2>0 DEF Surjection
  <2>2. IsFiniteSet(S)
    BY SeatsAssumption, FS_Subset
  <2> QED
    BY <2>1, <2>2, FS_Surjection
<1>4. Max(R) \in R /\ \A y \in R : Max(R) >= y
  BY ONLY <1>2, <1>3, MaxNat
<1>5. PICK s \in S : Max(R) = c[s]
  BY ONLY <1>1, <1>4
<1> QED
  BY <1>1, <1>4, <1>5

LEMMA SidePotsBuilt ==
    ASSUME NEW h \in HandState, NEW c, c = h.committed_this_hand,
           NEW pots, pots = CalculateSidePots(h)
    PROVE  \E m, L, raw, P, d : PotsBuilt(h, c, pots, m, L, raw, P, d)
<1>0. c \in [Seats -> Nat] /\ NotFolded(h) \in SUBSET Seats
  BY HandColumns, CanActSubset
<1>1. PICK L : L = CommitmentLevels(h)
  OBVIOUS
<1>2. LevelsOf(L, Len(L), c)
  BY <1>1, LevelsListed
<1>3. PICK m \in Nat : m = Len(L) - 1
  <2>1. PICK n : n = Len(L)
    OBVIOUS
  <2>2. n \in Nat /\ n > 0
    BY ONLY <1>2, <2>1 DEF LevelsOf
  <2>3. n - 1 \in Nat
    BY ONLY <2>2
  <2> QED
    BY ONLY <2>1, <2>3
<1>4. LevelsOf(L, m + 1, c)
  <2>1. Len(L) \in Nat
    BY <1>2 DEF LevelsOf
  <2>2. Len(L) = m + 1
    BY <1>3, <2>1
  <2> QED
    BY ONLY <1>2, <2>2
<1>5. /\ L \in [1..(m + 1) -> Nat] /\ L[1] = 0
      /\ \A i, j \in 1..(m + 1) : i < j => L[i] < L[j]
      /\ \A s \in Seats : \E i \in 1..(m + 1) : c[s] = L[i]
  BY ONLY <1>4 DEF LevelsOf
<1>6. PICK raw : raw = RawPots(h)
  OBVIOUS
<1>7. raw = [i \in 1..m |-> RawPot(h, L[i], L[i + 1])]
  BY ONLY <1>1, <1>3, <1>6 DEF RawPots
<1>8. ASSUME NEW i \in 1..m
      PROVE  /\ raw[i] \in Pot
             /\ raw[i].amount = (L[i + 1] - L[i]) * Cardinality({s \in Seats : c[s] > L[i]})
             /\ raw[i].eligible = {s \in NotFolded(h) : c[s] > L[i]}
  <2>1. i \in 1..(m + 1) /\ i + 1 \in 1..(m + 1) /\ i < i + 1
    OBVIOUS
  <2>2. L[i] \in Nat /\ L[i + 1] \in Nat /\ L[i] < L[i + 1]
    BY ONLY <1>5, <2>1
  <2>3. PICK T : T = {s \in Seats : c[s] > L[i]}
    OBVIOUS
  <2>4. T \in SUBSET Seats
    BY <2>3
  <2>5. Cardinality(T) \in Nat
    <3>1. IsFiniteSet(T)
      BY <2>4, SeatsAssumption, FS_Subset
    <3> QED
      BY ONLY <3>1, FS_CardinalityType
  <2>6. raw[i] = RawPot(h, L[i], L[i + 1])
    BY ONLY <1>7, i \in 1..m
  <2>7. raw[i] = [amount |-> (L[i + 1] - L[i]) * Cardinality(T),
                  contributors |-> T, eligible |-> T \cap NotFolded(h)]
    BY ONLY <2>3, <2>6, c = h.committed_this_hand DEF RawPot
  <2>8. PICK a \in Nat : a = (L[i + 1] - L[i]) * Cardinality(T)
    <3>1. PICK x \in Nat, y \in Nat : x = L[i + 1] - L[i] /\ y = Cardinality(T)
      BY <2>2, <2>5
    <3>2. x * y \in Nat
      OBVIOUS
    <3> QED
      BY <3>1, <3>2
  <2>9. T \cap NotFolded(h) = {s \in NotFolded(h) : c[s] > L[i]}
    BY <1>0, <2>3
  <2>10. raw[i].amount = a /\ raw[i].eligible = T \cap NotFolded(h)
    BY ONLY <2>7, <2>8
  <2>11. raw[i] \in Pot
    BY ONLY <2>4, <2>7, <2>8 DEF Pot
  <2> QED
    BY ONLY <2>3, <2>8, <2>9, <2>10, <2>11
<1>9. raw \in [1..m -> Pot] /\ LayersOf(raw, L, m, c)
  BY ONLY <1>7, <1>8 DEF LayersOf
<1>10. PICK P : Running(P, raw, m)
  BY <1>9, RunningExists
<1>11. PICK d \in 0..m : /\ \A s \in NotFolded(h) : c[s] <= L[d + 1]
                         /\ d > 0 => \E s \in NotFolded(h) : c[s] = L[d + 1]
  <2>1. CASE NotFolded(h) = {}
    <3>1. 0 \in 0..m /\ ~(0 > 0)
      OBVIOUS
    <3> QED
      BY ONLY <2>1, <3>1
  <2>2. CASE NotFolded(h) # {}
    <3>1. PICK s \in NotFolded(h) : \A q \in NotFolded(h) : c[q] <= c[s]
      BY ONLY <1>0, <2>2, LargestCommitment
    <3>2. PICK j \in 1..(m + 1) : c[s] = L[j]
      BY ONLY <1>0, <1>5, <3>1
    <3>3. PICK d \in 0..m : j = d + 1
      <4>1. j - 1 \in 0..m /\ j = (j - 1) + 1
        OBVIOUS
      <4> QED
        BY ONLY <4>1
    <3> QED
      BY ONLY <3>1, <3>2, <3>3
  <2> QED
    BY <2>1, <2>2
<1>12. LiveUpTo(raw, m, d)
  <2>1. ASSUME NEW i \in 1..m, i <= d  PROVE raw[i].eligible # {}
    <3>1. i \in 1..(m + 1) /\ d + 1 \in 1..(m + 1) /\ i < d + 1 /\ d > 0
      BY <2>1
    <3>2. L[i] < L[d + 1] /\ L[i] \in Nat /\ L[d + 1] \in Nat
      BY ONLY <1>5, <3>1
    <3>3. PICK s \in NotFolded(h) : c[s] = L[d + 1]
      BY ONLY <1>11, <3>1
    <3>4. c[s] > L[i]
      BY ONLY <3>2, <3>3
    <3> QED
      BY ONLY <1>8, <3>4, i \in 1..m, s \in NotFolded(h)
  <2>2. ASSUME NEW i \in 1..m, ~(i <= d)  PROVE raw[i].eligible = {}
    <3>1. i \in 1..(m + 1) /\ d + 1 \in 1..(m + 1) /\ (d + 1 < i \/ d + 1 = i)
      BY <2>2
    <3>2. L[d + 1] <= L[i] /\ L[i] \in Nat /\ L[d + 1] \in Nat
      BY ONLY <1>5, <3>1
    <3>3. \A s \in NotFolded(h) : ~(c[s] > L[i])
      <4> SUFFICES ASSUME NEW s \in NotFolded(h)  PROVE ~(c[s] > L[i])
        OBVIOUS
      <4>1. c[s] \in Nat /\ c[s] <= L[d + 1]
        BY <1>0, <1>11
      <4> QED
        BY ONLY <3>2, <4>1
    <3> QED
      BY ONLY <1>8, <3>3, i \in 1..m
  <2> QED
    BY ONLY <2>1, <2>2 DEF LiveUpTo
<1>13. PotsShape(pots, raw, P, m, d)
  <2>1. pots = MergeDeadPots(raw)
    BY ONLY <1>6, pots = CalculateSidePots(h) DEF CalculateSidePots
  <2>2. PotsShape(MergeDeadPots(raw), raw, P, m, d)
    BY ONLY <1>9, <1>10, <1>12, m \in Nat, d \in 0..m, MergedPots
  <2> QED
    BY ONLY <2>1, <2>2
<1>14. \A i \in 1..m : raw[i].eligible = {s \in NotFolded(h) : c[s] > L[i]}
  BY ONLY <1>8
<1>15. PotsBuilt(h, c, pots, m, L, raw, P, d)
  BY ONLY <1>4, <1>6, <1>9, <1>10, <1>11, <1>13, <1>14, m \in Nat DEF PotsBuilt
<1> QED
  BY <1>15

(* The side pots hold every chip committed. *)
THEOREM SidePotsHoldAll ==
    ASSUME NEW h \in HandState
    PROVE  SumFunction(PotAmounts(CalculateSidePots(h))) = SumFunction(h.committed_this_hand)
<1>0. PICK c, pots : c = h.committed_this_hand /\ pots = CalculateSidePots(h)
  OBVIOUS
<1>1. PICK m, L, raw, P, d : PotsBuilt(h, c, pots, m, L, raw, P, d)
  BY ONLY <1>0, h \in HandState, SidePotsBuilt
<1>2. /\ m \in Nat /\ d \in 0..m
      /\ LevelsOf(L, m + 1, c) /\ LayersOf(raw, L, m, c)
      /\ raw \in [1..m -> Pot] /\ Running(P, raw, m)
      /\ PotsShape(pots, raw, P, m, d)
  BY ONLY <1>1 DEF PotsBuilt
<1>3. SumFunction(PotAmounts(pots)) = P[m]
  BY ONLY <1>2, PotTotals
<1>4. PICK low : low = [k \in 0..m |-> [q \in Seats |-> Smaller(c[q], L[k + 1])]]
  OBVIOUS
<1>5. c \in [Seats -> Nat]
  BY <1>0, HandColumns
<1>6. m \in 0..m
  BY <1>2
<1>7. P[m] = SumFunction(low[m])
  <2>1. LowerParts(low, c, L, m)
    BY ONLY <1>4 DEF LowerParts
  <2> QED
    BY ONLY <1>2, <1>5, <1>6, <2>1, LevelSums
<1>8. low[m] = c
  <2>1. low[m] = [q \in Seats |-> Smaller(c[q], L[m + 1])]
    BY ONLY <1>4, <1>6
  <2>2. ASSUME NEW q \in Seats  PROVE Smaller(c[q], L[m + 1]) = c[q]
    <3>1. /\ L \in [1..(m + 1) -> Nat]
          /\ \A i, j \in 1..(m + 1) : i < j => L[i] < L[j]
          /\ \A s \in Seats : \E i \in 1..(m + 1) : c[s] = L[i]
      BY ONLY <1>2 DEF LevelsOf
    <3>2. PICK i \in 1..(m + 1) : c[q] = L[i]
      BY ONLY <3>1, q \in Seats
    <3>3. m + 1 \in 1..(m + 1) /\ (i < m + 1 \/ i = m + 1)
      BY <1>2
    <3>4. L[i] <= L[m + 1] /\ L[i] \in Nat /\ L[m + 1] \in Nat
      BY ONLY <3>1, <3>3, i \in 1..(m + 1)
    <3> QED
      BY ONLY <3>2, <3>4 DEF Smaller
  <2> QED
    BY ONLY <1>5, <2>1, <2>2
<1> QED
  BY ONLY <1>0, <1>3, <1>7, <1>8
(* What the pots open to seat s hold. *)
OpenTo(pots, s) ==
    SumFunction([i \in DOMAIN pots |-> IF s \in pots[i].eligible THEN pots[i].amount ELSE 0])

(* Once a contender has chips in the pot, every side pot can be won, and   *)
(* those open to a contender hold what he may win: the whole pot for one   *)
(* whom no contender exceeds, and for the others up to their own           *)
(* commitment from every player.                                           *)
THEOREM SidePotsShared ==
    ASSUME NEW h \in HandState, NEW c, c = h.committed_this_hand,
           \E s \in NotFolded(h) : c[s] > 0,
           NEW pots, pots = CalculateSidePots(h)
    PROVE  /\ \A i \in DOMAIN pots : pots[i].eligible # {}
           /\ \A s \in NotFolded(h) :
                 OpenTo(pots, s)
                    = IF \A q \in NotFolded(h) : c[q] <= c[s] THEN SumFunction(c)
                      ELSE SumFunction([q \in Seats |-> Smaller(c[q], c[s])])
<1>0. c \in [Seats -> Nat] /\ NotFolded(h) \in SUBSET Seats
  BY HandColumns, CanActSubset
<1>1. PICK m, L, raw, P, d : PotsBuilt(h, c, pots, m, L, raw, P, d)
  BY SidePotsBuilt
<1>2. /\ m \in Nat /\ d \in 0..m
      /\ LevelsOf(L, m + 1, c) /\ LayersOf(raw, L, m, c)
      /\ raw \in [1..m -> Pot] /\ Running(P, raw, m)
      /\ PotsShape(pots, raw, P, m, d)
      /\ \A i \in 1..m : raw[i].eligible = {s \in NotFolded(h) : c[s] > L[i]}
      /\ \A s \in NotFolded(h) : c[s] <= L[d + 1]
      /\ d > 0 => \E s \in NotFolded(h) : c[s] = L[d + 1]
  BY ONLY <1>1 DEF PotsBuilt
<1>3. /\ L \in [1..(m + 1) -> Nat] /\ L[1] = 0
      /\ \A i, j \in 1..(m + 1) : i < j => L[i] < L[j]
      /\ \A s \in Seats : \E i \in 1..(m + 1) : c[s] = L[i]
  BY ONLY <1>2 DEF LevelsOf
<1>4. d > 0
  <2>1. PICK s \in NotFolded(h) : c[s] > 0
    OBVIOUS
  <2>2. c[s] <= L[d + 1] /\ c[s] \in Nat
    BY <1>0, <1>2
  <2>3. 0 + 1 = 1
    OBVIOUS
  <2>4. d # 0
    BY ONLY <1>3, <2>1, <2>2, <2>3
  <2> QED
    BY ONLY <1>2, <2>4
<1>5. DOMAIN pots = 1..d /\ \A i \in 1..d : pots[i].eligible = raw[i].eligible
  BY ONLY <1>2, <1>4 DEF PotsShape
<1>6. ASSUME NEW i \in 1..d, NEW s \in NotFolded(h), NEW j \in 1..(m + 1), c[s] = L[j]
      PROVE  s \in pots[i].eligible <=> i < j
  <2>1. i \in 1..m /\ i \in 1..(m + 1)
    BY <1>2
  <2>2. pots[i].eligible = {q \in NotFolded(h) : c[q] > L[i]}
    BY ONLY <1>2, <1>5, <2>1, i \in 1..d
  <2>3. s \in pots[i].eligible <=> c[s] > L[i]
    BY ONLY <2>2, s \in NotFolded(h)
  <2>4. L[i] \in Nat /\ L[j] \in Nat
    BY ONLY <1>3, <2>1, j \in 1..(m + 1)
  <2>5. (i < j => L[i] < L[j]) /\ (j < i => L[j] < L[i])
    BY ONLY <1>3, <2>1, j \in 1..(m + 1)
  <2>6. /\ i < j \/ i = j \/ j < i
        /\ i < j => i # j /\ ~(j < i)
    BY <1>2
  <2> QED
    BY ONLY <1>6, <2>3, <2>4, <2>5, <2>6
<1>7. ASSUME NEW i \in DOMAIN pots  PROVE pots[i].eligible # {}
  <2>1. PICK s \in NotFolded(h) : c[s] = L[d + 1]
    BY ONLY <1>2, <1>4
  <2>2. d + 1 \in 1..(m + 1) /\ i \in 1..d /\ i < d + 1
    BY <1>2, <1>5
  <2>3. s \in pots[i].eligible
    BY ONLY <1>6, <2>1, <2>2
  <2> QED
    BY <2>3
<1>8. ASSUME NEW s \in NotFolded(h)
      PROVE  OpenTo(pots, s)
                = IF \A q \in NotFolded(h) : c[q] <= c[s] THEN SumFunction(c)
                  ELSE SumFunction([q \in Seats |-> Smaller(c[q], c[s])])
  <2>0. s \in Seats
    BY <1>0
  <2>1. PICK j \in 1..(m + 1) : c[s] = L[j]
    BY ONLY <1>3, <2>0
  <2>2. PICK e \in 0..m : j = e + 1
    <3>1. j - 1 \in 0..m /\ j = (j - 1) + 1
      BY <1>2
    <3> QED
      BY ONLY <3>1
  <2>3. PICK z : z = [i \in DOMAIN pots |-> IF i <= e THEN pots[i].amount ELSE 0]
    OBVIOUS
  <2>4. ASSUME NEW i \in DOMAIN pots  PROVE s \in pots[i].eligible <=> i <= e
    <3>1. i \in 1..d
      BY <1>5
    <3>2. s \in pots[i].eligible <=> i < j
      BY ONLY <1>6, <2>1, <3>1, s \in NotFolded(h)
    <3>3. i < j <=> i <= e
      BY <1>2, <2>2, <3>1
    <3> QED
      BY ONLY <3>2, <3>3
  <2>5. [i \in DOMAIN pots |-> IF s \in pots[i].eligible THEN pots[i].amount ELSE 0] = z
    BY ONLY <2>3, <2>4
  <2>6. OpenTo(pots, s) = SumFunction(z)
    BY ONLY <2>5 DEF OpenTo
  <2>7. e <= d
    <3>1. c[s] <= L[d + 1]
      BY ONLY <1>2, s \in NotFolded(h)
    <3>2. d + 1 \in 1..(m + 1)
      BY <1>2
    <3>3. d + 1 < j => L[d + 1] < L[j]
      BY ONLY <1>3, <3>2, j \in 1..(m + 1)
    <3>4. L[d + 1] \in Nat /\ L[j] \in Nat
      BY ONLY <1>3, <3>2, j \in 1..(m + 1)
    <3>5. ~(d + 1 < j)
      BY ONLY <2>1, <3>1, <3>3, <3>4
    <3> QED
      BY ONLY <1>2, <2>2, <3>5
  <2>8. CASE e = d
    <3>1. \A q \in NotFolded(h) : c[q] <= c[s]
      BY ONLY <1>2, <2>1, <2>2, <2>8
    <3>2. z = PotAmounts(pots)
      <4>1. \A i \in DOMAIN pots : i <= e
        BY ONLY <1>2, <1>5, <2>8
      <4> QED
        BY ONLY <2>3, <4>1 DEF PotAmounts
    <3>3. SumFunction(PotAmounts(pots)) = SumFunction(c)
      BY SidePotsHoldAll
    <3> QED
      BY ONLY <2>6, <3>1, <3>2, <3>3
  <2>9. CASE e # d
    <3>1. e < d
      BY ONLY <1>2, <2>7, <2>9
    <3>2. ~\A q \in NotFolded(h) : c[q] <= c[s]
      <4>1. PICK q \in NotFolded(h) : c[q] = L[d + 1]
        BY ONLY <1>2, <1>4
      <4>2. j \in 1..(m + 1) /\ d + 1 \in 1..(m + 1) /\ j < d + 1
        BY <1>2, <2>2, <3>1
      <4>3. L[j] < L[d + 1] /\ L[j] \in Nat /\ L[d + 1] \in Nat
        BY ONLY <1>3, <4>2
      <4> QED
        BY ONLY <2>1, <4>1, <4>3, q \in NotFolded(h)
    <3>3. SumFunction(z) = P[e]
      <4>1. \A k \in 0..m : \A y :
               (/\ d > 0 /\ k < d
                /\ y = [i \in DOMAIN pots |-> IF i <= k THEN pots[i].amount ELSE 0])
               => SumFunction(y) = P[k]
        BY ONLY <1>2, PotTotals
      <4> QED
        BY ONLY <1>4, <2>3, <3>1, <4>1, e \in 0..m
    <3>4. PICK low : LowerParts(low, c, L, m)
      BY DEF LowerParts
    <3>5. P[e] = SumFunction(low[e])
      <4>1. /\ m \in Nat /\ LevelsOf(L, m + 1, c) /\ LayersOf(raw, L, m, c)
            /\ raw \in [1..m -> Pot] /\ Running(P, raw, m) /\ c \in [Seats -> Nat]
        BY ONLY <1>0, <1>2
      <4> QED
        BY ONLY <3>4, <4>1, e \in 0..m, LevelSums
    <3>6. low[e] = [q \in Seats |-> Smaller(c[q], c[s])]
      BY ONLY <2>1, <2>2, <3>4, e \in 0..m DEF LowerParts
    <3> QED
      BY ONLY <2>6, <3>2, <3>3, <3>5, <3>6
  <2> QED
    BY <2>8, <2>9
<1> QED
  BY <1>7, <1>8
(* Side pots are a list of pots. *)
LEMMA SidePotsTyped ==
    ASSUME NEW h \in HandState
    PROVE  CalculateSidePots(h) \in Seq(Pot)
<1>0. PICK c, pots : c = h.committed_this_hand /\ pots = CalculateSidePots(h)
  OBVIOUS
<1>1. PICK m, L, raw, P, d : PotsBuilt(h, c, pots, m, L, raw, P, d)
  BY ONLY <1>0, h \in HandState, SidePotsBuilt
<1>2. m \in Nat /\ raw = RawPots(h) /\ raw \in [1..m -> Pot]
  BY ONLY <1>1 DEF PotsBuilt
<1>3. PICK a : /\ MergeSteps(a, raw, m)
               /\ FoldLeft(MergePot, [result |-> <<>>, carry |-> NoCarry], raw) = a[m]
  BY ONLY <1>2, MergeHistory
<1>4. PICK v : v = a[m]
  OBVIOUS
<1>5. v \in Merged
  BY <1>2, <1>3, <1>4 DEF MergeSteps
<1>6. v.result \in Seq(Pot) /\ v.carry \in Pot
  BY ONLY <1>5 DEF Merged
<1>7. pots = CASE v.carry.amount = 0 -> v.result
               [] v.carry.amount > 0 /\ Len(v.result) > 0 ->
                    [v.result EXCEPT ![Len(v.result)] = AddPot(@, v.carry)]
               [] OTHER -> <<v.carry>>
  BY ONLY <1>0, <1>2, <1>3, <1>4 DEF MergeDeadPots, CalculateSidePots
<1>8. CASE v.carry.amount = 0
  BY ONLY <1>0, <1>6, <1>7, <1>8
<1>9. CASE v.carry.amount > 0 /\ Len(v.result) > 0
  <2>1. PICK r, n, x : /\ r = v.result /\ n = Len(v.result)
                       /\ x = AddPot(v.result[Len(v.result)], v.carry)
    OBVIOUS
  <2>2. r \in Seq(Pot) /\ n = Len(r) /\ n \in Nat /\ n > 0
    BY ONLY <1>6, <1>9, <2>1
  <2>3. n \in 1..n /\ r[n] \in Pot
    BY ONLY <2>2
  <2>4. x \in Pot
    BY ONLY <1>6, <2>1, <2>3, AddPotFields
  <2>5. pots = [r EXCEPT ![n] = x]
    <3>1. v.carry.amount # 0
      <4>1. v.carry.amount \in Nat
        BY ONLY <1>6 DEF Pot
      <4> QED
        BY ONLY <1>9, <4>1
    <3> QED
      BY ONLY <1>7, <1>9, <2>1, <3>1
  <2>6. [r EXCEPT ![n] = x] \in Seq(Pot)
    BY ONLY <2>2, <2>3, <2>4
  <2> QED
    BY ONLY <1>0, <2>5, <2>6
<1>10. CASE v.carry.amount # 0 /\ ~(v.carry.amount > 0 /\ Len(v.result) > 0)
  <2>1. pots = <<v.carry>>
    BY ONLY <1>7, <1>10
  <2>2. <<v.carry>> \in Seq(Pot)
    BY ONLY <1>6
  <2> QED
    BY ONLY <1>0, <2>1, <2>2
<1> QED
  BY <1>8, <1>9, <1>10

(* The side pots depend only on who committed what and who has folded. *)
LEMMA SamePots ==
    ASSUME NEW h, NEW k, k.committed_this_hand = h.committed_this_hand,
           k.is_active_in_hand = h.is_active_in_hand, k.has_folded = h.has_folded
    PROVE  CalculateSidePots(k) = CalculateSidePots(h)
BY DEF CalculateSidePots, RawPots, RawPot, CommitmentLevels, NotFolded
=============================================================================
