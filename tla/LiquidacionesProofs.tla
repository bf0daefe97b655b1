-------------------------- MODULE LiquidacionesProofs --------------------------
(***************************************************************************)
(* That no settlement pays a day a payroll had paid, and that what is      *)
(* collected of the loans is never lost or made up, for any number of      *)
(* settlements, payrolls, loans, requests and days.                        *)
(*                                                                         *)
(* Two invariants: CInv for the money, IInv for the days.  What was        *)
(* collected is a sum over the settlements: the lemmas on sums give it as  *)
(* one function that is defined on every subset, so that the step of one   *)
(* settlement moves it by that settlement's difference.                    *)
(***************************************************************************)
EXTENDS Liquidaciones, FiniteSetTheorems, WellFoundedInduction, TLAPS

-----------------------------------------------------------------------------
(* The last of some days                                                     *)

\* The largest of a set of days is the least day that none of them is after.
LEMMA MaxFields ==
  ASSUME NEW N \in Nat, NEW S \in SUBSET (0 .. N), S # {}
  PROVE  Max(S) \in S /\ \A y \in S : y <= Max(S)
<1> DEFINE R == {ss \in Nat \X Nat : ss[1] < ss[2]}
           T == {k \in Nat : \A y \in S : y <= k}
<1>1. IsWellFoundedOn(R, Nat)
  BY NatLessThanWellFounded DEF OpToRel
<1>2. T \subseteq Nat /\ N \in T
  OBVIOUS
<1>3. PICK m \in T : \A k \in T : ~(<<k, m>> \in R)
  <2> HIDE DEF R, T
  <2> QED BY <1>1, <1>2, WFMin
<1>4. m \in Nat /\ \A y \in S : y \in Nat /\ y <= m
  OBVIOUS
<1>5. \A k \in T : ~(k < m)
  BY <1>3, <1>4
<1>6. m \in S
  <2> SUFFICES ASSUME m \notin S
               PROVE  FALSE
    OBVIOUS
  <2>1. \A y \in S : y <= m - 1
    BY <1>4
  <2>2. m - 1 \in Nat
    <3>1. PICK y \in S : TRUE
      OBVIOUS
    <3>2. y \in Nat /\ y <= m - 1
      BY <1>4, <2>1
    <3> QED BY <1>4, <3>2
  <2>3. m - 1 \in T
    BY <2>1, <2>2
  <2> QED BY <1>4, <1>5, <2>3
<1>7. \E x \in S : \A y \in S : x >= y
  BY <1>4, <1>6
<1>8. Max(S) \in S /\ \A y \in S : Max(S) >= y
  BY <1>7 DEF Max
<1> QED BY <1>4, <1>8

-----------------------------------------------------------------------------
(* Sums                                                                      *)

\* F adds up f over every subset of S, in whatever order.
EsSuma(F, f, S) ==
  /\ F \in [SUBSET S -> Int] /\ F[{}] = 0
  /\ \A T \in SUBSET S : \A x \in T : F[T] = f[x] + F[T \ {x}]

\* A property of the subsets of a finite set that fails fails for a smallest one.
LEMMA Minimo ==
  ASSUME NEW S, IsFiniteSet(S), NEW M \in SUBSET SUBSET S, M # {}
  PROVE  \E T \in M : \A U \in M : ~(U \subseteq T /\ U # T)
<1> DEFINE R == StrictSubsetOrdering(S)
<1>1. IsWellFoundedOn(R, FiniteSubsetsOf(S))
  BY FS_StrictSubsetOrderingWellFounded
<1>2. M \subseteq FiniteSubsetsOf(S)
  BY FS_FiniteSubsetsOfFinite
<1>3. PICK T \in M : \A U \in M : ~(<<U, T>> \in R)
  <2> HIDE DEF R
  <2> QED BY <1>1, <1>2, WFMin
<1>4. ASSUME NEW U \in M, U \subseteq T, U # T
      PROVE  FALSE
  <2>1. <<U, T>> \in R
    BY <1>4 DEF StrictSubsetOrdering
  <2> HIDE DEF R
  <2> QED BY <1>3, <2>1
<1> QED BY <1>4

LEMMA SumaExiste ==
  ASSUME NEW S, IsFiniteSet(S), NEW f \in [S -> Int]
  PROVE  \E F : EsSuma(F, f, S)
<1> DEFINE M == {T \in SUBSET S : \A F : ~EsSuma(F, f, T)}
<1> SUFFICES ASSUME M # {} PROVE FALSE
  OBVIOUS
<1>1. PICK T \in M : \A U \in M : ~(U \subseteq T /\ U # T)
  <2>1. M \in SUBSET SUBSET S
    OBVIOUS
  <2> HIDE DEF M
  <2> QED BY <2>1, Minimo
<1>2. T # {}
  <2> SUFFICES ASSUME T = {} PROVE FALSE
    OBVIOUS
  <2>1. EsSuma([X \in SUBSET {} |-> 0], f, {})
    BY DEF EsSuma
  <2> QED BY <2>1
<1>3. PICK x \in T : TRUE
  BY <1>2
<1> DEFINE V == T \ {x}
<1>4. PICK F : EsSuma(F, f, V)
  <2>1. V \in SUBSET S /\ V \subseteq T /\ V # T
    BY <1>3
  <2> QED BY <1>1, <2>1
<1> DEFINE G == [X \in SUBSET T |-> IF x \in X THEN f[x] + F[X \ {x}] ELSE F[X]]
<1>5. \A X \in SUBSET T : X \ {x} \in SUBSET V /\ (x \notin X => X \in SUBSET V)
  OBVIOUS
<1>6. \A X \in SUBSET V : F[X] \in Int
  BY <1>4 DEF EsSuma
<1>7. \A y \in T : f[y] \in Int
  OBVIOUS
<1>8. G \in [SUBSET T -> Int] /\ G[{}] = 0
  <2>1. F[{}] = 0
    BY <1>4 DEF EsSuma
  <2> QED BY <2>1, <1>5, <1>6, <1>7
<1>9. ASSUME NEW X \in SUBSET T, NEW y \in X
      PROVE  G[X] = f[y] + G[X \ {y}]
  <2>0. X \ {y} \in SUBSET T /\ y \in T
    OBVIOUS
  <2>1. CASE x \notin X
    <3>1. X \in SUBSET V
      BY <2>1
    <3>2. F[X] = f[y] + F[X \ {y}]
      BY <1>4, <3>1 DEF EsSuma
    <3> QED BY <2>0, <2>1, <3>2
  <2>2. CASE x \in X /\ y = x
    BY <2>0, <2>2
  <2>3. CASE x \in X /\ y # x
    <3>1. X \ {x} \in SUBSET V /\ y \in X \ {x} /\ x \in X \ {y}
      BY <2>3
    <3>2. F[X \ {x}] = f[y] + F[(X \ {x}) \ {y}]
      BY <1>4, <3>1 DEF EsSuma
    <3>3. (X \ {x}) \ {y} = (X \ {y}) \ {x}
      OBVIOUS
    <3>4. G[X] = f[x] + F[X \ {x}] /\ G[X \ {y}] = f[x] + F[(X \ {x}) \ {y}]
      BY <2>0, <2>3, <3>1, <3>3
    <3>5. F[(X \ {x}) \ {y}] \in Int /\ f[x] \in Int /\ f[y] \in Int
      BY <1>3, <1>6, <1>7, <2>0
    <3> HIDE DEF G
    <3> QED BY <3>2, <3>4, <3>5
  <2> QED BY <2>1, <2>2, <2>3
<1>10. EsSuma(G, f, T)
  <2> HIDE DEF G
  <2> QED BY <1>8, <1>9 DEF EsSuma
<1> QED BY <1>10

\* The sums of MapThenSumSet, which takes the members in an order of its own,
\* are those.
LEMMA SumaUnica ==
  ASSUME NEW S, IsFiniteSet(S), NEW f \in [S -> Int], NEW F, NEW G,
         EsSuma(F, f, S),
         G = [s \in SUBSET S |-> IF s = {} THEN 0
                 ELSE f[CHOOSE x \in s : TRUE] + G[s \ {CHOOSE x \in s : TRUE}]]
  PROVE  G = F
<1> DEFINE M == {T \in SUBSET S : F[T] # G[T]}
<1>1. M = {}
  <2> SUFFICES ASSUME M # {} PROVE FALSE
    OBVIOUS
  <2>1. PICK T \in M : \A U \in M : ~(U \subseteq T /\ U # T)
    <3>1. M \in SUBSET SUBSET S
      OBVIOUS
    <3> HIDE DEF M
    <3> QED BY <3>1, Minimo
  <2>2. CASE T = {}
    <3>1. G[{}] = 0
      OBVIOUS
    <3> QED BY <2>2, <3>1 DEF EsSuma
  <2>3. CASE T # {}
    <3> DEFINE x == CHOOSE x \in T : TRUE
    <3>1. x \in T
      BY <2>3
    <3>2. G[T] = f[x] + G[T \ {x}]
      BY <2>3
    <3>3. F[T] = f[x] + F[T \ {x}]
      BY <3>1 DEF EsSuma
    <3>4. T \ {x} \notin M
      BY <2>1, <3>1
    <3>5. T \ {x} \in SUBSET S
      OBVIOUS
    <3> HIDE DEF x
    <3> QED BY <3>2, <3>3, <3>4, <3>5
  <2> QED BY <2>2, <2>3
<1>2. G = [s \in SUBSET S |-> G[s]] /\ F = [s \in SUBSET S |-> F[s]]
  BY DEF EsSuma
<1> QED BY <1>1, <1>2

\* A sum of what is not negative is not, and is no less than what it adds.
LEMMA SumaCota ==
  ASSUME NEW S, IsFiniteSet(S), NEW f \in [S -> Nat], NEW F, EsSuma(F, f, S)
  PROVE  F[S] \in Nat /\ \A x \in S : f[x] <= F[S]
<1> DEFINE M == {T \in SUBSET S : F[T] \notin Nat}
<1>1. M = {}
  <2> SUFFICES ASSUME M # {} PROVE FALSE
    OBVIOUS
  <2>1. PICK T \in M : \A U \in M : ~(U \subseteq T /\ U # T)
    <3>1. M \in SUBSET SUBSET S
      OBVIOUS
    <3> HIDE DEF M
    <3> QED BY <3>1, Minimo
  <2>2. T # {}
    <3>1. F[T] \notin Nat /\ F[{}] = 0
      BY DEF EsSuma
    <3> QED BY <3>1
  <2>3. PICK x \in T : TRUE
    BY <2>2
  <2>4. F[T] = f[x] + F[T \ {x}]
    BY <2>3 DEF EsSuma
  <2>5. F[T \ {x}] \in Nat
    BY <2>1, <2>3
  <2> QED BY <2>4, <2>5
<1>2. \A T \in SUBSET S : F[T] \in Nat
  BY <1>1
<1>3. ASSUME NEW x \in S
      PROVE  f[x] <= F[S]
  <2>1. F[S] = f[x] + F[S \ {x}] /\ F[S \ {x}] \in Nat
    BY <1>2 DEF EsSuma
  <2> QED BY <2>1
<1> QED BY <1>2, <1>3

\* The sum of f over S, which is the only one there is.
Suma(f, S) == (CHOOSE F : EsSuma(F, f, S))[S]

LEMMA SumaDe ==
  ASSUME NEW S, IsFiniteSet(S), NEW f \in [S -> Int], NEW F, EsSuma(F, f, S)
  PROVE  Suma(f, S) = F[S]
<1> DEFINE G == CHOOSE F_1 : EsSuma(F_1, f, S)
<1>1. EsSuma(G, f, S)
  BY SumaExiste
<1>2. Suma(f, S) = G[S]
  BY DEF Suma
<1> HIDE DEF G
<1>3. G = [s \in SUBSET S |-> IF s = {} THEN 0
              ELSE f[CHOOSE y \in s : TRUE] + G[s \ {CHOOSE y \in s : TRUE}]]
  BY <1>1 DEF EsSuma
<1>4. G = F
  BY <1>3, SumaUnica
<1> QED BY <1>2, <1>4

LEMMA SumaVacia ==
  ASSUME NEW f \in [{} -> Int]
  PROVE  Suma(f, {}) = 0
<1>1. IsFiniteSet({})
  BY FS_EmptySet
<1>2. PICK F : EsSuma(F, f, {})
  BY <1>1, SumaExiste
<1>3. Suma(f, {}) = F[{}]
  BY <1>1, <1>2, SumaDe
<1> QED BY <1>2, <1>3 DEF EsSuma

LEMMA SumaNat ==
  ASSUME NEW S, IsFiniteSet(S), NEW f \in [S -> Nat]
  PROVE  Suma(f, S) \in Nat
<1>1. f \in [S -> Int]
  OBVIOUS
<1>2. PICK F : EsSuma(F, f, S)
  BY <1>1, SumaExiste
<1> QED BY <1>1, <1>2, SumaDe, SumaCota

\* Taking a member away takes its amount off the sum.
LEMMA SumaSin ==
  ASSUME NEW S, IsFiniteSet(S), NEW f \in [S -> Nat], NEW x \in S,
         NEW h \in [S \ {x} -> Nat], \A y \in S \ {x} : h[y] = f[y]
  PROVE  /\ Suma(f, S) = f[x] + Suma(h, S \ {x})
         /\ Suma(f, S) \in Nat /\ Suma(h, S \ {x}) \in Nat
<1> DEFINE V == S \ {x}
<1>0. f \in [S -> Int] /\ h \in [V -> Int] /\ V \subseteq S
  OBVIOUS
<1>1. IsFiniteSet(V)
  BY FS_Subset
<1>2. PICK F : EsSuma(F, f, S)
  BY <1>0, SumaExiste
<1> DEFINE H == [T \in SUBSET V |-> F[T]]
<1>3. EsSuma(H, h, V)
  <2>1. H \in [SUBSET V -> Int] /\ H[{}] = 0
    BY <1>0, <1>2 DEF EsSuma
  <2>2. ASSUME NEW T \in SUBSET V, NEW y \in T
        PROVE  H[T] = h[y] + H[T \ {y}]
    <3>1. F[T] = f[y] + F[T \ {y}]
      BY <1>0, <1>2 DEF EsSuma
    <3>2. T \ {y} \in SUBSET V /\ h[y] = f[y]
      OBVIOUS
    <3> QED BY <3>1, <3>2
  <2> HIDE DEF H, V
  <2> QED BY <2>1, <2>2 DEF EsSuma
<1>4. F[S] = f[x] + F[V]
  BY <1>2 DEF EsSuma
<1>5. F[V] = H[V]
  OBVIOUS
<1> HIDE DEF H, V
<1>6. Suma(f, S) = F[S] /\ Suma(h, V) = H[V]
  BY <1>0, <1>1, <1>2, <1>3, SumaDe
<1>7. F[S] \in Nat /\ H[V] \in Nat
  <2>1. F[S] \in Nat
    BY <1>2, SumaCota
  <2>2. h \in [V -> Nat]
    BY DEF V
  <2>3. H[V] \in Nat
    BY <1>1, <1>3, <2>2, SumaCota
  <2> QED BY <2>1, <2>3
<1> QED BY <1>4, <1>5, <1>6, <1>7 DEF V

\* Nothing adds up to nothing.
LEMMA SumaCero ==
  ASSUME NEW S, IsFiniteSet(S), NEW f \in [S -> Nat], \A x \in S : f[x] = 0
  PROVE  Suma(f, S) = 0
<1> DEFINE F == [T \in SUBSET S |-> 0]
<1>1. f \in [S -> Int]
  OBVIOUS
<1>2. EsSuma(F, f, S)
  BY DEF EsSuma
<1>3. F[S] = 0
  OBVIOUS
<1> HIDE DEF F
<1> QED BY <1>1, <1>2, <1>3, SumaDe

\* Changing one amount moves the sum by the difference.
LEMMA SumaCambio ==
  ASSUME NEW S, IsFiniteSet(S), NEW f \in [S -> Nat], NEW g \in [S -> Nat], NEW x \in S,
         \A y \in S \ {x} : g[y] = f[y]
  PROVE  Suma(g, S) + f[x] = Suma(f, S) + g[x] /\ Suma(f, S) \in Nat /\ Suma(g, S) \in Nat
<1> DEFINE h == [y \in S \ {x} |-> f[y]]
<1>1. h \in [S \ {x} -> Nat]
  OBVIOUS
<1>2. \A y \in S \ {x} : h[y] = f[y]
  OBVIOUS
<1>3. \A y \in S \ {x} : h[y] = g[y]
  OBVIOUS
<1> HIDE DEF h
<1>4. Suma(f, S) = f[x] + Suma(h, S \ {x}) /\ Suma(f, S) \in Nat /\ Suma(h, S \ {x}) \in Nat
  BY <1>1, <1>2, SumaSin
<1>5. Suma(g, S) = g[x] + Suma(h, S \ {x}) /\ Suma(g, S) \in Nat
  BY <1>1, <1>3, SumaSin
<1> QED BY <1>4, <1>5

-----------------------------------------------------------------------------
(* What a settlement collects                                                *)

\* What the settlements collected of a loan, and what the loans of a set owe.
Cobrado(a) == [l \in Settlements |-> abonado[l][a]]
Deudas(d, V) == [a \in V |-> d[a]]

LEMMA CobradoEs ==
  ASSUME NEW a \in Adelantos, abonado \in [Settlements -> [Adelantos -> Nat]]
  PROVE  MapThenSumSet(LAMBDA l : abonado[l][a], Settlements) = Suma(Cobrado(a), Settlements)
<1> DEFINE u == Cobrado(a)
           G == CHOOSE g : g = [s \in SUBSET (Settlements) |-> IF s = {} THEN 0
                  ELSE abonado[CHOOSE x \in s : TRUE][a] + g[s \ {CHOOSE x \in s : TRUE}]]
<1>0. u \in [Settlements -> Int] /\ IsFiniteSet(Settlements) /\ \A x \in Settlements : u[x] = abonado[x][a]
  BY SettlementsAssumption DEF Cobrado
<1>1. MapThenSumSet(LAMBDA l : abonado[l][a], Settlements) = G[Settlements]
  BY DEF MapThenSumSet, MapThenFoldSet
<1> HIDE DEF u
<1>2. PICK U : EsSuma(U, u, Settlements)
  BY <1>0, SumaExiste
<1>3. U = [s \in SUBSET (Settlements) |-> IF s = {} THEN 0
              ELSE u[CHOOSE x \in s : TRUE] + U[s \ {CHOOSE x \in s : TRUE}]]
  BY <1>2 DEF EsSuma
<1>4. U = [s \in SUBSET (Settlements) |-> IF s = {} THEN 0
              ELSE abonado[CHOOSE x \in s : TRUE][a] + U[s \ {CHOOSE x \in s : TRUE}]]
  BY <1>0, <1>3
<1>5. G = [s \in SUBSET (Settlements) |-> IF s = {} THEN 0
              ELSE abonado[CHOOSE x \in s : TRUE][a] + G[s \ {CHOOSE x \in s : TRUE}]]
  BY <1>4
<1> HIDE DEF G
<1>6. G = [s \in SUBSET (Settlements) |-> IF s = {} THEN 0
              ELSE u[CHOOSE x \in s : TRUE] + G[s \ {CHOOSE x \in s : TRUE}]]
  BY <1>0, <1>5
<1>7. G = U
  BY <1>0, <1>2, <1>6, SumaUnica
<1>8. Suma(u, Settlements) = U[Settlements]
  BY <1>0, <1>2, SumaDe
<1> QED BY <1>1, <1>7, <1>8 DEF u

LEMMA DeudasEs ==
  ASSUME NEW d \in [Adelantos -> Nat], NEW V \in SUBSET Adelantos
  PROVE  MapThenSumSet(LAMBDA a : d[a], V) = Suma(Deudas(d, V), V)
<1> DEFINE u == Deudas(d, V)
           G == CHOOSE g : g = [s \in SUBSET (V) |-> IF s = {} THEN 0
                  ELSE d[CHOOSE x \in s : TRUE] + g[s \ {CHOOSE x \in s : TRUE}]]
<1>0. u \in [V -> Int] /\ IsFiniteSet(V) /\ \A x \in V : u[x] = d[x]
  <2>1. IsFiniteSet(V)
    BY OrderAssumption, FS_Subset
  <2>2. \A x \in V : d[x] \in Int
    OBVIOUS
  <2>3. u \in [V -> Int] /\ \A x \in V : u[x] = d[x]
    BY <2>2 DEF Deudas
  <2> QED BY <2>1, <2>3
<1>1. MapThenSumSet(LAMBDA a : d[a], V) = G[V]
  BY DEF MapThenSumSet, MapThenFoldSet
<1> HIDE DEF u
<1>2. PICK U : EsSuma(U, u, V)
  BY <1>0, SumaExiste
<1>3. U = [s \in SUBSET (V) |-> IF s = {} THEN 0
              ELSE u[CHOOSE x \in s : TRUE] + U[s \ {CHOOSE x \in s : TRUE}]]
  BY <1>2 DEF EsSuma
<1>4. U = [s \in SUBSET (V) |-> IF s = {} THEN 0
              ELSE d[CHOOSE x \in s : TRUE] + U[s \ {CHOOSE x \in s : TRUE}]]
  BY <1>0, <1>3
<1>5. G = [s \in SUBSET (V) |-> IF s = {} THEN 0
              ELSE d[CHOOSE x \in s : TRUE] + G[s \ {CHOOSE x \in s : TRUE}]]
  BY <1>4
<1> HIDE DEF G
<1>6. G = [s \in SUBSET (V) |-> IF s = {} THEN 0
              ELSE u[CHOOSE x \in s : TRUE] + G[s \ {CHOOSE x \in s : TRUE}]]
  BY <1>0, <1>5
<1>7. G = U
  BY <1>0, <1>2, <1>6, SumaUnica
<1>8. Suma(u, V) = U[V]
  BY <1>0, <1>2, SumaDe
<1> QED BY <1>1, <1>7, <1>8 DEF u

LEMMA MinDos ==
  ASSUME NEW x \in Int, NEW y \in Int
  PROVE  Min({x, y}) = IF x <= y THEN x ELSE y
<1>1. \A S : Min(S) = CHOOSE v \in S : \A w \in S : v <= w
  BY DEF Min
<1>2. \E v \in {x, y} : \A w \in {x, y} : v <= w
  OBVIOUS
<1>3. Min({x, y}) \in {x, y} /\ \A w \in {x, y} : Min({x, y}) <= w
  BY <1>1, <1>2
<1> QED BY <1>3

LEMMA DebidoType ==
  ASSUME NEW d \in [Adelantos -> Nat], NEW cerrados, NEW S \in SUBSET Adelantos
  PROVE  Debido(d, cerrados, S) \in Nat
<1> DEFINE V == S \ cerrados
<1>1. V \in SUBSET Adelantos /\ IsFiniteSet(V)
  BY OrderAssumption, FS_Subset
<1>2. Debido(d, cerrados, S) = MapThenSumSet(LAMBDA a : d[a], V)
  BY DEF Debido
<1> HIDE DEF V
<1>3. Debido(d, cerrados, S) = Suma(Deudas(d, V), V)
  BY <1>1, <1>2, DeudasEs
<1>4. Deudas(d, V) \in [V -> Nat]
  BY <1>1 DEF Deudas
<1> QED BY <1>1, <1>3, <1>4, SumaNat

\* Of a loan that is open no more than it owes, of a closed one nothing.
LEMMA CobroType ==
  ASSUME NEW d \in [Adelantos -> Nat], NEW cerrados, NEW a \in Adelantos, NEW bruto \in Nat
  PROVE  /\ Cobro(a, d, cerrados, bruto) \in Nat
         /\ Cobro(a, d, cerrados, bruto) <= d[a]
         /\ a \in cerrados => Cobro(a, d, cerrados, bruto) = 0
<1> DEFINE A == {b \in Adelantos : b < a}
           B == {b \in Adelantos : b <= a}
           x == Debido(d, cerrados, A)
           y == Debido(d, cerrados, B)
<1>1. x \in Nat /\ y \in Nat
  BY DebidoType
<1>2. Cobro(a, d, cerrados, bruto) = Min({bruto, y}) - Min({bruto, x})
  BY DEF Cobro
<1>3. \A b \in Adelantos : (b <= a) <=> (b < a \/ b = a)
  <2>1. a \in Nat /\ \A b \in Adelantos : b \in Nat
    BY OrderAssumption
  <2> QED BY <2>1
<1>a. ~(a < a)
  BY OrderAssumption
<1>4. CASE a \in cerrados
  <2>1. B \ cerrados = A \ cerrados
    BY <1>3, <1>4
  <2>2. x = y
    BY <2>1 DEF Debido
  <2> HIDE DEF x, y
  <2>3. Min({bruto, y}) \in Int
    BY <1>1, MinDos
  <2> QED BY <1>2, <2>2, <2>3
<1>5. CASE a \notin cerrados
  <2> DEFINE V == B \ cerrados
             W == A \ cerrados
  <2>1. /\ V \in SUBSET Adelantos /\ W \in SUBSET Adelantos /\ a \in V /\ W = V \ {a}
    BY <1>3, <1>a, <1>5
  <2>2. IsFiniteSet(V)
    BY <2>1, OrderAssumption, FS_Subset
  <2>3. y = MapThenSumSet(LAMBDA b : d[b], V) /\ x = MapThenSumSet(LAMBDA b : d[b], W)
    BY DEF Debido
  <2> HIDE DEF V, W, x, y
  <2>4. y = Suma(Deudas(d, V), V) /\ x = Suma(Deudas(d, W), W)
    BY <2>1, <2>3, DeudasEs
  <2>5. Deudas(d, V) \in [V -> Nat] /\ Deudas(d, V)[a] = d[a]
    BY <2>1 DEF Deudas
  <2>6. Deudas(d, W) \in [V \ {a} -> Nat]
    BY <2>1 DEF Deudas
  <2>7. \A b \in V \ {a} : Deudas(d, W)[b] = Deudas(d, V)[b]
    BY <2>1 DEF Deudas
  <2>8. Suma(Deudas(d, V), V) = Deudas(d, V)[a] + Suma(Deudas(d, W), V \ {a})
    BY <2>1, <2>2, <2>5, <2>6, <2>7, SumaSin
  <2>9. y = d[a] + x /\ d[a] \in Nat
    BY <2>1, <2>4, <2>5, <2>8
  <2>10. /\ Min({bruto, y}) = IF bruto <= y THEN bruto ELSE y
         /\ Min({bruto, x}) = IF bruto <= x THEN bruto ELSE x
    BY <1>1, MinDos
  <2> QED BY <1>1, <1>2, <1>5, <2>9, <2>10
<1> QED BY <1>4, <1>5

-----------------------------------------------------------------------------
(* What is collected, paid out and owed                                      *)

\* Each loan owes what was approved less what settlements collected, and
\* what is paid is closed, where nothing was written over; a draft has collected
\* and paid out nothing.
Cuadra ==
  \A a \in Adelantos :
    /\ saldo[a] + Suma(Cobrado(a), Settlements) = Principal[a]
    /\ a \in pagados => saldo[a] = 0
Saldados == ~pisados => Cuadra
SinCobrar ==
  \A l \in Settlements \ Terminadas : pago[l] = 0 /\ \A a \in Adelantos : abonado[l][a] = 0

\* One settlement of the employee is being applied, and what it read of the loans
\* is still so; recalculating a draft has nothing to give back.
UnaSola ==
  \A r, q \in Requests : request[r].op = "aplicando" /\ request[q].op = "aplicando" => r = q
SinAbonos ==
  \A r \in Requests :
    request[r].op = "recalculando" /\ request[r].l \notin Terminadas =>
      \A a \in Adelantos : request[r].d.abonos[a] = 0
Firmes ==
  Orderly =>
    \A r \in Requests :
      request[r].op = "aplicando" /\ request[r].l \notin Terminadas =>
        ~Cambiados(request[r].l, request[r].d)
Limpio == Orderly => ~pisados

CInv ==
  /\ TypeOK /\ Saldados /\ SinCobrar
  /\ UnaSola /\ SinAbonos /\ Firmes /\ Limpio

LEMMA UltimoType ==
  ASSUME nomina \in [Nominas -> NominaType]
  PROVE  UltimoDiaPagado \in 0 .. MaxFecha
<1> DEFINE S == {0} \cup {nomina[n].periodo : n \in Aplicadas}
<1>1. MaxFecha \in Nat
  BY BoundsAssumption
<1>2. \A n \in Aplicadas : nomina[n].periodo \in 0 .. MaxFecha
  BY DEF Aplicadas, NominaType
<1>3. S \in SUBSET (0 .. MaxFecha) /\ S # {}
  BY <1>1, <1>2
<1>4. Max(S) \in S
  <2> HIDE DEF S
  <2> QED BY <1>1, <1>3, MaxFields
<1> QED BY <1>3, <1>4 DEF UltimoDiaPagado

LEMMA BrutoType ==
  ASSUME NEW fecha \in 0 .. MaxFecha, NEW ultimo \in 0 .. MaxFecha,
         NEW concepto \in 0 .. MaxConcepto, NEW unidades \in Nat
  PROVE  Bruto(fecha, ultimo, concepto, unidades) \in Nat
<1>0. MaxFecha \in Nat /\ MaxConcepto \in Nat /\ Tasa \in Nat
  BY BoundsAssumption, PolicyAssumption
<1> DEFINE dias == Dias(fecha, ultimo)
           fin == Finiquito(unidades)
<1>1. dias \in Nat
  BY <1>0 DEF Dias
<1>2. \A x, y \in Nat : x * y \in Nat
  OBVIOUS
<1>3. fin \in Nat
  BY <1>0, <1>2 DEF Finiquito
<1>4. dias * Tasa \in Nat /\ concepto \in Nat
  BY <1>0, <1>1, <1>2
<1>5. Bruto(fecha, ultimo, concepto, unidades) = dias * Tasa + concepto + fin
  BY DEF Bruto
<1> HIDE DEF dias, fin
<1> DEFINE p == dias * Tasa
<1>6. p \in Nat
  BY <1>4
<1>7. Bruto(fecha, ultimo, concepto, unidades) = p + concepto + fin
  BY <1>5
<1> HIDE DEF p
<1> QED BY <1>3, <1>4, <1>6, <1>7

LEMMA CalculadaType ==
  ASSUME NEW estado \in {"none", "draft", "applied", "paid"},
         NEW fecha \in 0 .. MaxFecha, NEW ultimo \in 0 .. MaxFecha,
         NEW concepto \in 0 .. MaxConcepto, NEW unidades \in Nat,
         NEW d \in [Adelantos -> Nat], NEW cerrados
  PROVE  LET q == Calculada(estado, fecha, ultimo, concepto, unidades, d, cerrados)
         IN  /\ q \in LiquidacionType /\ q.estado = estado
             /\ q.totales \in Totales /\ q.totales.total_bruto \in Nat
<1> DEFINE b == Bruto(fecha, ultimo, concepto, unidades)
           x == Debido(d, cerrados, Adelantos)
           t == [total_bruto |-> b, total_deducciones |-> Min({b, x})]
<1>1. b \in Nat
  BY BrutoType
<1>2. x \in Nat
  BY DebidoType
<1>3. Calculada(estado, fecha, ultimo, concepto, unidades, d, cerrados)
        = [estado |-> estado, fecha |-> fecha, ultimo |-> ultimo, totales |-> t]
  BY DEF Calculada
<1> HIDE DEF b, x
<1>4. Min({b, x}) \in Nat
  BY <1>1, <1>2, MinDos
<1>5. t \in Totales /\ t.total_bruto \in Nat
  BY <1>1, <1>4 DEF Totales
<1> HIDE DEF t
<1> QED BY <1>3, <1>5 DEF LiquidacionType

\* The row of one settlement is set and the balance moves by the difference.
LEMMA CobrosCambian ==
  ASSUME TypeOK, Cuadra, NEW l \in Settlements, NEW fila \in [Adelantos -> Nat],
         abonado' = [abonado EXCEPT ![l] = fila],
         \A a \in Adelantos : saldo'[a] + fila[a] = saldo[a] + abonado[l][a],
         \A a \in Adelantos : saldo'[a] \in Nat,
         \A a \in pagados' : saldo'[a] = 0
  PROVE  Cuadra'
<1> SUFFICES ASSUME NEW a \in Adelantos
             PROVE  saldo'[a] + Suma(Cobrado(a)', Settlements) = Principal[a]
  BY DEF Cuadra
<1> DEFINE f == Cobrado(a)
           g == Cobrado(a)'
<1>1. f \in [Settlements -> Nat] /\ f[l] = abonado[l][a]
  BY DEF Cobrado, TypeOK
<1>2. g \in [Settlements -> Nat] /\ g[l] = fila[a]
  BY DEF Cobrado, TypeOK
<1>3. \A k \in Settlements \ {l} : g[k] = f[k]
  BY DEF Cobrado, TypeOK
<1>4. saldo[a] + Suma(f, Settlements) = Principal[a]
  BY DEF Cuadra
<1>5. saldo[a] \in Nat /\ saldo'[a] \in Nat /\ fila[a] \in Nat /\ f[l] \in Nat
  BY <1>1 DEF TypeOK
<1>6. saldo'[a] + fila[a] = saldo[a] + f[l]
  BY <1>1
<1> HIDE DEF f, g
<1>7. /\ Suma(g, Settlements) + f[l] = Suma(f, Settlements) + g[l]
      /\ Suma(f, Settlements) \in Nat /\ Suma(g, Settlements) \in Nat
  BY <1>1, <1>2, <1>3, SettlementsAssumption, SumaCambio
<1>8. saldo'[a] + Suma(g, Settlements) = Principal[a]
  BY <1>2, <1>4, <1>5, <1>6, <1>7
<1> QED BY <1>8 DEF g

LEMMA InitCInv == Init => CInv
<1> SUFFICES ASSUME Init PROVE CInv
  OBVIOUS
<1>1. TypeOK
  <2>1. 0 \in 0 .. MaxFecha /\ 0 \in 0 .. MaxOperations
    BY BoundsAssumption
  <2>2. SinTotales \in Totales
    BY DEF SinTotales, Totales
  <2>3. liquidacion \in [Settlements -> LiquidacionType]
    BY <2>1, <2>2 DEF Init, LiquidacionType
  <2>4. comprobante \in [Settlements -> Totales]
    BY <2>2 DEF Init
  <2>5. abonado \in [Settlements -> [Adelantos -> Nat]] /\ pago \in [Settlements -> Nat]
    BY DEF Init
  <2>6. saldo \in [Adelantos -> Nat] /\ pagados \subseteq Adelantos
    BY OrderAssumption DEF Init
  <2>7. vacacion \in Nat /\ request \in [Requests -> Doing \cup {Idle}]
    BY DEF Init
  <2>8. nomina \in [Nominas -> NominaType]
    BY <2>1 DEF Init, NominaType
  <2>9. activo \in BOOLEAN /\ incidentes \in BOOLEAN /\ pisados \in BOOLEAN
    BY DEF Init
  <2>10. operations \in 0 .. MaxOperations
    BY <2>1 DEF Init
  <2> QED BY <2>3, <2>4, <2>5, <2>6, <2>7, <2>8, <2>9, <2>10 DEF TypeOK
<1>2. Saldados
  <2> SUFFICES ASSUME NEW a \in Adelantos
               PROVE  saldo[a] + Suma(Cobrado(a), Settlements) = Principal[a] /\ a \notin pagados
    BY DEF Saldados, Cuadra
  <2> DEFINE f == Cobrado(a)
  <2>1. f = [l \in Settlements |-> 0]
    BY DEF Init, Cobrado
  <2>2. Suma(f, Settlements) = 0
    <3>1. f \in [Settlements -> Nat] /\ \A x \in Settlements : f[x] = 0
      BY <2>1
    <3> HIDE DEF f
    <3> QED BY <3>1, SettlementsAssumption, SumaCero
  <2>3. saldo[a] = Principal[a] /\ Principal[a] \in Nat /\ a \notin pagados
    BY OrderAssumption DEF Init
  <2> HIDE DEF f
  <2>4. saldo[a] + Suma(f, Settlements) = Principal[a]
    BY <2>2, <2>3
  <2> QED BY <2>3, <2>4 DEF f
<1>3. SinCobrar
  BY DEF Init, SinCobrar
<1>4. \A r \in Requests : request[r].op = "idle"
  BY DEF Init, Idle
<1>5. UnaSola /\ SinAbonos /\ Firmes
  BY <1>4 DEF UnaSola, SinAbonos, Firmes
<1>6. Limpio
  BY DEF Init, Limpio
<1> QED BY <1>1, <1>2, <1>3, <1>5, <1>6 DEF CInv

\* What a request works on.
LEMMA PedidaType ==
  ASSUME TypeOK, NEW r \in Requests, request[r] # Idle
  PROVE  request[r].l \in Settlements
BY DEF TypeOK, Doing

LEMMA LeidaType ==
  ASSUME TypeOK, NEW r \in Requests, request[r].op \in {"recalculando", "aplicando"}
  PROVE  request[r].l \in Settlements /\ request[r].d \in Lectura
<1>1. request[r] \in Doing \cup {Idle}
  BY DEF TypeOK
<1>2. request[r] # Idle
  BY DEF Idle
<1>3. request[r] \in [op : {"recalculando", "aplicando"}, l : Settlements, d : Lectura]
  BY <1>1, <1>2 DEF Doing
<1> QED BY <1>3

\* What a request reads has the type of what it reads.
LEMMA LeidoType ==
  ASSUME TypeOK, NEW l \in Settlements, NEW u \in 0 .. MaxFecha
  PROVE  Leido(l, u) \in Lectura
<1>1. abonado[l] \in [Adelantos -> Nat] /\ pago[l] \in Nat
  BY DEF TypeOK
<1> QED BY <1>1 DEF TypeOK, Leido, Lectura

\* A request ends.
LEMMA EndType ==
  ASSUME TypeOK, NEW r \in Requests, NEW pisa \in BOOLEAN, End(r, pisa)
  PROVE  /\ request' = [request EXCEPT ![r] = Idle]
         /\ request' \in [Requests -> Doing \cup {Idle}]
         /\ incidentes' \in BOOLEAN /\ pisados' \in BOOLEAN
         /\ operations' = operations
         /\ pisados' = (pisados \/ pisa)
         /\ incidentes => incidentes'
         /\ Overtaken(r) => incidentes'
<1>1. Overtaken(r) \in BOOLEAN
  BY DEF Overtaken
<1> QED BY <1>1 DEF End, TypeOK

\* A row of the settlements is set.
LEMMA FilaType ==
  ASSUME TypeOK, NEW l \in Settlements, NEW q \in LiquidacionType,
         liquidacion' = [liquidacion EXCEPT ![l] = q]
  PROVE  /\ liquidacion' \in [Settlements -> LiquidacionType]
         /\ liquidacion'[l] = q
         /\ \A k \in Settlements \ {l} : liquidacion'[k] = liquidacion[k]
BY DEF TypeOK

\* No request reads anything.
SinLeer ==
  \A r \in Requests :
    request'[r].op \in {"recalculando", "aplicando"} => request'[r] = request[r]

LEMMA SinLeerTermina ==
  ASSUME TypeOK, NEW r \in Requests, NEW d, d.op \notin {"recalculando", "aplicando"},
         request' = [request EXCEPT ![r] = d]
  PROVE  SinLeer
BY DEF SinLeer, TypeOK

\* A step that leaves what was collected alone and opens no settlement again.
LEMMA CobrosIguales ==
  ASSUME CInv, TypeOK', UNCHANGED <<abonado, pago, saldo, pagados, pisados>>,
         incidentes => incidentes', Terminadas \subseteq Terminadas', SinLeer
  PROVE  CInv'
<1>1. \A a \in Adelantos : Cobrado(a)' = Cobrado(a)
  BY DEF Cobrado
<1>2. Saldados'
  BY <1>1 DEF CInv, Saldados, Cuadra
<1>3. SinCobrar'
  BY DEF CInv, SinCobrar
<1>4. UnaSola'
  BY DEF CInv, UnaSola, SinLeer
<1>5. SinAbonos'
  BY DEF CInv, SinAbonos, SinLeer
<1>6. Firmes'
  <2> SUFFICES ASSUME ~incidentes', NEW r \in Requests, request'[r].op = "aplicando",
                      request'[r].l \notin Terminadas'
               PROVE  ~Cambiados(request[r].l, request[r].d)'
    BY DEF Firmes, Orderly
  <2>1. request'[r] = request[r]
    BY DEF SinLeer
  <2>2. request[r].op = "aplicando" /\ request[r].l \notin Terminadas /\ ~incidentes
    BY <2>1
  <2>3. ~Cambiados(request[r].l, request[r].d)
    BY <2>2 DEF CInv, Firmes, Orderly
  <2> QED BY <2>1, <2>3 DEF Cambiados
<1>7. Limpio'
  BY DEF CInv, Limpio, Orderly
<1> QED BY <1>2, <1>3, <1>4, <1>5, <1>6, <1>7 DEF CInv

LEMMA NuevaCInv ==
  ASSUME CInv, NEW l \in Settlements, NEW fecha \in 1 .. MaxFecha,
         NEW concepto \in 0 .. MaxConcepto, Nueva(l, fecha, concepto)
  PROVE  CInv'
<1> DEFINE q == Calculada("draft", fecha, UltimoDiaPagado, concepto, vacacion, saldo, pagados)
<1>0. TypeOK
  BY DEF CInv
<1>1. /\ liquidacion' = [liquidacion EXCEPT ![l] = q] /\ liquidacion[l].estado = "none"
      /\ UNCHANGED <<comprobante, abonado, pago, saldo, pagados, vacacion, nomina, activo, request,
                     operations, incidentes, pisados>>
  BY DEF Nueva, cobros, historia
<1>2. q \in LiquidacionType
  <2>1. fecha \in 0 .. MaxFecha
    BY BoundsAssumption
  <2>2. UltimoDiaPagado \in 0 .. MaxFecha
    BY <1>0, UltimoType DEF TypeOK
  <2>3. vacacion \in Nat /\ saldo \in [Adelantos -> Nat]
    BY <1>0 DEF TypeOK
  <2> QED BY <2>1, <2>2, <2>3, CalculadaType
<1> HIDE DEF q
<1>3. /\ liquidacion' \in [Settlements -> LiquidacionType]
      /\ \A k \in Settlements \ {l} : liquidacion'[k] = liquidacion[k]
  BY <1>0, <1>1, <1>2, FilaType
<1>4. TypeOK'
  BY <1>0, <1>1, <1>3 DEF TypeOK
<1>5. Terminadas \subseteq Terminadas'
  BY <1>1, <1>3 DEF Terminadas
<1>6. SinLeer
  BY <1>1 DEF SinLeer
<1> QED BY <1>1, <1>4, <1>5, <1>6, CobrosIguales

\* Reading adds a request that knows what it read.
LEMMA RecalcularLeeCInv == ASSUME CInv, NEW r \in Requests, RecalcularLee(r) PROVE CInv'
<1> DEFINE l == request[r].l
           d == Leido(l, UltimoDiaPagado)
           p == [op |-> "recalculando", l |-> l, d |-> d]
<1>0. TypeOK
  BY DEF CInv
<1>1. l \in Settlements
  BY <1>0, PedidaType DEF RecalcularLee, Idle
<1>2. /\ request' = [request EXCEPT ![r] = p]
      /\ UNCHANGED <<liquidacion, comprobante, abonado, pago, saldo, pagados, vacacion, nomina, activo,
                     operations, incidentes, pisados>>
  BY DEF RecalcularLee, papeles, cobros, historia
<1>3. d \in Lectura /\ d.abonos = abonado[l]
  <2>1. UltimoDiaPagado \in 0 .. MaxFecha
    BY <1>0, UltimoType DEF TypeOK
  <2>2. d.abonos = abonado[l]
    BY DEF Leido
  <2> HIDE DEF l
  <2> QED BY <1>0, <1>1, <2>1, <2>2, LeidoType
<1> HIDE DEF l, d
<1>4. p \in Doing /\ p.op = "recalculando" /\ p.l = l /\ p.d = d
  BY <1>1, <1>3 DEF Doing
<1> HIDE DEF p
<1>5. request'[r] = p /\ \A q \in Requests \ {r} : request'[q] = request[q]
  BY <1>0, <1>2 DEF TypeOK
<1>6. TypeOK'
  BY <1>0, <1>2, <1>4 DEF TypeOK
<1>7. Terminadas' = Terminadas
  BY <1>2 DEF Terminadas
<1>8. Saldados' /\ SinCobrar' /\ Limpio'
  <2>1. \A a \in Adelantos : Cobrado(a)' = Cobrado(a)
    BY <1>2 DEF Cobrado
  <2> QED BY <1>2, <1>7, <2>1 DEF CInv, Saldados, Cuadra, SinCobrar, Limpio, Orderly
<1>9. UnaSola'
  BY <1>4, <1>5 DEF CInv, UnaSola
<1>10. SinAbonos'
  <2> SUFFICES ASSUME NEW q \in Requests, request'[q].op = "recalculando",
                      request'[q].l \notin Terminadas
               PROVE  \A a \in Adelantos : request'[q].d.abonos[a] = 0
    BY <1>7 DEF SinAbonos
  <2>1. CASE q = r
    <3>1. l \in Settlements \ Terminadas
      BY <1>1, <1>4, <1>5, <2>1
    <3>2. \A a \in Adelantos : abonado[l][a] = 0
      BY <3>1 DEF CInv, SinCobrar
    <3> QED BY <1>3, <1>4, <1>5, <2>1, <3>2
  <2>2. CASE q # r
    BY <1>5, <2>2 DEF CInv, SinAbonos
  <2> QED BY <2>1, <2>2
<1>11. Firmes'
  <2> SUFFICES ASSUME ~incidentes, NEW q \in Requests, request'[q].op = "aplicando",
                      request'[q].l \notin Terminadas
               PROVE  ~Cambiados(request[q].l, request[q].d)'
    BY <1>2, <1>7 DEF Firmes, Orderly
  <2>1. q # r /\ request'[q] = request[q]
    BY <1>4, <1>5
  <2>2. ~Cambiados(request[q].l, request[q].d)
    BY <2>1 DEF CInv, Firmes, Orderly
  <2> QED BY <1>2, <2>1, <2>2 DEF Cambiados
<1> QED BY <1>6, <1>8, <1>9, <1>10, <1>11 DEF CInv

LEMMA AplicarLeeCInv == ASSUME CInv, NEW r \in Requests, AplicarLee(r) PROVE CInv'
<1> DEFINE l == request[r].l
           u == UltimoAlAplicar(l)
           d == Leido(l, u)
           p == [op |-> "aplicando", l |-> l, d |-> d]
<1>0. TypeOK
  BY DEF CInv
<1>1. l \in Settlements
  BY <1>0, PedidaType DEF AplicarLee, Idle
<1>2. /\ request' = [request EXCEPT ![r] = p] /\ EmpleadoLibre
      /\ UNCHANGED <<liquidacion, comprobante, abonado, pago, saldo, pagados, vacacion, activo,
                     operations, incidentes, pisados>>
  BY DEF AplicarLee, papeles, cobros, historia
<1>a. nomina' = [n \in Nominas |->
        [nomina[n] EXCEPT !.tras = IF l \in Terminadas THEN @ ELSE @ \ {l}]]
  BY DEF AplicarLee
<1>b. u \in 0 .. MaxFecha
  BY <1>0, UltimoType DEF TypeOK, UltimoAlAplicar
<1> HIDE DEF u, l
<1>3. d \in Lectura /\ d.abonos = abonado[l] /\ d.saldo = saldo /\ d.pagados = pagados
  <2>1. d \in Lectura
    BY <1>0, <1>1, <1>b, LeidoType
  <2> QED BY <2>1 DEF Leido
<1> HIDE DEF d
<1>4. p \in Doing /\ p.op = "aplicando" /\ p.l = l /\ p.d = d
  BY <1>1, <1>3 DEF Doing
<1> HIDE DEF p
<1>5. request'[r] = p /\ \A q \in Requests \ {r} : request'[q] = request[q]
  BY <1>0, <1>2 DEF TypeOK
<1>6. TypeOK'
  <2>1. ASSUME NEW n \in Nominas
        PROVE  [nomina[n] EXCEPT !.tras = IF l \in Terminadas THEN @ ELSE @ \ {l}] \in NominaType
    <3>1. nomina[n] \in NominaType
      BY <1>0 DEF TypeOK
    <3> QED BY <3>1 DEF NominaType
  <2>2. nomina' \in [Nominas -> NominaType]
    BY <1>a, <2>1
  <2> QED BY <1>0, <1>2, <1>4, <2>2 DEF TypeOK
<1>7. Terminadas' = Terminadas
  BY <1>2 DEF Terminadas
<1>8. Saldados' /\ SinCobrar' /\ Limpio'
  <2>1. \A a \in Adelantos : Cobrado(a)' = Cobrado(a)
    BY <1>2 DEF Cobrado
  <2> QED BY <1>2, <1>7, <2>1 DEF CInv, Saldados, Cuadra, SinCobrar, Limpio, Orderly
<1>9. \A q \in Requests \ {r} : request'[q].op # "aplicando"
  BY <1>2, <1>5 DEF EmpleadoLibre
<1>10. UnaSola'
  BY <1>9 DEF UnaSola
<1>11. SinAbonos'
  BY <1>4, <1>5, <1>7 DEF CInv, SinAbonos
<1>12. Firmes'
  <2> SUFFICES ASSUME NEW q \in Requests, request'[q].op = "aplicando"
               PROVE  ~Cambiados(request[q].l, request[q].d)'
    BY DEF Firmes
  <2>1. request'[q].l = l /\ request'[q].d = d
    BY <1>4, <1>5, <1>9
  <2> QED BY <1>2, <1>3, <2>1 DEF Cambiados
<1> QED BY <1>6, <1>8, <1>10, <1>11, <1>12 DEF CInv

\* What a draft gives back of what it collected is nothing, and what an applied
\* settlement gives back is what it had collected.
LEMMA RecalcularCInv == ASSUME CInv, NEW r \in Requests, Recalcular(r) PROVE CInv'
<1> DEFINE l == request[r].l
           d == request[r].d
           rev == {a \in Adelantos : d.abonos[a] > 0}
           deuda == [a \in Adelantos |-> d.saldo[a] + d.abonos[a]]
           unidades == d.vacacion + d.pago
           fila == [a \in Adelantos |-> Menos(abonado[l][a], d.abonos[a])]
           pisa == rev # {} /\ Cambiados(l, d)
<1>0. TypeOK
  BY DEF CInv
<1>1. l \in Settlements /\ d \in Lectura
  BY <1>0, LeidaType DEF Recalcular
<1>2. PICK concepto \in 0 .. MaxConcepto :
        liquidacion' = [liquidacion EXCEPT ![l] =
          Calculada(liquidacion[l].estado, liquidacion[l].fecha, d.ultimo,
                    concepto, unidades, deuda, d.pagados \ rev)]
  BY DEF Recalcular
<1> DEFINE q == Calculada(liquidacion[l].estado, liquidacion[l].fecha, d.ultimo,
                          concepto, unidades, deuda, d.pagados \ rev)
<1>3. liquidacion' = [liquidacion EXCEPT ![l] = q]
  BY <1>2
<1>4. /\ saldo' = [a \in Adelantos |-> IF a \in rev THEN deuda[a] ELSE saldo[a]]
      /\ pagados' = pagados \ (rev \cap d.pagados)
      /\ vacacion' = (IF d.pago = 0 THEN vacacion ELSE unidades)
      /\ pago' = [pago EXCEPT ![l] = Menos(@, d.pago)]
      /\ End(r, pisa) /\ comprobante' = comprobante /\ nomina' = nomina /\ activo' = activo
  BY DEF Recalcular
<1>c. abonado' = [abonado EXCEPT ![l] = fila]
  BY <1>0, <1>1 DEF Recalcular, TypeOK
<1>d. request[r].op = "recalculando"
  BY DEF Recalcular
<1> HIDE DEF l, d
<1>5. /\ abonado[l] \in [Adelantos -> Nat] /\ saldo \in [Adelantos -> Nat]
      /\ pago[l] \in Nat /\ vacacion \in Nat
  BY <1>0, <1>1 DEF TypeOK
<1>6. /\ d.abonos \in [Adelantos -> Nat] /\ d.saldo \in [Adelantos -> Nat]
      /\ d.pago \in Nat /\ d.vacacion \in Nat /\ d.ultimo \in 0 .. MaxFecha
  BY <1>1 DEF Lectura
<1>7. deuda \in [Adelantos -> Nat] /\ unidades \in Nat
  BY <1>6
<1>8. fila \in [Adelantos -> Nat] /\ Menos(pago[l], d.pago) \in Nat
  BY <1>5, <1>6 DEF Menos
<1>9. q \in LiquidacionType /\ q.estado = liquidacion[l].estado
  <2>1. liquidacion[l] \in LiquidacionType
    BY <1>0, <1>1 DEF TypeOK
  <2>2. /\ liquidacion[l].estado \in {"none", "draft", "applied", "paid"}
        /\ liquidacion[l].fecha \in 0 .. MaxFecha
    BY <2>1 DEF LiquidacionType
  <2> HIDE DEF deuda, unidades, rev
  <2> QED BY <1>6, <1>7, <2>2, CalculadaType
<1> HIDE DEF q
<1>10. /\ liquidacion' \in [Settlements -> LiquidacionType] /\ liquidacion'[l] = q
       /\ \A k \in Settlements \ {l} : liquidacion'[k] = liquidacion[k]
  BY <1>0, <1>1, <1>3, <1>9, FilaType
<1>11. Terminadas' = Terminadas
  BY <1>1, <1>9, <1>10 DEF Terminadas
<1>12. \A a \in Adelantos : /\ fila[a] = Menos(abonado[l][a], d.abonos[a])
                            /\ saldo'[a] = IF a \in rev THEN d.saldo[a] + d.abonos[a] ELSE saldo[a]
  BY <1>4
<1>13. \A a \in Adelantos : a \notin rev => d.abonos[a] = 0
  BY <1>6
<1>14. rev \subseteq Adelantos /\ \A a \in rev : d.abonos[a] > 0
  OBVIOUS
<1>e. saldo' \in [Adelantos -> Nat]
  <2> HIDE DEF deuda, rev
  <2> QED BY <1>4, <1>5, <1>7
<1>f. vacacion' \in Nat
  <2> HIDE DEF unidades
  <2> QED BY <1>4, <1>5, <1>7
<1>g. pisa \in BOOLEAN
  BY DEF Cambiados
<1>h. rev = {} => ~pisa
  OBVIOUS
<1>i. ~pisa => rev = {} \/ (saldo = d.saldo /\ pagados = d.pagados /\ abonado[l] = d.abonos)
  BY DEF Cambiados
<1> HIDE DEF deuda, unidades, fila, pisa, rev
<1>15. /\ request' = [request EXCEPT ![r] = Idle]
       /\ request' \in [Requests -> Doing \cup {Idle}]
       /\ incidentes' \in BOOLEAN /\ pisados' \in BOOLEAN /\ operations' = operations
       /\ pisados' = (pisados \/ pisa)
       /\ (incidentes => incidentes')
       /\ (Overtaken(r) => incidentes')
  BY <1>0, <1>4, <1>g, EndType
<1>16. SinLeer
  BY <1>0, <1>15, SinLeerTermina DEF Idle
<1>17. TypeOK'
  <2>1. abonado' \in [Settlements -> [Adelantos -> Nat]] /\ pago' \in [Settlements -> Nat]
    BY <1>0, <1>1, <1>4, <1>8, <1>c DEF TypeOK
  <2>2. pagados' \subseteq Adelantos
    BY <1>0, <1>4 DEF TypeOK
  <2> QED BY <1>0, <1>4, <1>10, <1>15, <1>e, <1>f, <2>1, <2>2 DEF TypeOK
<1>18. l \notin Terminadas => rev = {}
  BY <1>14, <1>d DEF CInv, SinAbonos, l, d
<1>19. ~Overtaken(r) => l \notin Terminadas
  BY <1>d DEF Overtaken, EstadoPrevio, Terminadas, l
<1>20. rev = {} => saldo' = saldo /\ pagados' = pagados /\ \A k \in Settlements : abonado'[k] = abonado[k]
  <2> SUFFICES ASSUME rev = {}
               PROVE  saldo' = saldo /\ pagados' = pagados /\ \A k \in Settlements : abonado'[k] = abonado[k]
    OBVIOUS
  <2>1. \A a \in Adelantos : fila[a] = abonado[l][a]
    <3> SUFFICES ASSUME NEW a \in Adelantos PROVE fila[a] = abonado[l][a]
      OBVIOUS
    <3>1. d.abonos[a] = 0 /\ abonado[l][a] \in Nat
      BY <1>5, <1>13
    <3> QED BY <1>12, <3>1 DEF Menos
  <2>2. fila = abonado[l]
    BY <1>5, <1>8, <2>1
  <2>3. saldo' = saldo
    BY <1>5, <1>12, <1>e
  <2>4. pagados' = pagados
    BY <1>4
  <2> QED BY <1>0, <1>1, <1>c, <2>2, <2>3, <2>4 DEF TypeOK
<1>21. Saldados'
  <2> SUFFICES ASSUME ~pisados' PROVE Cuadra'
    BY DEF Saldados
  <2>1. Cuadra /\ ~pisa
    BY <1>15 DEF CInv, Saldados
  <2>2. \A a \in Adelantos : saldo'[a] + fila[a] = saldo[a] + abonado[l][a]
    <3> SUFFICES ASSUME NEW a \in Adelantos
                 PROVE  saldo'[a] + fila[a] = saldo[a] + abonado[l][a]
      OBVIOUS
    <3>0. saldo[a] \in Nat /\ abonado[l][a] \in Nat /\ d.abonos[a] \in Nat
      BY <1>5, <1>6
    <3>1. CASE rev = {}
      <4>1. d.abonos[a] = 0 /\ saldo'[a] = saldo[a]
        BY <1>12, <1>13, <3>1
      <4>2. fila[a] = abonado[l][a]
        BY <1>12, <3>0, <4>1 DEF Menos
      <4> QED BY <3>0, <4>1, <4>2
    <3>2. CASE saldo = d.saldo /\ abonado[l] = d.abonos
      <4>1. fila[a] = 0
        BY <1>12, <3>0, <3>2 DEF Menos
      <4>2. saldo'[a] = saldo[a] + abonado[l][a]
        BY <1>12, <1>13, <3>0, <3>2
      <4> QED BY <3>0, <4>1, <4>2
    <3> QED BY <1>i, <2>1, <3>1, <3>2
  <2>3. \A a \in pagados' : saldo'[a] = 0
    <3> SUFFICES ASSUME NEW a \in pagados' PROVE saldo'[a] = 0
      OBVIOUS
    <3>1. a \in pagados /\ a \in Adelantos /\ saldo[a] = 0
      BY <1>0, <1>4, <2>1 DEF Cuadra, TypeOK
    <3>2. CASE rev = {}
      BY <1>20, <3>1, <3>2
    <3>3. CASE pagados = d.pagados
      <4>1. a \notin rev
        BY <1>4, <3>1, <3>3
      <4> QED BY <1>12, <3>1, <4>1
    <3> QED BY <1>i, <2>1, <3>2, <3>3
  <2>4. \A a \in Adelantos : saldo'[a] \in Nat
    BY <1>e
  <2> QED BY <1>0, <1>1, <1>8, <1>c, <2>1, <2>2, <2>3, <2>4, CobrosCambian
<1>22. SinCobrar'
  <2> SUFFICES ASSUME NEW k \in Settlements \ Terminadas
               PROVE  pago'[k] = 0 /\ \A a \in Adelantos : abonado'[k][a] = 0
    BY <1>11 DEF SinCobrar
  <2>0. pago[k] = 0 /\ \A a \in Adelantos : abonado[k][a] = 0
    BY DEF CInv, SinCobrar
  <2>1. CASE k = l
    <3>1. abonado'[k] = abonado[k]
      BY <1>18, <1>20, <2>1
    <3>2. pago'[k] = Menos(pago[k], d.pago)
      BY <1>0, <1>1, <1>4, <2>1 DEF TypeOK
    <3> QED BY <1>6, <2>0, <3>1, <3>2 DEF Menos
  <2>2. CASE k # l
    BY <1>0, <1>4, <1>c, <2>0, <2>2 DEF TypeOK
  <2> QED BY <2>1, <2>2
<1>23. UnaSola' /\ SinAbonos'
  BY <1>11, <1>16 DEF CInv, UnaSola, SinAbonos, SinLeer
<1>24. ~incidentes' => ~incidentes /\ rev = {}
  BY <1>15, <1>18, <1>19
<1>25. Firmes'
  <2> SUFFICES ASSUME ~incidentes', NEW k \in Requests, request'[k].op = "aplicando",
                      request'[k].l \notin Terminadas
               PROVE  ~Cambiados(request[k].l, request[k].d)'
    BY <1>11 DEF Firmes, Orderly
  <2>1. request'[k] = request[k]
    BY <1>16 DEF SinLeer
  <2>2. ~Cambiados(request[k].l, request[k].d)
    BY <1>24, <2>1 DEF CInv, Firmes, Orderly
  <2>3. request[k].l \in Settlements
    BY <1>0, <2>1, LeidaType
  <2>4. saldo' = saldo /\ pagados' = pagados /\ abonado'[request[k].l] = abonado[request[k].l]
    BY <1>20, <1>24, <2>3
  <2> QED BY <2>1, <2>2, <2>4 DEF Cambiados
<1>26. Limpio'
  BY <1>15, <1>24, <1>h DEF CInv, Limpio, Orderly
<1> QED BY <1>17, <1>21, <1>22, <1>23, <1>25, <1>26 DEF CInv

LEMMA AplicarCInv == ASSUME CInv, NEW r \in Requests, Aplicar(r) PROVE CInv'
<1> DEFINE l == request[r].l
           d == request[r].d
           pisa == Cambiados(l, d)
<1>0. TypeOK
  BY DEF CInv
<1>1. l \in Settlements /\ d \in Lectura
  BY <1>0, LeidaType DEF Aplicar
<1>2. PICK concepto \in 0 .. MaxConcepto :
        LET nueva == Calculada("applied", liquidacion[l].fecha, d.ultimo,
                               concepto, d.vacacion, d.saldo, d.pagados)
        IN  /\ liquidacion' = [liquidacion EXCEPT ![l] = nueva]
            /\ comprobante' = [comprobante EXCEPT ![l] = nueva.totales]
            /\ Cobra(l, d, nueva.totales.total_bruto)
  BY DEF Aplicar
<1>3. /\ PagaVacacion(l, d) /\ End(r, pisa) /\ nomina' = nomina /\ activo' = FALSE
      /\ request[r].op = "aplicando"
  BY DEF Aplicar
<1> HIDE DEF l, d
<1> DEFINE q == Calculada("applied", liquidacion[l].fecha, d.ultimo,
                          concepto, d.vacacion, d.saldo, d.pagados)
           t == q.totales
           bruto == t.total_bruto
           c == [a \in Adelantos |-> Cobro(a, d.saldo, d.pagados, bruto)]
           fila == [a \in Adelantos |-> abonado[l][a] + c[a]]
<1>4. /\ liquidacion' = [liquidacion EXCEPT ![l] = q]
      /\ comprobante' = [comprobante EXCEPT ![l] = t]
      /\ Cobra(l, d, bruto)
  BY <1>2
<1>5. /\ abonado[l] \in [Adelantos -> Nat] /\ saldo \in [Adelantos -> Nat]
      /\ pago[l] \in Nat /\ vacacion \in Nat /\ pagados \subseteq Adelantos
      /\ d.saldo \in [Adelantos -> Nat] /\ d.vacacion \in Nat /\ d.ultimo \in 0 .. MaxFecha
  BY <1>0, <1>1 DEF TypeOK, Lectura
<1>6. q \in LiquidacionType /\ q.estado = "applied" /\ t \in Totales /\ bruto \in Nat
  <2>1. liquidacion[l] \in LiquidacionType
    BY <1>0, <1>1 DEF TypeOK
  <2>2. liquidacion[l].fecha \in 0 .. MaxFecha
    BY <2>1 DEF LiquidacionType
  <2>3. d.saldo \in [Adelantos -> Nat] /\ d.vacacion \in Nat /\ d.ultimo \in 0 .. MaxFecha
    BY <1>5
  <2>4. "applied" \in {"none", "draft", "applied", "paid"}
    OBVIOUS
  <2> HIDE DEF c, fila
  <2> QED BY <2>2, <2>3, <2>4, CalculadaType
<1> HIDE DEF q, t, bruto
<1>7. \A a \in Adelantos : /\ c[a] \in Nat /\ c[a] <= d.saldo[a]
                           /\ a \in d.pagados => c[a] = 0
  <2>1. ASSUME NEW a \in Adelantos
        PROVE  /\ Cobro(a, d.saldo, d.pagados, bruto) \in Nat
               /\ Cobro(a, d.saldo, d.pagados, bruto) <= d.saldo[a]
               /\ a \in d.pagados => Cobro(a, d.saldo, d.pagados, bruto) = 0
    BY <1>5, <1>6, CobroType
  <2> QED BY <2>1
<1>8. abonado' = [abonado EXCEPT ![l] = fila]
  BY <1>0, <1>1, <1>4 DEF Cobra, TypeOK
<1>9. \A a \in Adelantos : saldo'[a] = IF c[a] = 0 THEN saldo[a] ELSE d.saldo[a] - c[a]
  BY <1>4 DEF Cobra
<1>10. saldo' = [a \in Adelantos |-> saldo'[a]]
  BY <1>4 DEF Cobra
<1>11. pagados' = pagados \cup {a \in Adelantos : c[a] > 0 /\ d.saldo[a] = c[a]}
  BY <1>4 DEF Cobra
<1> HIDE DEF c
<1>12. fila \in [Adelantos -> Nat] /\ \A a \in Adelantos : fila[a] = abonado[l][a] + c[a]
  BY <1>5, <1>7
<1> HIDE DEF fila
<1>13. \A a \in Adelantos : saldo[a] \in Nat /\ abonado[l][a] \in Nat /\ d.saldo[a] \in Nat
  BY <1>5
<1>14. \A a \in Adelantos : saldo'[a] \in Nat
  BY <1>7, <1>9, <1>13
<1>15. pisa \in BOOLEAN
  BY DEF Cambiados
<1>16. ~pisa => saldo = d.saldo /\ pagados = d.pagados
  BY DEF Cambiados
<1> HIDE DEF pisa
<1>17. /\ request' = [request EXCEPT ![r] = Idle]
       /\ request' \in [Requests -> Doing \cup {Idle}]
       /\ incidentes' \in BOOLEAN /\ pisados' \in BOOLEAN /\ operations' = operations
       /\ pisados' = (pisados \/ pisa)
       /\ (incidentes => incidentes')
       /\ (Overtaken(r) => incidentes')
  BY <1>0, <1>3, <1>15, EndType
<1>18. SinLeer
  BY <1>0, <1>17, SinLeerTermina DEF Idle
<1>19. Saldados'
  <2> SUFFICES ASSUME ~pisados' PROVE Cuadra'
    BY DEF Saldados
  <2>1. Cuadra /\ saldo = d.saldo /\ pagados = d.pagados
    BY <1>16, <1>17 DEF CInv, Saldados
  <2>2. \A a \in Adelantos : saldo'[a] + fila[a] = saldo[a] + abonado[l][a]
    <3> SUFFICES ASSUME NEW a \in Adelantos
                 PROVE  saldo'[a] + fila[a] = saldo[a] + abonado[l][a]
      OBVIOUS
    <3>1. saldo'[a] = saldo[a] - c[a]
      BY <1>7, <1>9, <1>13, <2>1
    <3> QED BY <1>7, <1>12, <1>13, <3>1
  <2>3. \A a \in pagados' : saldo'[a] = 0
    <3> SUFFICES ASSUME NEW a \in pagados' PROVE saldo'[a] = 0
      OBVIOUS
    <3>1. CASE a \in pagados
      <4>1. a \in Adelantos /\ saldo[a] = 0 /\ c[a] = 0
        BY <1>5, <1>7, <2>1, <3>1 DEF Cuadra
      <4> QED BY <1>9, <4>1
    <3>2. CASE a \in Adelantos /\ c[a] > 0 /\ d.saldo[a] = c[a]
      BY <1>7, <1>9, <1>13, <3>2
    <3> QED BY <1>11, <3>1, <3>2
  <2> QED BY <1>0, <1>1, <1>8, <1>12, <1>14, <2>1, <2>2, <2>3, CobrosCambian
<1>20. /\ pago' \in [Settlements -> Nat] /\ vacacion' \in Nat
       /\ \A k \in Settlements \ {l} : pago'[k] = pago[k]
  <2>1. pago \in [Settlements -> Nat] /\ vacacion \in Nat
    BY <1>0 DEF TypeOK
  <2>2. CASE Finiquito(d.vacacion) = 0 \/ d.pago # 0
    <3>1. pago' = pago /\ vacacion' = vacacion
      BY <1>3, <2>2 DEF PagaVacacion
    <3> QED BY <2>1, <3>1
  <2>3. CASE ~(Finiquito(d.vacacion) = 0 \/ d.pago # 0)
    <3>1. pago' = [pago EXCEPT ![l] = d.vacacion] /\ vacacion' = 0
      BY <1>3, <2>3 DEF PagaVacacion
    <3> QED BY <1>1, <1>5, <2>1, <3>1
  <2> QED BY <2>2, <2>3
<1>21. /\ liquidacion' \in [Settlements -> LiquidacionType] /\ liquidacion'[l] = q
       /\ \A k \in Settlements \ {l} : liquidacion'[k] = liquidacion[k]
  BY <1>0, <1>1, <1>4, <1>6, FilaType
<1>22. Terminadas' = Terminadas \cup {l}
  BY <1>1, <1>6, <1>21 DEF Terminadas
<1>23. SinCobrar'
  <2> SUFFICES ASSUME NEW k \in Settlements \ Terminadas, k # l
               PROVE  pago'[k] = 0 /\ \A a \in Adelantos : abonado'[k][a] = 0
    BY <1>22 DEF SinCobrar
  <2>1. abonado'[k] = abonado[k] /\ pago'[k] = pago[k]
    BY <1>0, <1>8, <1>20 DEF TypeOK
  <2> QED BY <2>1 DEF CInv, SinCobrar
<1>24. TypeOK'
  <2>2. saldo' \in [Adelantos -> Nat] /\ pagados' \subseteq Adelantos
    BY <1>5, <1>10, <1>11, <1>14
  <2>3. abonado' \in [Settlements -> [Adelantos -> Nat]] /\ comprobante' \in [Settlements -> Totales]
    BY <1>0, <1>1, <1>4, <1>6, <1>8, <1>12 DEF TypeOK
  <2>4. nomina' \in [Nominas -> NominaType] /\ activo' \in BOOLEAN
    BY <1>0, <1>3 DEF TypeOK
  <2>5. operations' \in 0 .. MaxOperations
    BY <1>0, <1>17 DEF TypeOK
  <2> QED BY <1>17, <1>20, <1>21, <2>2, <2>3, <2>4, <2>5 DEF TypeOK
<1>25. \A k \in Requests : request'[k].op # "aplicando"
  <2> SUFFICES ASSUME NEW k \in Requests, request'[k].op = "aplicando"
               PROVE  FALSE
    OBVIOUS
  <2>1. request'[k] = request[k]
    BY <1>18 DEF SinLeer
  <2>2. k = r
    BY <1>3, <2>1 DEF CInv, UnaSola
  <2>3. request'[r] = Idle
    BY <1>0, <1>17 DEF TypeOK
  <2> QED BY <2>2, <2>3 DEF Idle
<1>26. UnaSola' /\ Firmes'
  BY <1>25 DEF UnaSola, Firmes
<1>27. SinAbonos'
  BY <1>18, <1>22 DEF CInv, SinAbonos, SinLeer
<1>28. ~incidentes' => ~incidentes /\ l \notin Terminadas
  <2>1. ~Overtaken(r) => l \notin Terminadas
    BY <1>3 DEF Overtaken, EstadoPrevio, Terminadas, l
  <2> QED BY <1>17, <2>1
<1>29. Limpio'
  <2>1. ~incidentes /\ l \notin Terminadas => ~pisa
    BY <1>3 DEF CInv, Firmes, Orderly, pisa, l, d
  <2> QED BY <1>17, <1>28, <2>1 DEF CInv, Limpio, Orderly
<1> QED BY <1>19, <1>23, <1>24, <1>26, <1>27, <1>29 DEF CInv

LEMMA PagarCInv == ASSUME CInv, NEW r \in Requests, Pagar(r) PROVE CInv'
<1> DEFINE l == request[r].l
           q == liquidacion[l]
           p == [q EXCEPT !.estado = "paid"]
<1>0. TypeOK
  BY DEF CInv
<1>1. l \in Settlements
  BY <1>0, PedidaType DEF Pagar, Idle
<1>2. /\ liquidacion' = [liquidacion EXCEPT ![l] = p] /\ End(r, FALSE)
      /\ UNCHANGED <<comprobante, abonado, pago, saldo, pagados, vacacion, nomina, activo>>
  BY DEF Pagar, cobros
<1> HIDE DEF l
<1>3. q \in LiquidacionType
  BY <1>0, <1>1 DEF TypeOK
<1>4. p \in LiquidacionType /\ p.estado = "paid"
  <2> HIDE DEF q
  <2> QED BY <1>3 DEF LiquidacionType
<1> HIDE DEF p
<1>5. /\ liquidacion' \in [Settlements -> LiquidacionType] /\ liquidacion'[l] = p
      /\ \A k \in Settlements \ {l} : liquidacion'[k] = liquidacion[k]
  BY <1>0, <1>1, <1>2, <1>4, FilaType
<1>6. /\ request' = [request EXCEPT ![r] = Idle]
      /\ request' \in [Requests -> Doing \cup {Idle}]
      /\ incidentes' \in BOOLEAN /\ operations' = operations
      /\ pisados' = pisados /\ (incidentes => incidentes')
  <2>1. FALSE \in BOOLEAN
    OBVIOUS
  <2>2. pisados \in BOOLEAN
    BY <1>0 DEF TypeOK
  <2> QED BY <1>0, <1>2, <2>1, <2>2, EndType
<1>7. TypeOK'
  BY <1>0, <1>2, <1>5, <1>6 DEF TypeOK
<1>8. Terminadas \subseteq Terminadas'
  BY <1>1, <1>4, <1>5 DEF Terminadas
<1>9. SinLeer
  BY <1>0, <1>6, SinLeerTermina DEF Idle
<1> QED BY <1>2, <1>6, <1>7, <1>8, <1>9, CobrosIguales

LEMMA PeticionCInv ==
  ASSUME CInv, NEW r \in Requests, NEW d \in Doing \cup {Idle},
         d.op \notin {"recalculando", "aplicando"},
         request' = [request EXCEPT ![r] = d], operations' \in 0 .. MaxOperations,
         UNCHANGED <<papeles, cobros, nomina, activo, historia>>
  PROVE  CInv'
<1>0. TypeOK
  BY DEF CInv
<1>1. UNCHANGED <<liquidacion, comprobante, abonado, pago, saldo, pagados, vacacion, nomina, activo,
                  incidentes, pisados>>
  BY DEF papeles, cobros, historia
<1>2. TypeOK'
  BY <1>0, <1>1 DEF TypeOK
<1>3. Terminadas' = Terminadas
  BY <1>1 DEF Terminadas
<1>4. SinLeer
  BY <1>0, SinLeerTermina
<1> QED BY <1>1, <1>2, <1>3, <1>4, CobrosIguales

LEMMA LeeCInv ==
  ASSUME CInv, NEW r \in Requests, NEW op \in {"recalcular", "aplicar", "pagar"},
         NEW l \in Settlements, Lee(r, op, l)
  PROVE  CInv'
<1> DEFINE d == [op |-> op, l |-> l]
<1>1. d \in Doing /\ d.op \notin {"recalculando", "aplicando"}
  BY DEF Doing
<1>2. operations' \in 0 .. MaxOperations
  BY BoundsAssumption DEF CInv, TypeOK, Lee, Begin
<1>3. request' = [request EXCEPT ![r] = d] /\ UNCHANGED <<papeles, cobros, nomina, activo, historia>>
  BY DEF Lee, Begin
<1> HIDE DEF d
<1> QED BY <1>1, <1>2, <1>3, PeticionCInv

LEMMA FailsCInv == ASSUME CInv, NEW r \in Requests, Fails(r) PROVE CInv'
<1>1. operations' \in 0 .. MaxOperations
  BY DEF CInv, TypeOK, Fails
<1>2. Idle.op \notin {"recalculando", "aplicando"}
  BY DEF Idle
<1> QED BY <1>1, <1>2, PeticionCInv DEF Fails

\* A payroll whose row is set collects nothing.
LEMMA NominaCInv ==
  ASSUME CInv, NEW n \in Nominas, NEW q \in NominaType,
         nomina' = [nomina EXCEPT ![n] = q], vacacion' \in Nat,
         UNCHANGED <<papeles, abonado, pago, saldo, pagados, activo, request, operations, historia>>
  PROVE  CInv'
<1>0. TypeOK
  BY DEF CInv
<1>1. UNCHANGED <<liquidacion, comprobante, incidentes, pisados>>
  BY DEF papeles, historia
<1>2. TypeOK'
  BY <1>0, <1>1 DEF TypeOK
<1>3. Terminadas' = Terminadas
  BY <1>1 DEF Terminadas
<1>4. SinLeer
  BY DEF SinLeer
<1> QED BY <1>1, <1>2, <1>3, <1>4, CobrosIguales

\* The row a payroll gets.
LEMMA GenerarFila ==
  ASSUME NEW n \in Nominas, Generar(n)
  PROVE  \E q \in NominaType : q.estado # "applied" /\ nomina' = [nomina EXCEPT ![n] = q]
<1>1. PICK periodo \in 1 .. MaxFecha :
        nomina' = [nomina EXCEPT ![n] = [estado |-> "ready", periodo |-> periodo, tras |-> {}]]
  BY DEF Generar
<1>2. periodo \in 0 .. MaxFecha
  BY BoundsAssumption
<1>3. [estado |-> "ready", periodo |-> periodo, tras |-> {}] \in NominaType
  BY <1>2 DEF NominaType
<1> QED BY <1>1, <1>3

LEMMA AplicarNominaFila ==
  ASSUME TypeOK, NEW n \in Nominas, AplicarNomina(n)
  PROVE  \E q \in NominaType :
           q.tras = Terminadas \cup EnCurso /\ nomina' = [nomina EXCEPT ![n] = q]
<1> DEFINE t == Terminadas \cup EnCurso
           f == nomina[n]
           g == [f EXCEPT !.estado = "applied"]
           q == [g EXCEPT !.tras = t]
<1>1. f \in NominaType
  BY DEF TypeOK
<1>2. t \subseteq Settlements
  <2>1. \A r \in Requests : request[r].op = "aplicando" => request[r].l \in Settlements
    BY LeidaType
  <2> QED BY <2>1 DEF EnCurso, Terminadas
<1>3. nomina' = [nomina EXCEPT ![n] = q]
  BY DEF AplicarNomina
<1>4. q \in NominaType /\ q.tras = t
  <2>1. g \in NominaType
    <3> HIDE DEF f
    <3> QED BY <1>1 DEF NominaType
  <2> HIDE DEF g, t
  <2> QED BY <1>2, <2>1 DEF NominaType
<1> QED BY <1>3, <1>4

LEMMA AnularNominaFila ==
  ASSUME TypeOK, NEW n \in Nominas, AnularNomina(n)
  PROVE  \E q \in NominaType : q.estado # "applied" /\ nomina' = [nomina EXCEPT ![n] = q]
<1> DEFINE f == nomina[n]
           q == [f EXCEPT !.estado = "cancelled"]
<1>1. f \in NominaType
  BY DEF TypeOK
<1>2. nomina' = [nomina EXCEPT ![n] = q]
  BY DEF AnularNomina
<1>3. q \in NominaType /\ q.estado # "applied"
  <2> HIDE DEF f
  <2> QED BY <1>1 DEF NominaType
<1> QED BY <1>2, <1>3

LEMMA GenerarCInv == ASSUME CInv, NEW n \in Nominas, Generar(n) PROVE CInv'
<1>1. PICK q \in NominaType : nomina' = [nomina EXCEPT ![n] = q]
  BY GenerarFila
<1>2. UNCHANGED <<papeles, abonado, pago, saldo, pagados, vacacion, activo, request, operations, historia>>
  BY DEF Generar, cobros
<1>3. vacacion' \in Nat
  BY <1>2 DEF CInv, TypeOK
<1> QED BY <1>1, <1>2, <1>3, NominaCInv

LEMMA AplicarNominaCInv == ASSUME CInv, NEW n \in Nominas, AplicarNomina(n) PROVE CInv'
<1>0. TypeOK
  BY DEF CInv
<1>1. PICK q \in NominaType : nomina' = [nomina EXCEPT ![n] = q]
  BY <1>0, AplicarNominaFila
<1>2. UNCHANGED <<papeles, abonado, pago, saldo, pagados, activo, request, operations, historia>>
  BY DEF AplicarNomina
<1>3. vacacion' \in Nat
  <2>1. vacacion \in Nat
    BY <1>0 DEF TypeOK
  <2> QED BY <2>1 DEF AplicarNomina
<1> QED BY <1>1, <1>2, <1>3, NominaCInv

LEMMA AnularNominaCInv == ASSUME CInv, NEW n \in Nominas, AnularNomina(n) PROVE CInv'
<1>0. TypeOK
  BY DEF CInv
<1>1. PICK q \in NominaType : nomina' = [nomina EXCEPT ![n] = q]
  BY <1>0, AnularNominaFila
<1>2. UNCHANGED <<papeles, abonado, pago, saldo, pagados, vacacion, activo, request, operations, historia>>
  BY DEF AnularNomina, cobros
<1>3. vacacion' \in Nat
  BY <1>0, <1>2 DEF TypeOK
<1> QED BY <1>1, <1>2, <1>3, NominaCInv

LEMMA NextCInv == ASSUME CInv, [Next]_vars PROVE CInv'
<1>1. CASE UNCHANGED vars
  <2>0. TypeOK
    BY DEF CInv
  <2>1. UNCHANGED <<liquidacion, comprobante, abonado, pago, saldo, pagados, vacacion, nomina,
                    activo, request, operations, incidentes, pisados>>
    BY <1>1 DEF vars, papeles, cobros, historia
  <2>2. TypeOK'
    BY <2>0, <2>1 DEF TypeOK
  <2>3. Terminadas' = Terminadas
    BY <2>1 DEF Terminadas
  <2>4. SinLeer
    BY <2>1 DEF SinLeer
  <2> QED BY <2>1, <2>2, <2>3, <2>4, CobrosIguales
<1>2. CASE Next
  <2>1. CASE \E l \in Settlements, fecha \in 1 .. MaxFecha, concepto \in 0 .. MaxConcepto :
               Nueva(l, fecha, concepto)
    BY <2>1, NuevaCInv
  <2>2. CASE \E l \in Settlements, r \in Requests, op \in {"recalcular", "aplicar", "pagar"} :
               Lee(r, op, l)
    BY <2>2, LeeCInv
  <2>3. CASE \E r \in Requests : RecalcularLee(r) \/ Recalcular(r) \/ AplicarLee(r) \/ Aplicar(r)
    BY <2>3, RecalcularLeeCInv, RecalcularCInv, AplicarLeeCInv, AplicarCInv
  <2>4. CASE \E r \in Requests : Pagar(r) \/ Fails(r)
    BY <2>4, PagarCInv, FailsCInv
  <2>5. CASE \E n \in Nominas : Generar(n) \/ AplicarNomina(n) \/ AnularNomina(n)
    BY <2>5, GenerarCInv, AplicarNominaCInv, AnularNominaCInv
  <2> QED BY <1>2, <2>1, <2>2, <2>3, <2>4, <2>5 DEF Next
<1> QED BY <1>1, <1>2

THEOREM CobrosInvariant == Spec => []CInv
<1>1. Init => CInv
  BY InitCInv
<1>2. CInv /\ [Next]_vars => CInv'
  BY NextCInv
<1> QED BY <1>1, <1>2, PTL DEF Spec

-----------------------------------------------------------------------------
(* The days                                                                  *)

\* What is being applied counted every payroll that is not marked as later.
Contadas ==
  Orderly =>
    \A r \in Requests :
      request[r].op = "aplicando" /\ request[r].l \notin Terminadas =>
        \A n \in Aplicadas :
          request[r].l \in nomina[n].tras \/ nomina[n].periodo <= request[r].d.ultimo

\* Who has a settlement that was applied has left.
SeFue == Orderly => (Terminadas # {} => ~activo)

IInv == SeFue /\ Contadas /\ DiasUnaVez

LEMMA UltimoFields ==
  ASSUME nomina \in [Nominas -> NominaType]
  PROVE  \A n \in Aplicadas : nomina[n].periodo \in 0 .. MaxFecha /\ nomina[n].periodo <= UltimoDiaPagado
<1> DEFINE S == {0} \cup {nomina[n].periodo : n \in Aplicadas}
<1>1. MaxFecha \in Nat
  BY BoundsAssumption
<1>2. \A n \in Aplicadas : nomina[n].periodo \in 0 .. MaxFecha
  BY DEF Aplicadas, NominaType
<1>3. S \in SUBSET (0 .. MaxFecha) /\ S # {}
  BY <1>1, <1>2
<1>4. \A y \in S : y <= Max(S)
  <2> HIDE DEF S
  <2> QED BY <1>1, <1>3, MaxFields
<1> QED BY <1>2, <1>4 DEF UltimoDiaPagado

LEMMA CalculadaFields ==
  ASSUME NEW e, NEW f, NEW u, NEW c, NEW v, NEW d, NEW p
  PROVE  /\ Calculada(e, f, u, c, v, d, p).estado = e
         /\ Calculada(e, f, u, c, v, d, p).fecha = f
         /\ Calculada(e, f, u, c, v, d, p).ultimo = u
BY DEF Calculada

LEMMA InitIInv == Init => IInv
<1> SUFFICES ASSUME Init PROVE IInv
  OBVIOUS
<1>1. Terminadas = {}
  BY DEF Init, Terminadas
<1>2. \A r \in Requests : request[r].op = "idle"
  BY DEF Init, Idle
<1> QED BY <1>1, <1>2 DEF IInv, SeFue, Contadas, DiasUnaVez

\* A step that touches no payroll, lets no request read, and ends no settlement
\* but one that was applied with the days of a request that had read them, or
\* one whose estado had changed.
LEMMA SinPagos ==
  ASSUME TypeOK, IInv, NEW l \in Settlements, NEW q,
         liquidacion' = [liquidacion EXCEPT ![l] = q],
         nomina' = nomina, SinLeer, incidentes => incidentes',
         ~incidentes' => /\ Terminadas \subseteq Terminadas'
                         /\ Terminadas' # {} => ~activo'
                         /\ q.estado \in {"applied", "paid"} =>
                              \A n \in Aplicadas :
                                \/ l \in nomina[n].tras \/ nomina[n].periodo <= q.ultimo
                                \/ nomina[n].periodo > q.fecha
  PROVE  IInv'
<1>1. liquidacion'[l] = q /\ \A k \in Settlements : k # l => liquidacion'[k] = liquidacion[k]
  BY DEF TypeOK
<1>2. Aplicadas' = Aplicadas
  BY DEF Aplicadas
<1>3. SeFue'
  BY DEF SeFue, Orderly
<1>4. Contadas'
  <2> SUFFICES ASSUME ~incidentes', NEW r \in Requests, request'[r].op = "aplicando",
                      request'[r].l \notin Terminadas', NEW n \in Aplicadas
               PROVE  request'[r].l \in nomina[n].tras \/ nomina[n].periodo <= request'[r].d.ultimo
    BY <1>2 DEF Contadas, Orderly
  <2>1. request'[r] = request[r]
    BY DEF SinLeer
  <2>2. ~incidentes /\ request[r].op = "aplicando" /\ request[r].l \notin Terminadas
    BY <2>1
  <2> QED BY <2>1, <2>2 DEF IInv, Contadas, Orderly
<1>5. DiasUnaVez'
  <2> SUFFICES ASSUME ~incidentes', NEW k \in Terminadas', NEW n \in Aplicadas
               PROVE  \/ k \in nomina[n].tras \/ nomina[n].periodo <= liquidacion'[k].ultimo
                      \/ nomina[n].periodo > liquidacion'[k].fecha
    BY <1>2 DEF DiasUnaVez, Orderly
  <2>0. k \in Settlements /\ liquidacion'[k].estado \in {"applied", "paid"}
    BY DEF Terminadas
  <2>1. CASE k = l
    BY <1>1, <2>0, <2>1
  <2>2. CASE k # l
    <3>1. k \in Terminadas /\ liquidacion'[k] = liquidacion[k] /\ ~incidentes
      BY <1>1, <2>0, <2>2 DEF Terminadas
    <3> QED BY <3>1 DEF IInv, DiasUnaVez, Orderly
  <2> QED BY <2>1, <2>2
<1> QED BY <1>3, <1>4, <1>5 DEF IInv

\* A step that touches neither the settlements nor the payrolls.
LEMMA SinTocar ==
  ASSUME IInv, UNCHANGED <<liquidacion, nomina, activo, incidentes>>, SinLeer
  PROVE  IInv'
<1>1. Terminadas' = Terminadas /\ Aplicadas' = Aplicadas
  BY DEF Terminadas, Aplicadas
<1>2. SeFue' /\ DiasUnaVez'
  BY <1>1 DEF IInv, SeFue, DiasUnaVez, Orderly
<1>3. Contadas'
  <2> SUFFICES ASSUME ~incidentes, NEW r \in Requests, request'[r].op = "aplicando",
                      request'[r].l \notin Terminadas, NEW n \in Aplicadas
               PROVE  request'[r].l \in nomina[n].tras \/ nomina[n].periodo <= request'[r].d.ultimo
    BY <1>1 DEF Contadas, Orderly
  <2>1. request'[r] = request[r]
    BY DEF SinLeer
  <2> QED BY <2>1 DEF IInv, Contadas, Orderly
<1> QED BY <1>2, <1>3 DEF IInv

-----------------------------------------------------------------------------
(* Every step keeps it                                                       *)

LEMMA NuevaIInv ==
  ASSUME TypeOK, IInv, NEW l \in Settlements, NEW fecha \in 1 .. MaxFecha,
         NEW concepto \in 0 .. MaxConcepto, Nueva(l, fecha, concepto)
  PROVE  IInv'
<1> DEFINE q == Calculada("draft", fecha, UltimoDiaPagado, concepto, vacacion, saldo, pagados)
<1>1. /\ liquidacion' = [liquidacion EXCEPT ![l] = q] /\ liquidacion[l].estado = "none"
      /\ UNCHANGED <<nomina, activo, request, incidentes>>
  BY DEF Nueva, historia
<1>2. q.estado = "draft"
  BY CalculadaFields
<1> HIDE DEF q
<1>3. Terminadas' = Terminadas
  BY <1>1, <1>2 DEF Terminadas, TypeOK
<1>4. SinLeer
  BY <1>1 DEF SinLeer
<1>5. ~incidentes' => (Terminadas' # {} => ~activo')
  BY <1>1, <1>3 DEF IInv, SeFue, Orderly
<1> QED BY <1>1, <1>2, <1>3, <1>4, <1>5, SinPagos

LEMMA RecalcularIInv == ASSUME TypeOK, IInv, NEW r \in Requests, Recalcular(r) PROVE IInv'
<1> DEFINE l == request[r].l
           d == request[r].d
           rev == {a \in Adelantos : d.abonos[a] > 0}
           deuda == [a \in Adelantos |-> d.saldo[a] + d.abonos[a]]
           pisa == rev # {} /\ Cambiados(l, d)
<1>1. l \in Settlements
  BY LeidaType DEF Recalcular
<1>2. PICK concepto \in 0 .. MaxConcepto :
        liquidacion' = [liquidacion EXCEPT ![l] =
          Calculada(liquidacion[l].estado, liquidacion[l].fecha, d.ultimo,
                    concepto, d.vacacion + d.pago, deuda, d.pagados \ rev)]
  BY DEF Recalcular
<1> DEFINE q == Calculada(liquidacion[l].estado, liquidacion[l].fecha, d.ultimo,
                          concepto, d.vacacion + d.pago, deuda, d.pagados \ rev)
<1>3. q.estado = liquidacion[l].estado
  BY CalculadaFields
<1>4. liquidacion' = [liquidacion EXCEPT ![l] = q]
  BY <1>2
<1>5. nomina' = nomina /\ activo' = activo /\ End(r, pisa) /\ request[r].op = "recalculando"
  BY DEF Recalcular
<1>6. pisa \in BOOLEAN
  BY DEF Cambiados
<1> HIDE DEF q, pisa
<1>7. /\ request' = [request EXCEPT ![r] = Idle] /\ (incidentes => incidentes')
      /\ (Overtaken(r) => incidentes')
  BY <1>5, <1>6, EndType
<1>8. SinLeer
  BY <1>7, SinLeerTermina DEF Idle
<1>9. ~incidentes' => ~incidentes /\ l \notin Terminadas
  <2>1. ~Overtaken(r) => l \notin Terminadas
    BY <1>5 DEF Overtaken, EstadoPrevio, Terminadas
  <2> QED BY <1>7, <2>1
<1> HIDE DEF l, d
<1>10. Terminadas' = Terminadas
  BY <1>1, <1>3, <1>4 DEF Terminadas, TypeOK
<1>11. l \notin Terminadas => q.estado \notin {"applied", "paid"}
  BY <1>1, <1>3 DEF Terminadas
<1>12. ~incidentes' => (Terminadas' # {} => ~activo')
  BY <1>5, <1>9, <1>10 DEF IInv, SeFue, Orderly
<1> QED BY <1>1, <1>4, <1>5, <1>7, <1>8, <1>9, <1>10, <1>11, <1>12, SinPagos

LEMMA AplicarIInv == ASSUME TypeOK, IInv, NEW r \in Requests, Aplicar(r) PROVE IInv'
<1> DEFINE l == request[r].l
           d == request[r].d
           pisa == Cambiados(l, d)
<1>1. l \in Settlements
  BY LeidaType DEF Aplicar
<1>2. PICK concepto \in 0 .. MaxConcepto :
        liquidacion' = [liquidacion EXCEPT ![l] =
          Calculada("applied", liquidacion[l].fecha, d.ultimo,
                    concepto, d.vacacion, d.saldo, d.pagados)]
  BY DEF Aplicar
<1> DEFINE q == Calculada("applied", liquidacion[l].fecha, d.ultimo,
                          concepto, d.vacacion, d.saldo, d.pagados)
<1>3. q.estado = "applied" /\ q.ultimo = d.ultimo
  BY CalculadaFields
<1>4. liquidacion' = [liquidacion EXCEPT ![l] = q]
  BY <1>2
<1>5. nomina' = nomina /\ activo' = FALSE /\ End(r, pisa) /\ request[r].op = "aplicando"
  BY DEF Aplicar
<1>6. pisa \in BOOLEAN
  BY DEF Cambiados
<1> HIDE DEF q, pisa
<1>7. /\ request' = [request EXCEPT ![r] = Idle] /\ (incidentes => incidentes')
      /\ (Overtaken(r) => incidentes')
  BY <1>5, <1>6, EndType
<1>8. SinLeer
  BY <1>7, SinLeerTermina DEF Idle
<1>9. ~incidentes' => ~incidentes /\ l \notin Terminadas
  <2>1. ~Overtaken(r) => l \notin Terminadas
    BY <1>5 DEF Overtaken, EstadoPrevio, Terminadas
  <2> QED BY <1>7, <2>1
<1>10. ~incidentes' => \A n \in Aplicadas : l \in nomina[n].tras \/ nomina[n].periodo <= q.ultimo
  BY <1>3, <1>5, <1>9 DEF IInv, Contadas, Orderly
<1> HIDE DEF l, d
<1>11. Terminadas \subseteq Terminadas'
  BY <1>1, <1>3, <1>4 DEF Terminadas, TypeOK
<1> QED BY <1>1, <1>4, <1>5, <1>7, <1>8, <1>10, <1>11, SinPagos

\* Paying changes the state alone, of a settlement that was applied.
LEMMA PagarIInv == ASSUME TypeOK, IInv, NEW r \in Requests, Pagar(r) PROVE IInv'
<1> DEFINE l == request[r].l
           q == liquidacion[l]
           p == [q EXCEPT !.estado = "paid"]
<1>1. l \in Settlements /\ request[r].op = "pagar"
  BY PedidaType DEF Pagar, Idle
<1>2. /\ liquidacion' = [liquidacion EXCEPT ![l] = p]
      /\ nomina' = nomina /\ activo' = activo /\ End(r, FALSE)
  BY DEF Pagar
<1>3. /\ request' = [request EXCEPT ![r] = Idle] /\ (incidentes => incidentes')
      /\ (Overtaken(r) => incidentes')
  <2>1. FALSE \in BOOLEAN
    OBVIOUS
  <2> QED BY <1>2, <2>1, EndType
<1>4. SinLeer
  BY <1>3, SinLeerTermina DEF Idle
<1>5. ~incidentes' => ~incidentes /\ l \in Terminadas
  <2>1. ~Overtaken(r) => l \in Terminadas
    BY <1>1 DEF Overtaken, EstadoPrevio, Terminadas
  <2> QED BY <1>3, <2>1
<1> HIDE DEF l
<1>6. q \in LiquidacionType
  BY <1>1 DEF TypeOK
<1>7. p.estado = "paid" /\ p.fecha = q.fecha /\ p.ultimo = q.ultimo
  <2> HIDE DEF q
  <2> QED BY <1>6 DEF LiquidacionType
<1> HIDE DEF p
<1>8. Terminadas' = Terminadas \cup {l}
  BY <1>1, <1>2, <1>7 DEF Terminadas, TypeOK
<1>9. ~incidentes' => (Terminadas' # {} => ~activo')
  BY <1>2, <1>5, <1>8 DEF IInv, SeFue, Orderly
<1>10. ~incidentes' =>
         \A n \in Aplicadas : \/ l \in nomina[n].tras \/ nomina[n].periodo <= p.ultimo
                              \/ nomina[n].periodo > p.fecha
  BY <1>5, <1>7 DEF IInv, DiasUnaVez, Orderly
<1> QED BY <1>1, <1>2, <1>3, <1>4, <1>8, <1>9, <1>10, SinPagos

LEMMA LeeIInv ==
  ASSUME TypeOK, IInv, NEW r \in Requests, NEW op \in {"recalcular", "aplicar", "pagar"},
         NEW l \in Settlements, Lee(r, op, l)
  PROVE  IInv'
<1> DEFINE d == [op |-> op, l |-> l]
<1>1. d.op \notin {"recalculando", "aplicando"}
  OBVIOUS
<1>2. /\ request' = [request EXCEPT ![r] = d]
      /\ UNCHANGED <<liquidacion, nomina, activo, incidentes>>
  BY DEF Lee, Begin, papeles, historia
<1> HIDE DEF d
<1>3. SinLeer
  BY <1>1, <1>2, SinLeerTermina
<1> QED BY <1>2, <1>3, SinTocar

LEMMA FailsIInv == ASSUME TypeOK, IInv, NEW r \in Requests, Fails(r) PROVE IInv'
<1>1. /\ request' = [request EXCEPT ![r] = Idle]
      /\ UNCHANGED <<liquidacion, nomina, activo, incidentes>>
  BY DEF Fails, papeles, historia
<1>2. SinLeer
  BY <1>1, SinLeerTermina DEF Idle
<1> QED BY <1>1, <1>2, SinTocar

LEMMA RecalcularLeeIInv == ASSUME TypeOK, IInv, NEW r \in Requests, RecalcularLee(r) PROVE IInv'
<1> DEFINE p == [op |-> "recalculando", l |-> request[r].l,
                 d |-> Leido(request[r].l, UltimoDiaPagado)]
<1>1. /\ request' = [request EXCEPT ![r] = p]
      /\ UNCHANGED <<liquidacion, nomina, activo, incidentes>>
  BY DEF RecalcularLee, papeles, historia
<1>2. p.op = "recalculando"
  OBVIOUS
<1> HIDE DEF p
<1>3. Terminadas' = Terminadas /\ Aplicadas' = Aplicadas
  BY <1>1 DEF Terminadas, Aplicadas
<1>4. SeFue' /\ DiasUnaVez'
  BY <1>1, <1>3 DEF IInv, SeFue, DiasUnaVez, Orderly
<1>5. \A q \in Requests : request'[q].op = "aplicando" => request'[q] = request[q]
  BY <1>1, <1>2 DEF TypeOK
<1>6. Contadas'
  <2> SUFFICES ASSUME ~incidentes, NEW q \in Requests, request'[q].op = "aplicando",
                      request'[q].l \notin Terminadas, NEW n \in Aplicadas
               PROVE  request'[q].l \in nomina[n].tras \/ nomina[n].periodo <= request'[q].d.ultimo
    BY <1>1, <1>3 DEF Contadas, Orderly
  <2>1. request'[q] = request[q]
    BY <1>5
  <2> QED BY <2>1 DEF IInv, Contadas, Orderly
<1> QED BY <1>4, <1>6 DEF IInv

\* The one settlement that is being applied counts every payroll applied so far.
LEMMA AplicarLeeIInv == ASSUME TypeOK, IInv, NEW r \in Requests, AplicarLee(r) PROVE IInv'
<1> DEFINE l == request[r].l
           u == UltimoAlAplicar(l)
           p == [op |-> "aplicando", l |-> l, d |-> Leido(l, u)]
<1>1. /\ request' = [request EXCEPT ![r] = p] /\ EmpleadoLibre
      /\ UNCHANGED <<liquidacion, activo, incidentes>>
  BY DEF AplicarLee, papeles, historia
<1>2. nomina' = [n \in Nominas |->
        [nomina[n] EXCEPT !.tras = IF l \in Terminadas THEN @ ELSE @ \ {l}]]
  BY DEF AplicarLee
<1>3. p.op = "aplicando" /\ p.l = l /\ p.d.ultimo = u
  BY DEF Leido
<1>4. \A n \in Aplicadas : nomina[n].periodo <= u
  BY UltimoFields DEF TypeOK, UltimoAlAplicar
<1> HIDE DEF p, l, u
<1>5. \A n \in Nominas : /\ nomina'[n].estado = nomina[n].estado
                         /\ nomina'[n].periodo = nomina[n].periodo
                         /\ \A k \in nomina[n].tras : k # l \/ l \in Terminadas => k \in nomina'[n].tras
  <2> SUFFICES ASSUME NEW n \in Nominas
               PROVE  /\ nomina'[n].estado = nomina[n].estado
                      /\ nomina'[n].periodo = nomina[n].periodo
                      /\ \A k \in nomina[n].tras : k # l \/ l \in Terminadas => k \in nomina'[n].tras
    OBVIOUS
  <2> DEFINE f == nomina[n]
             t == IF l \in Terminadas THEN f.tras ELSE f.tras \ {l}
  <2>1. nomina'[n] = [f EXCEPT !.tras = t]
    BY <1>2
  <2>2. f \in NominaType
    BY DEF TypeOK
  <2>3. \A k \in f.tras : k # l \/ l \in Terminadas => k \in t
    OBVIOUS
  <2>4. /\ [f EXCEPT !.tras = t].estado = f.estado /\ [f EXCEPT !.tras = t].periodo = f.periodo
        /\ [f EXCEPT !.tras = t].tras = t
    <3> HIDE DEF f, t
    <3> QED BY <2>2 DEF NominaType
  <2> HIDE DEF t
  <2> QED BY <2>1, <2>3, <2>4
<1>6. Terminadas' = Terminadas /\ Aplicadas' = Aplicadas
  <2>1. Terminadas' = Terminadas
    BY <1>1 DEF Terminadas
  <2>2. Aplicadas' = Aplicadas
    BY <1>5 DEF Aplicadas
  <2> QED BY <2>1, <2>2
<1>7. SeFue'
  BY <1>1, <1>6 DEF IInv, SeFue, Orderly
<1>8. DiasUnaVez'
  <2> SUFFICES ASSUME ~incidentes, NEW k \in Terminadas, NEW n \in Aplicadas
               PROVE  \/ k \in nomina'[n].tras \/ nomina'[n].periodo <= liquidacion'[k].ultimo
                      \/ nomina'[n].periodo > liquidacion'[k].fecha
    BY <1>1, <1>6 DEF DiasUnaVez, Orderly
  <2>1. n \in Nominas
    BY DEF Aplicadas
  <2>2. \/ k \in nomina[n].tras \/ nomina[n].periodo <= liquidacion[k].ultimo
        \/ nomina[n].periodo > liquidacion[k].fecha
    BY DEF IInv, DiasUnaVez, Orderly
  <2>3. nomina'[n].periodo = nomina[n].periodo /\ (k \in nomina[n].tras => k \in nomina'[n].tras)
    BY <1>5, <2>1
  <2> QED BY <1>1, <2>2, <2>3
<1>9. Contadas'
  <2> SUFFICES ASSUME NEW q \in Requests, request'[q].op = "aplicando", NEW n \in Aplicadas
               PROVE  nomina'[n].periodo <= request'[q].d.ultimo
    BY <1>6 DEF Contadas
  <2>1. q = r
    BY <1>1 DEF EmpleadoLibre, TypeOK
  <2>2. request'[q] = p
    BY <1>1, <2>1 DEF TypeOK
  <2>3. n \in Nominas
    BY DEF Aplicadas
  <2> QED BY <1>3, <1>4, <1>5, <2>2, <2>3
<1> QED BY <1>7, <1>8, <1>9 DEF IInv

\* A payroll whose row is set: what is applied knows which settlements were
\* applied, or were being applied, before it.
LEMMA NominaIInv ==
  ASSUME TypeOK, IInv, NEW n \in Nominas, NEW q \in NominaType,
         nomina' = [nomina EXCEPT ![n] = q],
         q.estado = "applied" => q.tras = Terminadas \cup EnCurso,
         UNCHANGED <<liquidacion, activo, request, incidentes>>
  PROVE  IInv'
<1>1. Terminadas' = Terminadas
  BY DEF Terminadas
<1>2. SeFue'
  BY <1>1 DEF IInv, SeFue, Orderly
<1>3. nomina'[n] = q /\ \A m \in Nominas : m # n => nomina'[m] = nomina[m]
  BY DEF TypeOK
<1>4. DiasUnaVez'
  <2> SUFFICES ASSUME ~incidentes, NEW k \in Terminadas, NEW m \in Aplicadas'
               PROVE  \/ k \in nomina'[m].tras \/ nomina'[m].periodo <= liquidacion[k].ultimo
                      \/ nomina'[m].periodo > liquidacion[k].fecha
    BY <1>1 DEF DiasUnaVez, Orderly
  <2>1. m \in Nominas /\ nomina'[m].estado = "applied"
    BY DEF Aplicadas
  <2>2. CASE m = n
    BY <1>3, <2>1, <2>2
  <2>3. CASE m # n
    <3>1. m \in Aplicadas /\ nomina'[m] = nomina[m]
      BY <1>3, <2>1, <2>3 DEF Aplicadas
    <3> QED BY <3>1 DEF IInv, DiasUnaVez, Orderly
  <2> QED BY <2>2, <2>3
<1>5. Contadas'
  <2> SUFFICES ASSUME ~incidentes, NEW r \in Requests, request[r].op = "aplicando",
                      request[r].l \notin Terminadas, NEW m \in Aplicadas'
               PROVE  request[r].l \in nomina'[m].tras \/ nomina'[m].periodo <= request[r].d.ultimo
    BY <1>1 DEF Contadas, Orderly
  <2>1. m \in Nominas /\ nomina'[m].estado = "applied"
    BY DEF Aplicadas
  <2>2. CASE m = n
    <3>1. request[r].l \in EnCurso
      BY DEF EnCurso
    <3> QED BY <1>3, <2>1, <2>2, <3>1
  <2>3. CASE m # n
    <3>1. m \in Aplicadas /\ nomina'[m] = nomina[m]
      BY <1>3, <2>1, <2>3 DEF Aplicadas
    <3> QED BY <3>1 DEF IInv, Contadas, Orderly
  <2> QED BY <2>2, <2>3
<1> QED BY <1>2, <1>4, <1>5 DEF IInv

LEMMA GenerarIInv == ASSUME TypeOK, IInv, NEW n \in Nominas, Generar(n) PROVE IInv'
<1>1. PICK q \in NominaType : q.estado # "applied" /\ nomina' = [nomina EXCEPT ![n] = q]
  BY GenerarFila
<1>2. UNCHANGED <<liquidacion, activo, request, incidentes>>
  BY DEF Generar, papeles, historia
<1> QED BY <1>1, <1>2, NominaIInv

LEMMA AplicarNominaIInv == ASSUME TypeOK, IInv, NEW n \in Nominas, AplicarNomina(n) PROVE IInv'
<1>1. PICK q \in NominaType :
        q.tras = Terminadas \cup EnCurso /\ nomina' = [nomina EXCEPT ![n] = q]
  BY AplicarNominaFila
<1>2. UNCHANGED <<liquidacion, activo, request, incidentes>>
  BY DEF AplicarNomina, papeles, historia
<1> QED BY <1>1, <1>2, NominaIInv

LEMMA AnularNominaIInv == ASSUME TypeOK, IInv, NEW n \in Nominas, AnularNomina(n) PROVE IInv'
<1>1. PICK q \in NominaType : q.estado # "applied" /\ nomina' = [nomina EXCEPT ![n] = q]
  BY AnularNominaFila
<1>2. UNCHANGED <<liquidacion, activo, request, incidentes>>
  BY DEF AnularNomina, papeles, historia
<1> QED BY <1>1, <1>2, NominaIInv

LEMMA NextIInv == ASSUME TypeOK, IInv, [Next]_vars PROVE IInv'
<1>1. CASE UNCHANGED vars
  <2>1. UNCHANGED <<liquidacion, nomina, activo, request, incidentes>>
    BY <1>1 DEF vars, papeles, historia
  <2>2. SinLeer
    BY <2>1 DEF SinLeer
  <2> QED BY <2>1, <2>2, SinTocar
<1>2. CASE Next
  <2>1. CASE \E l \in Settlements, fecha \in 1 .. MaxFecha, concepto \in 0 .. MaxConcepto :
               Nueva(l, fecha, concepto)
    BY <2>1, NuevaIInv
  <2>2. CASE \E l \in Settlements, r \in Requests, op \in {"recalcular", "aplicar", "pagar"} :
               Lee(r, op, l)
    BY <2>2, LeeIInv
  <2>3. CASE \E r \in Requests : RecalcularLee(r) \/ Recalcular(r) \/ AplicarLee(r) \/ Aplicar(r)
    BY <2>3, RecalcularLeeIInv, RecalcularIInv, AplicarLeeIInv, AplicarIInv
  <2>4. CASE \E r \in Requests : Pagar(r) \/ Fails(r)
    BY <2>4, PagarIInv, FailsIInv
  <2>5. CASE \E n \in Nominas : Generar(n) \/ AplicarNomina(n) \/ AnularNomina(n)
    BY <2>5, GenerarIInv, AplicarNominaIInv, AnularNominaIInv
  <2> QED BY <1>2, <2>1, <2>2, <2>3, <2>4, <2>5 DEF Next
<1> QED BY <1>1, <1>2

-----------------------------------------------------------------------------
(* The theorems                                                              *)

\* Every row has the type its column has: no balance is negative, no
\* settlement's totals are, and each request works on a settlement that exists.
THEOREM TypeCorrect == Spec => []TypeOK
<1>1. CInv => TypeOK
  BY DEF CInv
<1> QED BY <1>1, CobrosInvariant, PTL

THEOREM Invariant == Spec => []IInv
<1>1. Init => IInv
  BY InitIInv
<1>2. TypeOK /\ IInv /\ [Next]_vars => IInv'
  BY NextIInv
<1> QED BY <1>1, <1>2, TypeCorrect, PTL DEF Spec

\* No settlement pays a day of a payroll that was applied before the settlement
\* began to be applied, whatever was applied between its draft and that moment.
THEOREM DaysArePaidOnce == Spec => []DiasUnaVez
<1>1. IInv => DiasUnaVez
  BY DEF IInv
<1> QED BY <1>1, Invariant, PTL

\* Who has a settlement that was applied is no longer paid by a new payroll,
\* unless a request wrote over a change it had not read.
THEOREM SettledHasLeft == Spec => []SeFue
<1>1. IInv => SeFue
  BY DEF IInv
<1> QED BY <1>1, Invariant, PTL

\* Settlements applied at the same time do not write over each other's
\* collections, and what is collected is never lost or made up where nothing was
\* written over.
THEOREM CollectionsAddUp == Spec => []CobrosCuadran
<1>1. CInv => CobrosCuadran
  <2> SUFFICES ASSUME CInv PROVE CobrosCuadran
    OBVIOUS
  <2>1. TypeOK /\ Saldados /\ SinCobrar /\ Limpio
    BY DEF CInv
  <2>2. abonado \in [Settlements -> [Adelantos -> Nat]]
    BY <2>1 DEF TypeOK
  <2>3. ASSUME ~pisados, NEW a \in Adelantos
        PROVE  saldo[a] + MapThenSumSet(LAMBDA l : abonado[l][a], Settlements) = Principal[a]
    <3>1. MapThenSumSet(LAMBDA l : abonado[l][a], Settlements) = Suma(Cobrado(a), Settlements)
      BY <2>2, CobradoEs
    <3> QED BY <2>1, <2>3, <3>1 DEF Saldados, Cuadra
  <2>4. ~pisados => \A a \in Adelantos : a \in pagados => saldo[a] = 0
    BY <2>1 DEF Saldados, Cuadra
  <2> QED BY <2>1, <2>3, <2>4 DEF CobrosCuadran, SinCobrar, Limpio
<1> QED BY <1>1, CobrosInvariant, PTL
================================================================================
