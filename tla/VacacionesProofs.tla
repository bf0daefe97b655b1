--------------------------- MODULE VacacionesProofs ---------------------------
(***************************************************************************)
(* Proofs about Vacaciones.tla: the entries of the account, the rows of    *)
(* the leave requests and what each request in progress read stay          *)
(* consistent, and the handlers implement the ledger of LibroVacaciones.   *)
(*                                                                         *)
(* A sum over a set is proved about without induction: EsSuma says of a    *)
(* function over the subsets of the set that it adds up, whatever the      *)
(* order; one exists (SumaExiste), by a smallest subset that has none, and *)
(* MapThenSumSet is its value (SumaEs).                                    *)
(***************************************************************************)
EXTENDS Vacaciones, FiniteSetTheorems, WellFoundedInduction, TLAPS

-----------------------------------------------------------------------------
(* Sums                                                                      *)

\* F adds up f over every subset of S, in whatever order.
EsSuma(F, f, S) ==
  /\ F \in [SUBSET S -> Int] /\ F[{}] = 0
  /\ \A T \in SUBSET S : \A x \in T : F[T] = f[x] + F[T \ {x}]

\* A property of the subsets of a finite set that fails fails for a smallest one.
LEMMA Minimo ==
  ASSUME NEW S, IsFiniteSet(S), NEW M \in SUBSET SUBSET S, M # {}
  PROVE  \E T \in M : \A U \in M : ~(U \subseteq T /\ U # T)
<1> DEFINE R == StrictSubsetOrdering(S)
<1>1. IsWellFoundedOn(R, FiniteSubsetsOf(S))
  BY FS_StrictSubsetOrderingWellFounded
<1>2. M \subseteq FiniteSubsetsOf(S)
  BY FS_FiniteSubsetsOfFinite
<1>3. PICK T \in M : \A U \in M : ~(<<U, T>> \in R)
  <2> HIDE DEF R
  <2> QED BY <1>1, <1>2, WFMin
<1>4. ASSUME NEW U \in M, U \subseteq T, U # T
      PROVE  FALSE
  <2>1. <<U, T>> \in R
    BY <1>4 DEF StrictSubsetOrdering
  <2> HIDE DEF R
  <2> QED BY <1>3, <2>1
<1> QED BY <1>4

LEMMA SumaExiste ==
  ASSUME NEW S, IsFiniteSet(S), NEW f \in [S -> Int]
  PROVE  \E F : EsSuma(F, f, S)
<1> DEFINE M == {T \in SUBSET S : \A F : ~EsSuma(F, f, T)}
<1> SUFFICES ASSUME M # {} PROVE FALSE
  OBVIOUS
<1>1. PICK T \in M : \A U \in M : ~(U \subseteq T /\ U # T)
  <2>1. M \in SUBSET SUBSET S
    OBVIOUS
  <2> HIDE DEF M
  <2> QED BY <2>1, Minimo
<1>2. T # {}
  <2> SUFFICES ASSUME T = {} PROVE FALSE
    OBVIOUS
  <2>1. EsSuma([X \in SUBSET {} |-> 0], f, {})
    BY DEF EsSuma
  <2> QED BY <2>1
<1>3. PICK x \in T : TRUE
  BY <1>2
<1> DEFINE V == T \ {x}
<1>4. PICK F : EsSuma(F, f, V)
  <2>1. V \in SUBSET S /\ V \subseteq T /\ V # T
    BY <1>3
  <2> QED BY <1>1, <2>1
<1> DEFINE G == [X \in SUBSET T |-> IF x \in X THEN f[x] + F[X \ {x}] ELSE F[X]]
<1>5. \A X \in SUBSET T : X \ {x} \in SUBSET V /\ (x \notin X => X \in SUBSET V)
  OBVIOUS
<1>6. \A X \in SUBSET V : F[X] \in Int
  BY <1>4 DEF EsSuma
<1>7. \A y \in T : f[y] \in Int
  OBVIOUS
<1>8. G \in [SUBSET T -> Int] /\ G[{}] = 0
  <2>1. F[{}] = 0
    BY <1>4 DEF EsSuma
  <2> QED BY <2>1, <1>5, <1>6, <1>7
<1>9. ASSUME NEW X \in SUBSET T, NEW y \in X
      PROVE  G[X] = f[y] + G[X \ {y}]
  <2>0. X \ {y} \in SUBSET T /\ y \in T
    OBVIOUS
  <2>1. CASE x \notin X
    <3>1. X \in SUBSET V
      BY <2>1
    <3>2. F[X] = f[y] + F[X \ {y}]
      BY <1>4, <3>1 DEF EsSuma
    <3> QED BY <2>0, <2>1, <3>2
  <2>2. CASE x \in X /\ y = x
    BY <2>0, <2>2
  <2>3. CASE x \in X /\ y # x
    <3>1. X \ {x} \in SUBSET V /\ y \in X \ {x} /\ x \in X \ {y}
      BY <2>3
    <3>2. F[X \ {x}] = f[y] + F[(X \ {x}) \ {y}]
      BY <1>4, <3>1 DEF EsSuma
    <3>3. (X \ {x}) \ {y} = (X \ {y}) \ {x}
      OBVIOUS
    <3>4. G[X] = f[x] + F[X \ {x}] /\ G[X \ {y}] = f[x] + F[(X \ {x}) \ {y}]
      BY <2>0, <2>3, <3>1, <3>3
    <3>5. F[(X \ {x}) \ {y}] \in Int /\ f[x] \in Int /\ f[y] \in Int
      BY <1>3, <1>6, <1>7, <2>0
    <3> HIDE DEF G
    <3> QED BY <3>2, <3>4, <3>5
  <2> QED BY <2>1, <2>2, <2>3
<1>10. EsSuma(G, f, T)
  <2> HIDE DEF G
  <2> QED BY <1>8, <1>9 DEF EsSuma
<1> QED BY <1>10

\* The sums of MapThenSumSet, which takes the members in an order of its own,
\* are those.
LEMMA SumaUnica ==
  ASSUME NEW S, IsFiniteSet(S), NEW f \in [S -> Int], NEW F, NEW G,
         EsSuma(F, f, S), 
         G = [s \in SUBSET S |-> IF s = {} THEN 0
                 ELSE f[CHOOSE x \in s : TRUE] + G[s \ {CHOOSE x \in s : TRUE}]]
  PROVE  G = F
<1> DEFINE M == {T \in SUBSET S : F[T] # G[T]}
<1>1. M = {}
  <2> SUFFICES ASSUME M # {} PROVE FALSE
    OBVIOUS
  <2>1. PICK T \in M : \A U \in M : ~(U \subseteq T /\ U # T)
    <3>1. M \in SUBSET SUBSET S
      OBVIOUS
    <3> HIDE DEF M
    <3> QED BY <3>1, Minimo
  <2>2. CASE T = {}
    <3>1. G[{}] = 0 
      OBVIOUS
    <3> QED BY <2>2, <3>1 DEF EsSuma
  <2>3. CASE T # {}
    <3> DEFINE x == CHOOSE x \in T : TRUE
    <3>1. x \in T
      BY <2>3
    <3>2. G[T] = f[x] + G[T \ {x}]
      BY <2>3
    <3>3. F[T] = f[x] + F[T \ {x}]
      BY <3>1 DEF EsSuma
    <3>4. T \ {x} \notin M
      BY <2>1, <3>1
    <3>5. T \ {x} \in SUBSET S
      OBVIOUS
    <3> HIDE DEF x
    <3> QED BY <3>2, <3>3, <3>4, <3>5
  <2> QED BY <2>2, <2>3
<1>2. G = [s \in SUBSET S |-> G[s]] /\ F = [s \in SUBSET S |-> F[s]]
  BY DEF EsSuma
<1> QED BY <1>1, <1>2

LEMMA SumaEs ==
  ASSUME NEW S, IsFiniteSet(S), NEW f \in [S -> Int], NEW F, EsSuma(F, f, S)
  PROVE  MapThenSumSet(LAMBDA k : f[k], S) = F[S]
<1> DEFINE G == CHOOSE g : g = [s \in SUBSET S |-> IF s = {} THEN 0
                 ELSE f[CHOOSE x \in s : TRUE] + g[s \ {CHOOSE x \in s : TRUE}]]
<1>1. F = [s \in SUBSET S |-> IF s = {} THEN 0
                 ELSE f[CHOOSE x \in s : TRUE] + F[s \ {CHOOSE x \in s : TRUE}]]
  BY DEF EsSuma
<1>2. G = [s \in SUBSET S |-> IF s = {} THEN 0
                 ELSE f[CHOOSE x \in s : TRUE] + G[s \ {CHOOSE x \in s : TRUE}]]
  BY <1>1
<1>3. MapThenSumSet(LAMBDA k : f[k], S) = G[S]
  BY DEF MapThenSumSet, MapThenFoldSet
<1> HIDE DEF G
<1> QED BY <1>2, <1>3, SumaUnica

\* Changing one amount moves the sum by the difference.
LEMMA SumaCambia ==
  ASSUME NEW S, IsFiniteSet(S), NEW f \in [S -> Int], NEW h \in [S -> Int], NEW x \in S,
         \A k \in S \ {x} : h[k] = f[k]
  PROVE  MapThenSumSet(LAMBDA k : h[k], S) = MapThenSumSet(LAMBDA k : f[k], S) + h[x] - f[x]
<1>1. PICK F : EsSuma(F, f, S)
  BY SumaExiste
<1> DEFINE H == [T \in SUBSET S |-> F[T] + (IF x \in T THEN h[x] - f[x] ELSE 0)]
<1>2. H \in [SUBSET S -> Int] /\ H[{}] = 0
  BY <1>1 DEF EsSuma
<1>3. ASSUME NEW T \in SUBSET S, NEW y \in T
      PROVE  H[T] = h[y] + H[T \ {y}]
  <2>1. T \ {y} \in SUBSET S /\ y \in S
    OBVIOUS
  <2>2. F[T] = f[y] + F[T \ {y}] /\ F[T \ {y}] \in Int
    BY <1>1, <2>1 DEF EsSuma
  <2> QED BY <2>1, <2>2
<1>4. EsSuma(H, h, S)
  <2> HIDE DEF H
  <2> QED BY <1>2, <1>3 DEF EsSuma
<1>5. MapThenSumSet(LAMBDA k : h[k], S) = H[S]
  <2> HIDE DEF H
  <2> QED BY <1>4, SumaEs
<1>6. H[S] = F[S] + (h[x] - f[x]) /\ F[S] \in Int
  BY <1>1 DEF EsSuma
<1> QED BY <1>1, <1>5, <1>6, SumaEs

\* The sum of an account is that of its entries.
LEMMA SumaLibro ==
  ASSUME NEW f \in [Claves -> Int], NEW F, EsSuma(F, f, Claves)
  PROVE  Libro!Suma(f) = F[Claves]
<1>1. MapThenSumSet(LAMBDA k : f[k], Claves) = F[Claves]
  BY FiniteAssumption, SumaEs
<1> QED BY <1>1 DEF Libro!Suma, Libro!MapThenSumSet, Libro!MapThenFoldSet, MapThenSumSet, MapThenFoldSet

\* An account without entries sums to zero.
LEMMA SumaVacia ==
  ASSUME NEW f \in [Claves -> Int], \A k \in Claves : f[k] = 0
  PROVE  Libro!Suma(f) = 0
<1>1. EsSuma([T \in SUBSET Claves |-> 0], f, Claves)
  BY DEF EsSuma
<1>2. Libro!Suma(f) = [T \in SUBSET Claves |-> 0][Claves]
  BY <1>1, SumaLibro
<1> QED BY <1>2

LEMMA SumaEntera ==
  ASSUME NEW f \in [Claves -> Int]
  PROVE  Libro!Suma(f) \in Int
<1>1. PICK F : EsSuma(F, f, Claves)
  BY FiniteAssumption, SumaExiste
<1>2. Libro!Suma(f) = F[Claves]
  BY <1>1, SumaLibro
<1>3. F[Claves] \in Int
  BY <1>1 DEF EsSuma
<1> QED BY <1>2, <1>3

\* One entry moves the balance by its amount.
LEMMA UnAsiento ==
  ASSUME NEW f \in [Claves -> Int], NEW x \in Claves, NEW v \in Int
  PROVE  Libro!Suma([f EXCEPT ![x] = v]) = Libro!Suma(f) + v - f[x]
<1> DEFINE h == [f EXCEPT ![x] = v]
<1>1. h \in [Claves -> Int] /\ h[x] = v /\ \A k \in Claves \ {x} : h[k] = f[k]
  OBVIOUS
<1> HIDE DEF h
<1>2. MapThenSumSet(LAMBDA k : h[k], Claves)
        = MapThenSumSet(LAMBDA k : f[k], Claves) + h[x] - f[x]
  BY <1>1, FiniteAssumption, SumaCambia
<1>3. PICK F : EsSuma(F, f, Claves)
  BY FiniteAssumption, SumaExiste
<1>4. PICK H : EsSuma(H, h, Claves)
  BY <1>1, FiniteAssumption, SumaExiste
<1>5. Libro!Suma(f) = MapThenSumSet(LAMBDA k : f[k], Claves)
  BY <1>3, FiniteAssumption, SumaEs, SumaLibro
<1>6. Libro!Suma(h) = MapThenSumSet(LAMBDA k : h[k], Claves)
  BY <1>1, <1>4, FiniteAssumption, SumaEs, SumaLibro
<1>7. Libro!Suma(h) = Libro!Suma(f) + v - f[x]
  BY <1>1, <1>2, <1>5, <1>6
<1> QED BY <1>7 DEF h

\* The units of the requests that a payroll takes.
LEMMA UnidadesEs ==
  ASSUME NEW T \in SUBSET Solicitudes, NEW u \in [T -> Int],
         \A s \in T : u[s] = solicitud[s].unidades,
         NEW U, EsSuma(U, u, T)
  PROVE  Unidades(T) = U[T]
<1>0. IsFiniteSet(T)
  BY FiniteAssumption, FS_Subset DEF Claves
<1> DEFINE P(g) == g = [s \in SUBSET T |-> IF s = {} THEN 0
         ELSE solicitud[CHOOSE x \in s : TRUE].unidades + g[s \ {CHOOSE x \in s : TRUE}]]
           G == CHOOSE g : P(g)
<1>1. U = [s \in SUBSET T |-> IF s = {} THEN 0
                 ELSE u[CHOOSE x \in s : TRUE] + U[s \ {CHOOSE x \in s : TRUE}]]
  BY DEF EsSuma
<1>2. P(U)
  BY <1>1
<1>3. P(G)
  <2> HIDE DEF P
  <2> QED BY <1>2, Zenon
<1>4. Unidades(T) = G[T]
  BY DEF Unidades, MapThenSumSet, MapThenFoldSet
<1> HIDE DEF G
<1>5. G = [s \in SUBSET T |-> IF s = {} THEN 0
                 ELSE u[CHOOSE x \in s : TRUE] + G[s \ {CHOOSE x \in s : TRUE}]]
  BY <1>3
<1>6. G = U
  BY <1>0, <1>5, SumaUnica
<1> QED BY <1>4, <1>6

\* What applying a payroll posts: the accrual, less the units of the leave.
LEMMA SumaAsientos ==
  ASSUME NEW f \in [Claves -> Int], NEW n \in Nominas, NEW a \in Int,
         NEW T \in SUBSET Solicitudes, f[n] = 0, \A s \in T : f[s] = 0,
         \A s \in Solicitudes : solicitud[s].unidades \in Nat,
         NEW h \in [Claves -> Int],
         \A k \in Claves : h[k] = IF k = n THEN a
                                  ELSE IF k \in T THEN -solicitud[k].unidades ELSE f[k]
  PROVE  Libro!Suma(h) = Libro!Suma(f) + a - Unidades(T) /\ Unidades(T) \in Int
<1> DEFINE u == [s \in T |-> solicitud[s].unidades]
<1>1. IsFiniteSet(T) /\ T \subseteq Claves /\ n \in Claves /\ n \notin T
  BY FiniteAssumption, NamesAssumption, FS_Subset DEF Claves
<1>2. u \in [T -> Int] /\ \A s \in T : u[s] = solicitud[s].unidades
  OBVIOUS
<1> HIDE DEF u
<1>3. PICK F : EsSuma(F, f, Claves)
  BY FiniteAssumption, SumaExiste
<1>4. PICK U : EsSuma(U, u, T)
  BY <1>1, <1>2, SumaExiste
<1> DEFINE H == [X \in SUBSET Claves |-> F[X] + (IF n \in X THEN a ELSE 0) - U[X \cap T]]
<1>5. \A X \in SUBSET Claves : F[X] \in Int /\ U[X \cap T] \in Int
  BY <1>3, <1>4 DEF EsSuma
<1>6. H \in [SUBSET Claves -> Int] /\ H[{}] = 0
  <2>1. {} \cap T = {} /\ F[{}] = 0 /\ U[{}] = 0
    BY <1>3, <1>4 DEF EsSuma
  <2>2. H[{}] = F[{}] + 0 - U[{} \cap T]
    OBVIOUS
  <2>3. H[{}] = 0
    <3> HIDE DEF H
    <3> QED BY <2>1, <2>2
  <2>4. ASSUME NEW X \in SUBSET Claves
        PROVE  F[X] + (IF n \in X THEN a ELSE 0) - U[X \cap T] \in Int
    <3> DEFINE p == F[X]
               q == U[X \cap T]
               v == IF n \in X THEN a ELSE 0
    <3>1. p \in Int /\ q \in Int
      BY <1>5
    <3>2. v \in Int
      <4>1. CASE n \in X
        BY <4>1
      <4>2. CASE n \notin X
        BY <4>2
      <4> QED BY <4>1, <4>2
    <3> HIDE DEF p, q, v
    <3>3. p + v - q \in Int
      BY <3>1, <3>2
    <3> QED BY <3>3 DEF p, q, v
  <2> QED BY <2>3, <2>4
<1>7. ASSUME NEW X \in SUBSET Claves, NEW y \in X
      PROVE  H[X] = h[y] + H[X \ {y}]
  <2>1. X \ {y} \in SUBSET Claves /\ y \in Claves
    OBVIOUS
  <2>2. F[X] = f[y] + F[X \ {y}]
    BY <1>3 DEF EsSuma
  <2>3. F[X \ {y}] \in Int /\ U[X \cap T] \in Int /\ U[(X \ {y}) \cap T] \in Int
    BY <1>5, <2>1
  <2>4. /\ H[X] = F[X] + (IF n \in X THEN a ELSE 0) - U[X \cap T]
        /\ H[X \ {y}] = F[X \ {y}] + (IF n \in X \ {y} THEN a ELSE 0) - U[(X \ {y}) \cap T]
    BY <2>1
  <2> HIDE DEF H
  <2>5. CASE y = n
    <3>1. (X \ {y}) \cap T = X \cap T /\ h[y] = a /\ f[y] = 0
      BY <1>1, <2>5
    <3>2. /\ H[X] = F[X] + a - U[X \cap T]
          /\ H[X \ {y}] = F[X \ {y}] + 0 - U[X \cap T]
      BY <2>4, <2>5, <3>1
    <3>3. F[X] = F[X \ {y}]
      BY <2>2, <2>3, <3>1
    <3> QED BY <2>3, <3>1, <3>2, <3>3
  <2>6. CASE y \in T
    <3>1. (X \ {y}) \cap T = (X \cap T) \ {y} /\ y \in X \cap T /\ X \cap T \in SUBSET T
      BY <2>6
    <3>2. U[X \cap T] = u[y] + U[(X \ {y}) \cap T]
      BY <1>4, <3>1 DEF EsSuma
    <3>3. h[y] = -u[y] /\ f[y] = 0 /\ u[y] \in Int /\ y # n
      BY <1>1, <1>2, <2>1, <2>6
    <3>4. F[X] = F[X \ {y}]
      BY <2>2, <2>3, <3>3
    <3>5. CASE n \in X
      <4>1. /\ H[X] = F[X] + a - U[X \cap T]
            /\ H[X \ {y}] = F[X \ {y}] + a - U[(X \ {y}) \cap T]
        BY <2>4, <3>3, <3>5
      <4> QED BY <2>3, <3>2, <3>3, <3>4, <4>1
    <3>6. CASE n \notin X
      <4>1. /\ H[X] = F[X] + 0 - U[X \cap T]
            /\ H[X \ {y}] = F[X \ {y}] + 0 - U[(X \ {y}) \cap T]
        BY <2>4, <3>6
      <4> QED BY <2>3, <3>2, <3>3, <3>4, <4>1
    <3> QED BY <3>5, <3>6
  <2>7. CASE y # n /\ y \notin T
    <3>1. (X \ {y}) \cap T = X \cap T /\ h[y] = f[y] /\ f[y] \in Int
      BY <2>1, <2>7
    <3>2. CASE n \in X
      <4>1. /\ H[X] = F[X] + a - U[X \cap T]
            /\ H[X \ {y}] = F[X \ {y}] + a - U[X \cap T]
        BY <2>4, <2>7, <3>1, <3>2
      <4> QED BY <2>2, <2>3, <3>1, <4>1
    <3>3. CASE n \notin X
      <4>1. /\ H[X] = F[X] + 0 - U[X \cap T]
            /\ H[X \ {y}] = F[X \ {y}] + 0 - U[X \cap T]
        BY <2>4, <3>1, <3>3
      <4> QED BY <2>2, <2>3, <3>1, <4>1
    <3> QED BY <3>2, <3>3
  <2> QED BY <2>5, <2>6, <2>7
<1>8. Libro!Suma(h) = H[Claves]
  <2>1. EsSuma(H, h, Claves)
    <3> HIDE DEF H
    <3> QED BY <1>6, <1>7 DEF EsSuma
  <2> HIDE DEF H
  <2> QED BY <2>1, SumaLibro
<1>9. H[Claves] = F[Claves] + a - U[T] /\ F[Claves] \in Int /\ U[T] \in Int
  <2>1. Claves \cap T = T
    BY <1>1
  <2> QED BY <1>1, <1>5, <2>1
<1>10. Libro!Suma(f) = F[Claves] /\ Unidades(T) = U[T]
  BY <1>2, <1>3, <1>4, SumaLibro, UnidadesEs
<1> QED BY <1>8, <1>9, <1>10

-----------------------------------------------------------------------------
(* What a period earns                                                       *)

LEMMA MaxDeDos ==
  ASSUME NEW x \in Int, NEW y \in Int
  PROVE  Max({x, y}) = (IF x >= y THEN x ELSE y)
BY DEF Max

LEMMA MinDeDos ==
  ASSUME NEW x \in Int, NEW y \in Int
  PROVE  Min({x, y}) = (IF x <= y THEN x ELSE y)
BY DEF Min

\* Of finitely many tiers, one is the last reached.
LEMMA UltimoTramo ==
  ASSUME NEW A, IsFiniteSet(A), A # {}, \A t \in A : t.anios \in Nat
  PROVE  \E t \in A : \A u \in A : u.anios <= t.anios
<1> DEFINE Encima(t) == {u \in A : u.anios >= t.anios}
           M == {Encima(t) : t \in A}
<1>1. M \in SUBSET SUBSET A /\ M # {}
  OBVIOUS
<1>2. PICK T \in M : \A U \in M : ~(U \subseteq T /\ U # T)
  <2> HIDE DEF M
  <2> QED BY <1>1, Minimo
<1>3. PICK t \in A : T = Encima(t)
  OBVIOUS
<1>4. ASSUME NEW u \in A, ~(u.anios <= t.anios)
      PROVE  FALSE
  <2>1. u.anios \in Nat /\ t.anios \in Nat /\ u.anios > t.anios
    BY <1>4
  <2>2. Encima(u) \subseteq T /\ t \in T /\ t \notin Encima(u)
    BY <1>3, <2>1
  <2>3. Encima(u) \in M
    OBVIOUS
  <2> QED BY <1>2, <2>2, <2>3
<1> QED BY <1>4

LEMMA CasoFields ==
  ASSUME NEW c \in Caso
  PROVE  /\ c.metodo \in {"periodic", "proportional", "seniority"} /\ c.tasa \in Nat
         /\ c.minimo \in Nat /\ c.redondeo \in {"up", "down", "nearest"}
         /\ c.dias \in Nat \ {0} /\ c.alta \in Int /\ c.baja \in Int
         /\ c.faltas \in Nat /\ c.horas \in Nat
         /\ c.tramos \in SUBSET [anios : Nat, tasa : Nat]
BY DEF Caso

\* No case earns less than nothing.
LEMMA DevengadoNat ==
  ASSUME NEW c \in Caso, IsFiniteSet(c.tramos)
  PROVE  Devengado(c) \in Nat
<1> USE CasoFields
<1>1. Fin(c) \in Int
  BY DEF Fin
<1>2. Desde(c) \in Int /\ Hasta(c) \in Int
  BY <1>1, MaxDeDos, MinDeDos DEF Desde, Hasta
<1>3. Trabajados(c) \in Nat
  BY <1>2, MaxDeDos DEF Trabajados
<1>4. DiasCiclo(c) \in {30, 15, 365}
  BY DEF DiasCiclo, DiasQuincena, DiasAnioVacaciones, DiasMesVacaciones
<1>5. ASSUME NEW a \in Nat, NEW b \in Nat \ {0}
      PROVE  Centesimas(a, b) \in Nat
  BY <1>5 DEF Centesimas
<1>6. Periodica(c) \in Nat
  <2>1. DiasCiclo(c) \in Nat \ {0}
    BY <1>4
  <2>2. Min({Trabajados(c), DiasCiclo(c)}) \in Nat
    BY <1>3, <2>1, MinDeDos
  <2>3. c.tasa * Min({Trabajados(c), DiasCiclo(c)}) \in Nat
    BY <2>2
  <2>4. Centesimas(c.tasa * Min({Trabajados(c), DiasCiclo(c)}), DiasCiclo(c)) \in Nat
    BY <1>5, <2>1, <2>3
  <2> QED BY <2>4 DEF Periodica
<1>7. Proporcional(c) \in Nat
  <2> DEFINE d == Max({Trabajados(c) - c.faltas, 0})
             h == Max({d * HorasJornada - c.horas, 0})
  <2>1. d \in Nat
    BY <1>3, MaxDeDos
  <2>2. Proporcional(c) \in {c.tasa * h, c.tasa * d}
    BY DEF Proporcional
  <2> HIDE DEF d
  <2>3. d * HorasJornada - c.horas \in Int
    BY <2>1 DEF HorasJornada
  <2>4. h \in Nat
    BY <2>3, MaxDeDos
  <2> HIDE DEF h
  <2>5. c.tasa * h \in Nat /\ c.tasa * d \in Nat
    BY <2>1, <2>4
  <2> QED BY <2>2, <2>5
<1>8. TasaAnual(c) \in Nat
  <2> DEFINE A == {t \in c.tramos : Cumplidos(c, t.anios)}
             Ultimo(t) == \A u \in A : u.anios <= t.anios
  <2>1. IsFiniteSet(A)
    BY FS_Subset
  <2>2. \A t \in A : t.anios \in Nat /\ t.tasa \in Nat
    OBVIOUS
  <2>3. TasaAnual(c) = IF A = {} THEN 0 ELSE (CHOOSE t \in A : Ultimo(t)).tasa
    BY DEF TasaAnual
  <2>4. A # {} => \E t \in A : Ultimo(t)
    <3> HIDE DEF A
    <3> QED BY <2>1, <2>2, UltimoTramo
  <2> HIDE DEF A, Ultimo
  <2> QED BY <2>2, <2>3, <2>4
<1>9. PorAntiguedad(c) \in Nat
  BY <1>5, <1>8 DEF PorAntiguedad, DiasAnioVacaciones
<1>10. Cantidad(c) \in Nat
  <2>1. \/ c.metodo = "periodic" \/ c.metodo = "proportional" \/ c.metodo = "seniority"
    OBVIOUS
  <2>2. Cantidad(c) \in {0, Periodica(c), Proporcional(c), PorAntiguedad(c)}
    BY <2>1, Zenon DEF Cantidad
  <2> QED BY <1>6, <1>7, <1>9, <2>2
<1>11. Devengado(c) \in {(Cantidad(c) + 99) \div 100, Cantidad(c) \div 100, (Cantidad(c) + 50) \div 100}
  <2>1. c.redondeo = "up" \/ c.redondeo = "down" \/ c.redondeo = "nearest"
    OBVIOUS
  <2> QED BY <2>1, Zenon DEF Devengado, Unidad
<1> QED BY <1>10, <1>11

-----------------------------------------------------------------------------
(* The invariant                                                             *)

Creada(s) == solicitud[s].estado # "none"
Nueva(op) == op \in {"solicitar", "registrar"}

\* What a request writes about, and what it read and tested.
Peticion(r) ==
  /\ Nueva(request[r].op) =>
       /\ request[r].s \in Solicitudes /\ request[r].unidades \in 0 .. MaxUnidades
       /\ ~Creada(request[r].s)
       /\ \A q \in Requests \ {r} : Nueva(request[q].op) => request[q].s # request[r].s
  /\ request[r].op \in {"aprobar", "rechazar"} =>
       /\ request[r].s \in Solicitudes /\ Creada(request[r].s)
       /\ request[r].vista = <<"pending">>
  /\ request[r].op = "adjuntar" =>
       /\ request[r].s \in Solicitudes /\ request[r].n \in Nominas /\ Creada(request[r].s)
       /\ request[r].vista[1].estado = "approved"
       /\ request[r].vista[2] \notin {"none", "applied"}
       /\ \A m \in Nominas : <<request[r].s, m>> \notin request[r].vista[3]
  /\ request[r].op = "anular" => request[r].n \in Nominas /\ request[r].vista = <<"ready">>
  /\ request[r].op = "liquidar" =>
       request[r].saldo \in Int /\ request[r].vista = <<request[r].saldo, TRUE>>
  /\ request[r].op = "cargar" =>
       request[r].vista[3] = TRUE /\ \A k \in Claves : request[r].vista[2][k] = 0

Peticiones ==
  /\ request = [r \in Requests |-> request[r]]
  /\ \A r \in Requests : Peticion(r)

\* What is attached, or has a day of its own, was created; what a snapshot lists
\* has such a day.
Filas ==
  /\ \A p \in puentes : Creada(p[1])
  /\ \A s \in Solicitudes : solicitud[s].fecha # 0 => Creada(s)
  /\ \A n \in Nominas :
       /\ nomina[n].estado = "ready" => nomina[n].periodo # 0
       /\ \A s \in nomina[n].captura : solicitud[s].fecha # 0

\* The entry of a request, and the one payroll it may be attached to: a payroll
\* that is applied while the employee is active deducted it.
SolicitudOK(s) ==
  /\ libro[s] = IF solicitud[s].estado = "taken" THEN -solicitud[s].unidades ELSE 0
  /\ solicitud[s].fecha # 0 =>
       solicitud[s].estado \in {"applied", "taken"} /\ \A n \in Nominas : <<s, n>> \notin puentes
  /\ \A n \in Nominas : <<s, n>> \in puentes =>
       /\ solicitud[s].estado \in {"applied", "taken"}
       /\ solicitud[s].estado = "taken" => nomina[n].estado = "applied"
       /\ activo /\ nomina[n].estado = "applied" /\ nomina[n].captura = {} =>
            solicitud[s].estado = "taken"
       /\ \A m \in Nominas : <<s, m>> \in puentes => m = n

\* What an application has read of the employee still holds, but that he may have
\* left since; and nothing is late before he has.
Aplicaciones ==
  /\ \A n \in Nominas :
       /\ aplicando[n] # "no" => nomina[n].estado = "ready"
       /\ aplicando[n] = "baja" => ~activo
  /\ tardias # {} => ~activo

\* The balance of the account, and what it does not fall below.
CuentaOK ==
  /\ saldo = Libro!Suma(libro)
  /\ \A n \in Nominas : libro[n] # 0 => nomina[n].estado = "applied"
  /\ \A l \in Liquidaciones : libro[l] # 0 => ~activo /\ Libro!Suma(SinTardias) = 0
  /\ AllowNegative \/ saldo >= 0 \/ saldo >= libro[Inicial]

Ordenada == CuentaOK /\ \A s \in Solicitudes : SolicitudOK(s)

IInv == TypeOK /\ Peticiones /\ Filas /\ Aplicaciones /\ (Orderly => Ordenada)

-----------------------------------------------------------------------------
(* What the names denote                                                     *)

LEMMA ClavesAparte ==
  /\ Inicial \in Claves /\ Nominas \subseteq Claves /\ Solicitudes \subseteq Claves
  /\ Liquidaciones \subseteq Claves
  /\ \A n \in Nominas, s \in Solicitudes, l \in Liquidaciones :
       n # s /\ n # l /\ s # l
  /\ \A x \in Nominas \cup Solicitudes \cup Liquidaciones : x # Inicial /\ x # "none"
BY NamesAssumption DEF Claves

LEMMA VistaDe ==
  ASSUME NEW s, NEW n
  PROVE  /\ Vista("cargar", s, n) = <<saldo, libro, activo>>
         /\ Vista("liquidar", s, n) = <<saldo, activo>>
         /\ Vista("aprobar", s, n) = <<solicitud[s].estado>>
         /\ Vista("rechazar", s, n) = <<solicitud[s].estado>>
         /\ Vista("adjuntar", s, n) = <<solicitud[s], nomina[n].estado, puentes>>
         /\ Vista("anular", s, n) = <<nomina[n].estado>>
<1>1. Vista("cargar", s, n) = <<saldo, libro, activo>>
  BY Zenon DEF Vista
<1>2. Vista("liquidar", s, n) = <<saldo, activo>>
  BY Zenon DEF Vista
<1>3. /\ Vista("aprobar", s, n) = <<solicitud[s].estado>>
      /\ Vista("rechazar", s, n) = <<solicitud[s].estado>>
  BY Zenon DEF Vista
<1>4. Vista("adjuntar", s, n) = <<solicitud[s], nomina[n].estado, puentes>>
  BY Zenon DEF Vista
<1>5. Vista("anular", s, n) = <<nomina[n].estado>>
  BY Zenon DEF Vista
<1> QED BY <1>1, <1>2, <1>3, <1>4, <1>5

LEMMA InitIInv == Init => IInv
<1> SUFFICES ASSUME Init PROVE IInv
  OBVIOUS
<1>1. libro = [k \in Claves |-> 0] /\ saldo = 0
  BY DEF Init, Libro!Init
<1>2. TypeOK
  <2>1. libro \in [Claves -> Int] /\ saldo \in Int
    BY <1>1
  <2>2. solicitud \in [Solicitudes -> SolicitudType]
    BY BoundsAssumption DEF Init, SolicitudType, Estados
  <2>3. nomina \in [Nominas -> NominaType]
    BY BoundsAssumption DEF Init, NominaType
  <2>4. puentes \subseteq Solicitudes \X Nominas /\ operations \in 0 .. MaxOperations
    BY BoundsAssumption DEF Init
  <2>5. activo \in BOOLEAN
    BY DEF Init
  <2>6. incidentes \in BOOLEAN
    BY DEF Init
  <2>7. \A r \in Requests : request[r].op \in Ops \cup {"idle"}
    BY DEF Init, Idle
  <2>8. aplicando \in [Nominas -> {"no", "activo", "baja"}] /\ tardias \subseteq Claves
    BY DEF Init
  <2> QED BY <2>1, <2>2, <2>3, <2>4, <2>5, <2>6, <2>7, <2>8 DEF TypeOK
<1>3. Peticiones
  BY DEF Init, Peticiones, Peticion, Idle, Nueva
<1>4. Filas
  BY DEF Init, Filas
<1>5. Libro!Suma(libro) = 0
  BY <1>1, SumaVacia
<1>6. CuentaOK
  BY <1>1, <1>5, ClavesAparte DEF CuentaOK
<1>7. \A s \in Solicitudes : SolicitudOK(s)
  BY <1>1, ClavesAparte DEF Init, SolicitudOK
<1>8. Aplicaciones
  BY DEF Init, Aplicaciones
<1> QED BY <1>2, <1>3, <1>4, <1>6, <1>7, <1>8 DEF IInv, Ordenada

-----------------------------------------------------------------------------
(* Beginning and ending a request                                            *)

\* What the other requests go on from, when a request is over or begins one
\* that creates nothing.
LEMMA PeticionQueda ==
  ASSUME Peticiones, NEW r \in Requests, NEW x,
         request' = [request EXCEPT ![r] = x],
         \A s \in Solicitudes : Creada(s) => Creada(s)',
         \A s \in Solicitudes : Creada(s)' =>
           Creada(s) \/ (Nueva(request[r].op) /\ request[r].s = s),
         NEW q \in Requests \ {r},
         Nueva(x.op) /\ Nueva(request[q].op) => x.s # request[q].s
  PROVE  Peticion(q)'
<1>1. request'[q] = request[q] /\ request'[r] = x /\ Peticion(q)
  BY DEF Peticiones
<1>2. \A p \in Requests \ {r} : request'[p] = request[p]
  BY DEF Peticiones
<1>3. Nueva(request[q].op) =>
        /\ request[q].s \in Solicitudes /\ request[q].unidades \in 0 .. MaxUnidades
        /\ solicitud'[request[q].s].estado = "none"
        /\ \A p \in Requests \ {q} : Nueva(request'[p].op) => request'[p].s # request[q].s
  BY <1>1, <1>2 DEF Peticion, Nueva, Creada
<1>4. request[q].op \in {"aprobar", "rechazar", "adjuntar"} =>
        solicitud'[request[q].s].estado # "none"
  BY <1>1 DEF Peticion, Creada
<1> QED BY <1>1, <1>3, <1>4 DEF Peticion, Nueva, Creada

\* A request that is over leaves the others.
LEMMA PeticionesEnd ==
  ASSUME Peticiones, NEW r \in Requests,
         request' = [request EXCEPT ![r] = Idle],
         \A s \in Solicitudes : Creada(s) => Creada(s)',
         \A s \in Solicitudes : Creada(s)' =>
           Creada(s) \/ (Nueva(request[r].op) /\ request[r].s = s)
  PROVE  Peticiones'
<1>1. request' = [q \in Requests |-> request'[q]] /\ request'[r] = Idle
  BY DEF Peticiones
<1>2. Peticion(r)'
  BY <1>1 DEF Peticion, Idle, Nueva
<1>3. ASSUME NEW q \in Requests \ {r}
      PROVE  Peticion(q)'
  <2>1. ~Nueva(Idle.op)
    BY DEF Idle, Nueva
  <2> QED BY <2>1, PeticionQueda
<1> QED BY <1>1, <1>2, <1>3 DEF Peticiones

\* What a step that leaves the requests leaves of Peticiones.
LEMMA PeticionesIgual ==
  ASSUME Peticiones, UNCHANGED request,
         \A s \in Solicitudes : Creada(s)' <=> Creada(s)
  PROVE  Peticiones'
BY DEF Peticiones, Peticion, Creada, Nueva

\* A request that is over may have been overtaken; if it was not, the rows it
\* read are as it read them.
LEMMA EndFields ==
  ASSUME TypeOK, Peticiones, NEW r \in Requests, End(r)
  PROVE  /\ request' = [request EXCEPT ![r] = Idle]
         /\ \A q \in Requests : request'[q].op \in Ops \cup {"idle"}
         /\ operations' \in 0 .. MaxOperations
         /\ incidentes' \in BOOLEAN
         /\ UNCHANGED <<aplicando, tardias>>
         /\ Orderly' => Orderly /\ ~Overtaken(r)
<1>1. request' = [request EXCEPT ![r] = Idle] /\ UNCHANGED <<operations, aplicando, tardias>>
      /\ incidentes' = (incidentes \/ Overtaken(r))
  BY DEF End
<1>2. \A q \in Requests : request'[q].op \in Ops \cup {"idle"}
  BY <1>1 DEF TypeOK, Peticiones, Idle
<1>3. incidentes' \in BOOLEAN
  BY <1>1
<1>4. Orderly' => Orderly /\ ~Overtaken(r)
  BY <1>1 DEF Orderly
<1> QED BY <1>1, <1>2, <1>3, <1>4 DEF TypeOK

\* What is kept of the applications under way by a step of no payroll.
LEMMA AplicacionesIgual ==
  ASSUME Aplicaciones, UNCHANGED <<aplicando, tardias, nomina>>, activo' => activo
  PROVE  Aplicaciones'
BY DEF Aplicaciones

\* What a step that moves only requests keeps.
LEMMA SoloPeticiones ==
  ASSUME IInv, UNCHANGED <<cuenta, filas, incidentes>>, Peticiones',
         \A r \in Requests : request'[r].op \in Ops \cup {"idle"},
         operations' \in 0 .. MaxOperations
  PROVE  IInv'
<1> USE DEF IInv, cuenta, filas
<1>1. TypeOK'
  BY DEF TypeOK
<1>2. Filas'
  BY DEF Filas, Creada
<1>3. Orderly' => Ordenada'
  BY DEF Orderly, Ordenada, CuentaOK, SinTardias, SolicitudOK
<1>4. Aplicaciones'
  BY AplicacionesIgual
<1> QED BY <1>1, <1>2, <1>3, <1>4

LEMMA BeginFields ==
  ASSUME IInv, NEW r \in Requests, NEW op \in Ops, NEW s, NEW n, NEW unidades,
         Begin(r, op, s, n, unidades)
  PROVE  /\ request' = [request EXCEPT ![r] =
              [op |-> op, s |-> s, n |-> n, saldo |-> saldo, unidades |-> unidades,
               vista |-> Vista(op, s, n)]]
         /\ request' = [q \in Requests |-> request'[q]]
         /\ request'[r].op = op /\ request'[r].s = s /\ request'[r].n = n
         /\ request'[r].saldo = saldo /\ request'[r].unidades = unidades
         /\ request'[r].vista = Vista(op, s, n)
         /\ \A q \in Requests \ {r} : request'[q] = request[q]
         /\ UNCHANGED <<cuenta, filas, incidentes>>
         /\ operations' \in 0 .. MaxOperations
         /\ \A q \in Requests : request'[q].op \in Ops \cup {"idle"}
<1> DEFINE x == [op |-> op, s |-> s, n |-> n, saldo |-> saldo, unidades |-> unidades,
                 vista |-> Vista(op, s, n)]
<1>1. x.op = op /\ x.s = s /\ x.n = n /\ x.saldo = saldo /\ x.unidades = unidades
      /\ x.vista = Vista(op, s, n)
  OBVIOUS
<1>2. request' = [request EXCEPT ![r] = x]
  BY DEF Begin
<1>3. UNCHANGED <<cuenta, filas, incidentes>>
  BY DEF Begin
<1>4. operations' \in 0 .. MaxOperations
  BY BoundsAssumption DEF Begin, IInv, TypeOK
<1> HIDE DEF x
<1>5. request' = [q \in Requests |-> request'[q]] /\ request'[r] = x
      /\ \A q \in Requests \ {r} : request'[q] = request[q]
  BY <1>2 DEF IInv, Peticiones
<1>6. \A q \in Requests : request'[q].op \in Ops \cup {"idle"}
  BY <1>1, <1>5 DEF IInv, TypeOK
<1> QED BY <1>1, <1>2, <1>3, <1>4, <1>5, <1>6 DEF x

\* A request begins, and what it read is as it tested it.
LEMMA EmpiezaPeticiones ==
  ASSUME IInv, NEW r \in Requests, NEW op \in Ops, NEW s, NEW n, NEW unidades,
         Begin(r, op, s, n, unidades), Peticion(r)',
         Nueva(op) => \A q \in Requests : Nueva(request[q].op) => request[q].s # s
  PROVE  IInv'
<1> DEFINE x == [op |-> op, s |-> s, n |-> n, saldo |-> saldo, unidades |-> unidades,
                 vista |-> Vista(op, s, n)]
<1>1. request' = [request EXCEPT ![r] = x] /\ UNCHANGED <<cuenta, filas, incidentes>>
      /\ request' = [q \in Requests |-> request'[q]]
  BY BeginFields
<1>2. x.op = op /\ x.s = s
  OBVIOUS
<1> HIDE DEF x
<1>3. /\ \A k \in Solicitudes : Creada(k) => Creada(k)'
      /\ \A k \in Solicitudes : Creada(k)' =>
           Creada(k) \/ (Nueva(request[r].op) /\ request[r].s = k)
  BY <1>1 DEF filas, Creada
<1>4. ASSUME NEW q \in Requests \ {r}
      PROVE  Peticion(q)'
  <2>1. Nueva(x.op) /\ Nueva(request[q].op) => x.s # request[q].s
    BY <1>2
  <2>2. Peticiones
    BY DEF IInv
  <2> QED BY <1>1, <1>3, <2>1, <2>2, PeticionQueda
<1>5. Peticiones'
  BY <1>1, <1>4 DEF Peticiones
<1> QED BY <1>1, <1>5, BeginFields, SoloPeticiones

LEMMA EmpiezaIInv ==
  ASSUME IInv, NEW r \in Requests, Empieza(r)
  PROVE  IInv'
<1> USE DEF IInv, Peticion, Nueva
<1>1. CASE CargarLee(r)
  <2>1. Begin(r, "cargar", "none", "none", 0) /\ SinMovimientos
    BY <1>1 DEF CargarLee
  <2>2. /\ request'[r].op = "cargar"
        /\ request'[r].vista = <<saldo, libro, activo>>
    BY <2>1, BeginFields, VistaDe DEF Ops
  <2>3. request'[r].vista[3] = TRUE
    <3>1. activo = TRUE
      BY <2>1 DEF SinMovimientos, TypeOK
    <3> QED BY <2>2, <3>1
  <2>4. \A k \in Claves : request'[r].vista[2][k] = 0
    <3>1. request'[r].vista[2] = libro
      BY <2>2
    <3> QED BY <2>1, <3>1 DEF SinMovimientos
  <2>5. request'[r].op = "cargar"
    BY <2>2
  <2>6. Peticion(r)'
    BY <2>3, <2>4, <2>5
  <2> QED BY <2>1, <2>6, EmpiezaPeticiones DEF Ops
<1>2. CASE LiquidarLee(r)
  <2>1. Begin(r, "liquidar", "none", "none", 0) /\ activo
    BY <1>2 DEF LiquidarLee
  <2>2. /\ request'[r].op = "liquidar" /\ request'[r].saldo = saldo
        /\ request'[r].vista = <<saldo, activo>>
    <3>1. /\ request'[r].op = "liquidar" /\ request'[r].saldo = saldo
          /\ request'[r].vista = Vista("liquidar", "none", "none")
      BY <2>1, BeginFields DEF Ops
    <3>2. Vista("liquidar", "none", "none") = <<saldo, activo>>
      BY VistaDe, Zenon
    <3> QED BY <3>1, <3>2, Zenon
  <2>3. activo = TRUE
    BY <2>1 DEF TypeOK
  <2>4. saldo \in Int
    BY DEF TypeOK
  <2>5. Peticion(r)'
    BY <2>2, <2>3, <2>4
  <2> QED BY <2>1, <2>5, EmpiezaPeticiones DEF Ops
<1>3. ASSUME NEW s \in Solicitudes, NEW op \in Ops, NEW unidades \in 1 .. MaxUnidades,
             NuevaLee(r, op, s, unidades)
      PROVE  IInv'
  <2>1. /\ Begin(r, op, s, "none", unidades) /\ op \in {"solicitar", "registrar"}
        /\ solicitud[s].estado = "none"
        /\ \A q \in Requests : Nueva(request[q].op) => request[q].s # s
    BY <1>3 DEF NuevaLee
  <2>2. /\ request'[r].op = op /\ request'[r].s = s /\ request'[r].unidades = unidades
        /\ \A q \in Requests \ {r} : request'[q] = request[q]
        /\ UNCHANGED filas
    BY <2>1, BeginFields
  <2>3. unidades \in 0 .. MaxUnidades
    BY BoundsAssumption
  <2>4. ~Creada(s)'
    BY <2>1, <2>2 DEF filas, Creada
  <2>5. Peticion(r)'
    BY <2>1, <2>2, <2>3, <2>4 DEF Creada
  <2> QED BY <2>1, <2>5, EmpiezaPeticiones
<1>4. ASSUME NEW s \in Solicitudes, NEW op \in {"aprobar", "rechazar"},
             solicitud[s].estado = "pending", Begin(r, op, s, "none", 0)
      PROVE  IInv'
  <2>1. op \in Ops
    BY DEF Ops
  <2>2. /\ request'[r].op = op /\ request'[r].s = s
        /\ request'[r].vista = <<"pending">> /\ UNCHANGED filas
    BY <1>4, <2>1, BeginFields, VistaDe
  <2>3. Peticion(r)'
    BY <1>4, <2>2 DEF Creada, filas
  <2> QED BY <1>4, <2>1, <2>3, EmpiezaPeticiones
<1>5. ASSUME NEW s \in Solicitudes, NEW n \in Nominas, AdjuntarLee(r, s, n)
      PROVE  IInv'
  <2>1. Begin(r, "adjuntar", s, n, 0) /\ Adjuntable(s, n)
    BY <1>5 DEF AdjuntarLee
  <2>2. /\ request'[r].op = "adjuntar" /\ request'[r].s = s /\ request'[r].n = n
        /\ request'[r].vista = <<solicitud[s], nomina[n].estado, puentes>> /\ UNCHANGED filas
    BY <2>1, BeginFields, VistaDe DEF Ops
  <2>3. Creada(s)'
    BY <2>1, <2>2 DEF Adjuntable, Creada, filas
  <2>4. Peticion(r)'
    BY <2>1, <2>2, <2>3 DEF Adjuntable, Creada
  <2> QED BY <2>1, <2>4, EmpiezaPeticiones DEF Ops
<1>6. ASSUME NEW n \in Nominas, AnularLee(r, n)
      PROVE  IInv'
  <2>1. Begin(r, "anular", "none", n, 0) /\ nomina[n].estado = "ready"
    BY <1>6 DEF AnularLee
  <2>2. /\ request'[r].op = "anular" /\ request'[r].n = n
        /\ request'[r].vista = <<"ready">>
    BY <2>1, BeginFields, VistaDe DEF Ops
  <2>3. Peticion(r)'
    BY <2>2
  <2> QED BY <2>1, <2>3, EmpiezaPeticiones DEF Ops
<1> HIDE DEF IInv, Peticion, Nueva
<1>7. ASSUME NEW s \in Solicitudes, AprobarLee(r, s) \/ RechazarLee(r, s)
      PROVE  IInv'
  <2>1. CASE AprobarLee(r, s)
    BY <1>4, <2>1 DEF AprobarLee
  <2>2. CASE RechazarLee(r, s)
    BY <1>4, <2>2 DEF RechazarLee
  <2> QED BY <1>7, <2>1, <2>2
<1> QED BY <1>1, <1>2, <1>3, <1>5, <1>6, <1>7 DEF Empieza

LEMMA FailsIInv ==
  ASSUME IInv, NEW r \in Requests, Fails(r)
  PROVE  IInv'
<1>1. request' = [request EXCEPT ![r] = Idle] /\ UNCHANGED <<cuenta, filas, operations, incidentes>>
  BY DEF Fails
<1>2. \A s \in Solicitudes : Creada(s)' <=> Creada(s)
  BY <1>1 DEF filas, Creada
<1>3. Peticiones'
  BY <1>1, <1>2, PeticionesEnd DEF IInv
<1>4. \A q \in Requests : request'[q].op \in Ops \cup {"idle"}
  BY <1>1 DEF IInv, TypeOK, Peticiones, Idle
<1>5. operations' \in 0 .. MaxOperations
  BY <1>1 DEF IInv, TypeOK
<1> QED BY <1>1, <1>3, <1>4, <1>5, SoloPeticiones

\* A leave request that is not applied yet changes, and it is not taken.
LEMMA CambiaSolicitud ==
  ASSUME IInv, NEW r \in Requests, End(r), NEW s \in Solicitudes, NEW x \in SolicitudType,
         solicitud' = [solicitud EXCEPT ![s] = x],
         UNCHANGED <<cuenta, puentes, nomina, activo>>,
         x.estado # "none",
         Creada(s) \/ (Nueva(request[r].op) /\ request[r].s = s),
         solicitud[s].fecha # 0 => x.fecha # 0,
         x.fecha = solicitud[s].fecha \/ x.estado = "applied",
         ~Overtaken(r) => solicitud[s].estado \in {"none", "pending"} /\ x.estado # "taken"
  PROVE  IInv'
<1> USE DEF IInv, cuenta
<1>1. /\ solicitud' \in [Solicitudes -> SolicitudType] /\ solicitud'[s] = x
      /\ \A k \in Solicitudes \ {s} : solicitud'[k] = solicitud[k]
  BY DEF TypeOK
<1>2. TypeOK'
  BY <1>1, EndFields DEF TypeOK
<1>3. Peticiones'
  <2>1. /\ \A k \in Solicitudes : Creada(k) => Creada(k)'
        /\ \A k \in Solicitudes : Creada(k)' =>
             Creada(k) \/ (Nueva(request[r].op) /\ request[r].s = k)
    BY <1>1 DEF Creada
  <2>2. request' = [request EXCEPT ![r] = Idle]
    BY DEF End
  <2> QED BY <2>1, <2>2, PeticionesEnd
<1>4. Filas'
  BY <1>1 DEF Filas, Creada, TypeOK, NominaType
<1>5. Orderly' => Ordenada'
  <2> SUFFICES ASSUME Orderly' PROVE Ordenada'
    OBVIOUS
  <2>1. Ordenada /\ solicitud[s].estado \in {"none", "pending"} /\ x.estado # "taken"
    BY EndFields
  <2>2. CuentaOK'
    BY <2>1, EndFields DEF Ordenada, CuentaOK, SinTardias
  <2>3. SolicitudOK(s)'
    <3>1. libro[s] = 0 /\ solicitud[s].fecha = 0 /\ \A n \in Nominas : <<s, n>> \notin puentes
      BY <2>1 DEF Ordenada, SolicitudOK
    <3> QED BY <1>1, <2>1, <3>1 DEF SolicitudOK
  <2>4. ASSUME NEW k \in Solicitudes \ {s}
        PROVE  SolicitudOK(k)'
    BY <1>1, <2>1 DEF Ordenada, SolicitudOK
  <2> QED BY <2>2, <2>3, <2>4 DEF Ordenada
<1>6. Aplicaciones'
  BY EndFields, AplicacionesIgual
<1> QED BY <1>2, <1>3, <1>4, <1>5, <1>6

LEMMA NuevaIInv ==
  ASSUME IInv, NEW r \in Requests, Solicitar(r) \/ Registrar(r)
  PROVE  IInv'
<1> DEFINE s == request[r].s
<1>1. /\ s \in Solicitudes /\ request[r].unidades \in 0 .. MaxUnidades /\ ~Creada(s)
      /\ Nueva(request[r].op) /\ End(r) /\ UNCHANGED <<cuenta, puentes, nomina, activo>>
  BY DEF Solicitar, Registrar, IInv, Peticiones, Peticion, Nueva
<1>2. PICK x \in SolicitudType :
        /\ solicitud' = [solicitud EXCEPT ![s] = x]
        /\ x.estado \in {"pending", "applied"} /\ (x.estado = "pending" => x.fecha = 0)
  <2>1. CASE Solicitar(r)
    <3>1. [estado |-> "pending", unidades |-> request[r].unidades, fecha |-> 0] \in SolicitudType
      BY <1>1, BoundsAssumption DEF SolicitudType, Estados
    <3> QED BY <2>1, <3>1 DEF Solicitar
  <2>2. CASE Registrar(r)
    <3>1. PICK fecha \in 1 .. MaxPeriodo :
            solicitud' = [solicitud EXCEPT ![s] =
              [estado |-> "applied", unidades |-> request[r].unidades, fecha |-> fecha]]
      BY <2>2 DEF Registrar
    <3>2. [estado |-> "applied", unidades |-> request[r].unidades, fecha |-> fecha] \in SolicitudType
      BY <1>1, BoundsAssumption DEF SolicitudType, Estados
    <3> QED BY <3>1, <3>2
  <2> QED BY <2>1, <2>2
<1>3. solicitud[s].estado = "none" /\ solicitud[s].fecha = 0
  BY <1>1 DEF IInv, Filas, Creada
<1> HIDE DEF s
<1>4. request[r].s = s
  BY DEF s
<1> QED BY <1>1, <1>2, <1>3, <1>4, CambiaSolicitud

LEMMA ResolverIInv ==
  ASSUME IInv, NEW r \in Requests, Aprobar(r) \/ Rechazar(r)
  PROVE  IInv'
<1>1. PICK s \in Solicitudes, estado \in {"approved", "rejected"} :
        /\ s = request[r].s /\ request[r].op \in {"aprobar", "rechazar"}
        /\ solicitud' = [solicitud EXCEPT ![s].estado = estado]
        /\ End(r) /\ UNCHANGED <<cuenta, puentes, nomina, activo>>
        /\ Creada(s) /\ request[r].vista = <<"pending">>
  BY DEF Aprobar, Rechazar, Resolver, IInv, Peticiones, Peticion
<1> DEFINE x == [solicitud[s] EXCEPT !.estado = estado]
<1>2. x \in SolicitudType /\ x.estado = estado /\ x.fecha = solicitud[s].fecha
      /\ solicitud' = [solicitud EXCEPT ![s] = x]
  BY <1>1 DEF IInv, TypeOK, SolicitudType, Estados
<1> HIDE DEF x
<1>3. ~Overtaken(r) => solicitud[s].estado = "pending"
  <2>1. Vista(request[r].op, request[r].s, request[r].n) = <<solicitud[s].estado>>
    BY <1>1, VistaDe
  <2> QED BY <1>1, <2>1 DEF Overtaken
<1> QED BY <1>1, <1>2, <1>3, CambiaSolicitud

LEMMA AdjuntarIInv ==
  ASSUME IInv, NEW r \in Requests, Adjuntar(r)
  PROVE  IInv'
<1> USE DEF IInv, cuenta
<1>1. PICK s \in Solicitudes, n \in Nominas :
        /\ s = request[r].s /\ n = request[r].n /\ request[r].op = "adjuntar"
        /\ puentes' = puentes \cup {<<s, n>>}
        /\ solicitud' = [solicitud EXCEPT ![s].estado = "applied"]
        /\ End(r) /\ UNCHANGED <<cuenta, nomina, activo>> /\ Creada(s)
        /\ request[r].vista[1].estado = "approved"
        /\ request[r].vista[2] \notin {"none", "applied"}
        /\ \A m \in Nominas : <<s, m>> \notin request[r].vista[3]
  BY DEF Adjuntar, Peticiones, Peticion
<1>2. /\ solicitud' \in [Solicitudes -> SolicitudType]
      /\ solicitud'[s].estado = "applied" /\ solicitud'[s].fecha = solicitud[s].fecha
      /\ \A k \in Solicitudes \ {s} : solicitud'[k] = solicitud[k]
  BY <1>1 DEF TypeOK, SolicitudType, Estados
<1>3. TypeOK'
  BY <1>1, <1>2, EndFields DEF TypeOK
<1>4. Peticiones'
  <2>1. /\ \A k \in Solicitudes : Creada(k) => Creada(k)'
        /\ \A k \in Solicitudes : Creada(k)' =>
             Creada(k) \/ (Nueva(request[r].op) /\ request[r].s = k)
    BY <1>1, <1>2 DEF Creada
  <2>2. request' = [request EXCEPT ![r] = Idle]
    BY <1>1 DEF End
  <2> QED BY <2>1, <2>2, PeticionesEnd
<1>5. Filas'
  <2>1. \A p \in puentes' : solicitud'[p[1]].estado # "none"
    <3>1. \A p \in puentes : p[1] \in Solicitudes /\ solicitud[p[1]].estado # "none"
      BY DEF TypeOK, Filas, Creada
    <3>2. \A p \in puentes' : p \in puentes \/ p[1] = s
      BY <1>1
    <3> QED BY <1>2, <3>1, <3>2
  <2>2. \A k \in Solicitudes : solicitud'[k].fecha # 0 => solicitud'[k].estado # "none"
    BY <1>2 DEF Filas, Creada
  <2>3. ASSUME NEW m \in Nominas
        PROVE  /\ nomina'[m].estado = "ready" => nomina'[m].periodo # 0
               /\ \A k \in nomina'[m].captura : solicitud'[k].fecha # 0
    <3>1. \A k \in nomina[m].captura : k \in Solicitudes /\ solicitud[k].fecha # 0
      BY DEF Filas, TypeOK, NominaType
    <3> QED BY <1>1, <1>2, <3>1 DEF Filas
  <2> QED BY <2>1, <2>2, <2>3 DEF Filas, Creada
<1>6. Orderly' => Ordenada'
  <2> SUFFICES ASSUME Orderly' PROVE Ordenada'
    OBVIOUS
  <2>1. Ordenada /\ ~Overtaken(r)
    BY <1>1, EndFields
  <2>2. /\ solicitud[s].estado = "approved" /\ nomina[n].estado \notin {"none", "applied"}
        /\ \A m \in Nominas : <<s, m>> \notin puentes
    <3>1. request[r].vista = <<solicitud[s], nomina[n].estado, puentes>>
      BY <1>1, <2>1, VistaDe DEF Overtaken
    <3> QED BY <1>1, <3>1
  <2>3. CuentaOK'
    BY <1>1, <2>1, EndFields DEF Ordenada, CuentaOK, SinTardias
  <2>4. SolicitudOK(s)'
    <3>1. libro[s] = 0 /\ solicitud[s].fecha = 0
      BY <2>1, <2>2 DEF Ordenada, SolicitudOK
    <3>2. \A m \in Nominas : <<s, m>> \in puentes' => m = n
      BY <1>1, <2>2
    <3>3. libro'[s] = 0 /\ nomina'[n].estado # "applied"
      BY <1>1, <2>2, <3>1
    <3> QED BY <1>2, <3>1, <3>2, <3>3 DEF SolicitudOK
  <2>5. ASSUME NEW k \in Solicitudes \ {s}
        PROVE  SolicitudOK(k)'
    <3>1. \A m \in Nominas : <<k, m>> \in puentes' <=> <<k, m>> \in puentes
      BY <1>1
    <3> QED BY <1>1, <1>2, <2>1, <3>1 DEF Ordenada, SolicitudOK
  <2> QED BY <2>3, <2>4, <2>5 DEF Ordenada
<1>7. Aplicaciones'
  BY <1>1, EndFields, AplicacionesIgual
<1> QED BY <1>3, <1>4, <1>5, <1>6, <1>7

\* What a request leaves that touches neither leave requests nor payrolls.
LEMMA SoloCuenta ==
  ASSUME IInv, NEW r \in Requests, End(r), UNCHANGED <<solicitud, puentes, nomina>>,
         libro' \in [Claves -> Int], saldo' \in Int, activo' \in BOOLEAN, activo' => activo,
         Orderly' /\ Ordenada /\ ~Overtaken(r) =>
           CuentaOK' /\ \A k \in Solicitudes : libro'[k] = libro[k]
  PROVE  IInv'
<1> USE DEF IInv
<1>1. TypeOK'
  BY EndFields DEF TypeOK
<1>2. \A k \in Solicitudes : Creada(k)' <=> Creada(k)
  BY DEF Creada
<1>3. Peticiones'
  BY <1>2, PeticionesEnd DEF End
<1>4. Filas'
  BY DEF Filas, Creada
<1>5. Orderly' => Ordenada'
  <2> SUFFICES ASSUME Orderly' PROVE Ordenada'
    OBVIOUS
  <2>1. Ordenada /\ CuentaOK' /\ \A k \in Solicitudes : libro'[k] = libro[k]
    BY EndFields
  <2>2. ASSUME NEW s \in Solicitudes
        PROVE  SolicitudOK(s)'
    BY <2>1 DEF Ordenada, SolicitudOK
  <2> QED BY <2>1, <2>2 DEF Ordenada
<1>6. Aplicaciones'
  BY EndFields, AplicacionesIgual
<1> QED BY <1>1, <1>3, <1>4, <1>5, <1>6

LEMMA CargarIInv ==
  ASSUME IInv, NEW r \in Requests, Cargar(r)
  PROVE  IInv'
<1>1. PICK monto \in Int :
        libro' = [libro EXCEPT ![Inicial] = libro[Inicial] + monto] /\ saldo' = monto
  <2>1. PICK monto \in (-MaxInicial .. MaxInicial) \ {0} :
          libro' = [libro EXCEPT ![Inicial] = @ + monto] /\ saldo' = monto
    BY DEF Cargar
  <2>2. monto \in Int
    BY BoundsAssumption
  <2> QED BY <2>1, <2>2
<1>2. End(r) /\ UNCHANGED <<solicitud, puentes, nomina>> /\ activo' = activo
      /\ request[r].op = "cargar"
  BY DEF Cargar, filas
<1>3. libro \in [Claves -> Int] /\ activo \in BOOLEAN /\ Inicial \in Claves
  BY ClavesAparte DEF IInv, TypeOK
<1>4. libro' \in [Claves -> Int] /\ libro'[Inicial] = libro[Inicial] + monto
      /\ \A k \in Claves \ {Inicial} : libro'[k] = libro[k]
  BY <1>1, <1>3
<1>5. ASSUME Ordenada, ~Overtaken(r)
      PROVE  CuentaOK' /\ \A k \in Solicitudes : libro'[k] = libro[k]
  <2>1. \A k \in Claves : libro[k] = 0
    <3>1. request[r].vista = <<saldo, libro, activo>>
      <4>1. request[r].vista = Vista("cargar", request[r].s, request[r].n)
        BY <1>2, <1>5 DEF Overtaken
      <4>2. Vista("cargar", request[r].s, request[r].n) = <<saldo, libro, activo>>
        BY VistaDe, Zenon
      <4> QED BY <4>1, <4>2, Zenon
    <3>2. request[r].vista[2] = libro
      BY <3>1
    <3>3. \A k \in Claves : request[r].vista[2][k] = 0
      BY <1>2 DEF IInv, Peticiones, Peticion
    <3> QED BY <3>2, <3>3
  <2>2. Libro!Suma(libro) = 0
    BY <1>3, <2>1, SumaVacia
  <2>3. libro' = [libro EXCEPT ![Inicial] = monto] /\ libro'[Inicial] = monto
    <3>1. libro[Inicial] + monto = monto
      BY <1>3, <2>1
    <3>2. libro'[Inicial] = monto
      BY <1>4, <3>1, Zenon
    <3>3. libro' = [libro EXCEPT ![Inicial] = monto]
      BY <1>1, <3>1, Zenon
    <3> QED BY <3>2, <3>3
  <2>4. Libro!Suma([libro EXCEPT ![Inicial] = monto]) = Libro!Suma(libro) + monto - libro[Inicial]
    BY <1>3, UnAsiento
  <2>5. saldo' = Libro!Suma(libro')
    <3>1. libro[Inicial] = 0
      BY <1>3, <2>1
    <3>2. Libro!Suma([libro EXCEPT ![Inicial] = monto]) = monto
      BY <2>2, <2>4, <3>1
    <3>3. Libro!Suma(libro') = Libro!Suma([libro EXCEPT ![Inicial] = monto])
      BY <2>3
    <3> QED BY <1>1, <3>2, <3>3
  <2>6. \A k \in Nominas \cup Liquidaciones \cup Solicitudes : libro'[k] = 0 /\ libro[k] = 0
    BY <1>4, <2>1, ClavesAparte
  <2>7. saldo' >= libro'[Inicial]
    BY <1>1, <2>3
  <2> QED BY <2>5, <2>6, <2>7 DEF CuentaOK
<1>6. activo' \in BOOLEAN /\ (activo' => activo)
  BY <1>2, <1>3
<1> QED BY <1>1, <1>2, <1>4, <1>5, <1>6, SoloCuenta

LEMMA LiquidarIInv ==
  ASSUME IInv, NEW r \in Requests, Liquidar(r)
  PROVE  IInv'
<1>1. PICK l \in Liquidaciones : Pago(r, l)
  BY DEF Liquidar
<1>2. End(r) /\ UNCHANGED <<solicitud, puentes, nomina>> /\ request[r].op = "liquidar"
  BY DEF Liquidar
<1>3. activo' = FALSE
  BY DEF Liquidar
<1>4. libro \in [Claves -> Int] /\ saldo \in Int /\ l \in Claves /\ request[r].saldo \in Int
  BY <1>2, ClavesAparte DEF IInv, TypeOK, Peticiones, Peticion
<1>5. \/ UNCHANGED cuenta
      \/ /\ request[r].saldo > 0 /\ libro[l] = 0 /\ saldo' = 0
         /\ libro' = [libro EXCEPT ![l] = -request[r].saldo]
  BY <1>1, <1>4 DEF Pago
<1>6. libro' \in [Claves -> Int] /\ saldo' \in Int
  BY <1>4, <1>5 DEF cuenta
<1>7. ASSUME Ordenada, ~Overtaken(r)
      PROVE  CuentaOK' /\ \A k \in Solicitudes : libro'[k] = libro[k]
  <2>1. request[r].saldo = saldo /\ activo
    <3>1. request[r].vista = <<saldo, activo>>
      <4>1. request[r].vista = Vista("liquidar", request[r].s, request[r].n)
        BY <1>2, <1>7 DEF Overtaken
      <4>2. Vista("liquidar", request[r].s, request[r].n) = <<saldo, activo>>
        BY VistaDe, Zenon
      <4> QED BY <4>1, <4>2, Zenon
    <3>2. request[r].vista[1] = saldo /\ request[r].vista[2] = activo
      BY <3>1
    <3>3. request[r].vista = <<request[r].saldo, TRUE>>
      BY <1>2 DEF IInv, Peticiones, Peticion
    <3>4. request[r].vista[1] = request[r].saldo
      BY <3>3
    <3>5. request[r].vista[2] = TRUE
      BY <3>3
    <3>6. activo
      BY <3>2, <3>5
    <3> QED BY <3>2, <3>4, <3>6
  <2>2. CASE UNCHANGED cuenta
    BY <1>2, <1>3, <1>7, <2>1, <2>2, EndFields DEF cuenta, Ordenada, CuentaOK, SinTardias, IInv
  <2>3. CASE /\ request[r].saldo > 0 /\ libro[l] = 0 /\ saldo' = 0
             /\ libro' = [libro EXCEPT ![l] = -request[r].saldo]
    <3>1. -request[r].saldo \in Int
      BY <1>4
    <3>2. Libro!Suma([libro EXCEPT ![l] = -request[r].saldo])
            = Libro!Suma(libro) + (-request[r].saldo) - libro[l]
      BY <1>4, <3>1, UnAsiento
    <3>3. saldo = Libro!Suma(libro)
      BY <1>7 DEF Ordenada, CuentaOK
    <3>4. saldo' = Libro!Suma(libro')
      <4>1. Libro!Suma(libro') = Libro!Suma([libro EXCEPT ![l] = -request[r].saldo])
        BY <2>3
      <4> QED BY <1>4, <2>1, <2>3, <3>2, <3>3, <4>1
    <3>5. \A k \in Nominas \cup Solicitudes : libro'[k] = libro[k]
      <4>1. \A k \in Nominas \cup Solicitudes : k \in Claves /\ k # l
        BY ClavesAparte, NamesAssumption
      <4> QED BY <1>4, <2>3, <4>1
    <3>6. SinTardias' = libro'
      <4>1. tardias' = {}
        BY <1>2, <2>1, EndFields DEF IInv, Aplicaciones
      <4> QED BY <1>6, <4>1 DEF SinTardias
    <3>7. Libro!Suma(SinTardias') = 0
      BY <2>3, <3>4, <3>6
    <3> QED BY <1>2, <1>3, <1>7, <2>3, <3>4, <3>5, <3>7 DEF Ordenada, CuentaOK
  <2> QED BY <1>5, <2>2, <2>3
<1>8. activo' \in BOOLEAN /\ (activo' => activo)
  BY <1>3
<1> QED BY <1>2, <1>6, <1>7, <1>8, SoloCuenta

LEMMA AnularIInv ==
  ASSUME IInv, NEW r \in Requests, Anular(r)
  PROVE  IInv'
<1> USE DEF IInv
<1>1. PICK n \in Nominas : n = request[r].n /\ request[r].op = "anular"
  BY DEF Anular, Peticiones, Peticion
<1> DEFINE sueltas == {s \in Solicitudes : <<s, n>> \in puentes}
<1>2. /\ nomina' = [nomina EXCEPT ![n].estado = "cancelled"]
      /\ libro' = [libro EXCEPT ![n] = 0]
      /\ saldo' = IF libro[n] = 0 THEN saldo ELSE Libro!Suma(libro')
      /\ solicitud' = [s \in Solicitudes |->
           IF s \in sueltas THEN [solicitud[s] EXCEPT !.estado = "approved"] ELSE solicitud[s]]
      /\ puentes' = {p \in puentes : p[2] # n}
      /\ End(r) /\ aplicando[n] = "no"
  BY <1>1 DEF Anular
<1>3. activo' = activo
  BY DEF Anular
<1>4. /\ nomina' \in [Nominas -> NominaType] /\ nomina'[n].estado = "cancelled"
      /\ \A m \in Nominas : nomina'[m].captura = nomina[m].captura
      /\ \A m \in Nominas \ {n} : nomina'[m] = nomina[m]
  BY <1>2 DEF TypeOK, NominaType
<1>5. libro' \in [Claves -> Int]
  BY <1>2, ClavesAparte DEF TypeOK
<1>6. saldo' \in Int
  BY <1>2, <1>5, SumaEntera DEF TypeOK
<1>7. /\ solicitud' \in [Solicitudes -> SolicitudType]
      /\ \A s \in Solicitudes : solicitud'[s].fecha = solicitud[s].fecha
      /\ \A s \in sueltas : solicitud'[s].estado = "approved"
      /\ \A s \in Solicitudes \ sueltas : solicitud'[s] = solicitud[s]
  BY <1>2 DEF TypeOK, SolicitudType, Estados
<1>8. puentes' \subseteq puentes
      /\ \A s \in Solicitudes, m \in Nominas :
           <<s, m>> \in puentes' <=> <<s, m>> \in puentes /\ m # n
  BY <1>2
<1>9. \A s \in sueltas : s \in Solicitudes /\ <<s, n>> \in puentes /\ Creada(s)
  BY DEF Filas
<1> HIDE DEF sueltas
<1>10. TypeOK'
  BY <1>2, <1>3, <1>4, <1>5, <1>6, <1>7, <1>8, EndFields DEF TypeOK
<1>11. \A s \in Solicitudes : Creada(s)' <=> Creada(s)
  BY <1>7, <1>9 DEF Creada
<1>12. Peticiones'
  BY <1>2, <1>11, PeticionesEnd DEF End
<1>13. Filas'
  <2>1. \A p \in puentes' : Creada(p[1])'
    <3>1. \A p \in puentes' : p[1] \in Solicitudes /\ Creada(p[1])
      BY <1>8 DEF TypeOK, Filas
    <3> QED BY <1>11, <3>1
  <2>2. \A s \in Solicitudes : solicitud'[s].fecha # 0 => Creada(s)'
    BY <1>7, <1>11 DEF Filas
  <2>3. ASSUME NEW m \in Nominas
        PROVE  /\ nomina'[m].estado = "ready" => nomina'[m].periodo # 0
               /\ \A s \in nomina'[m].captura : solicitud'[s].fecha # 0
    <3>1. \A s \in nomina[m].captura : s \in Solicitudes /\ solicitud[s].fecha # 0
      BY DEF Filas, TypeOK, NominaType
    <3> QED BY <1>4, <1>7, <3>1 DEF Filas
  <2> QED BY <2>1, <2>2, <2>3 DEF Filas
<1>14. Orderly' => Ordenada'
  <2> SUFFICES ASSUME Orderly' PROVE Ordenada'
    OBVIOUS
  <2>1. Ordenada /\ ~Overtaken(r)
    BY <1>2, EndFields
  <2>2. nomina[n].estado = "ready"
    <3>1. Vista("anular", request[r].s, n) = <<nomina[n].estado>>
      BY VistaDe, Zenon
    <3>2. request[r].vista = <<nomina[n].estado>>
      <4>1. request[r].vista = Vista("anular", request[r].s, n)
        BY <1>1, <2>1 DEF Overtaken
      <4> QED BY <3>1, <4>1, Zenon
    <3>3. request[r].vista = <<"ready">>
      BY <1>1 DEF Peticiones, Peticion
    <3> QED BY <3>2, <3>3
  <2>3. libro[n] = 0
    BY <2>1, <2>2 DEF Ordenada, CuentaOK
  <2>4. libro' = libro /\ saldo' = saldo
    BY <1>2, <2>3 DEF TypeOK
  <2>5. CuentaOK'
    BY <1>2, <1>3, <1>4, <2>1, <2>3, <2>4, EndFields DEF Ordenada, CuentaOK, SinTardias
  <2>6. ASSUME NEW s \in sueltas
        PROVE  SolicitudOK(s)'
    <3>1. /\ solicitud[s].estado = "applied" /\ solicitud[s].fecha = 0
          /\ \A m \in Nominas : <<s, m>> \in puentes => m = n
      BY <1>9, <2>1, <2>2 DEF Ordenada, SolicitudOK
    <3>2. libro[s] = 0
      BY <1>9, <2>1, <3>1 DEF Ordenada, SolicitudOK
    <3>3. \A m \in Nominas : <<s, m>> \notin puentes'
      BY <1>8, <1>9, <3>1
    <3> QED BY <1>7, <1>9, <2>4, <3>1, <3>2, <3>3 DEF SolicitudOK
  <2>7. ASSUME NEW s \in Solicitudes \ sueltas
        PROVE  SolicitudOK(s)'
    <3>1. \A m \in Nominas : <<s, m>> \in puentes' =>
            <<s, m>> \in puentes /\ nomina'[m] = nomina[m]
      BY <1>4, <1>8
    <3>2. solicitud'[s] = solicitud[s] /\ SolicitudOK(s)
      BY <1>7, <2>1 DEF Ordenada
    <3> QED BY <1>3, <2>4, <3>1, <3>2 DEF SolicitudOK
  <2> QED BY <2>5, <2>6, <2>7 DEF Ordenada
<1>15. Aplicaciones'
  <2>1. UNCHANGED <<aplicando, tardias>>
    BY <1>2, EndFields
  <2> QED BY <1>2, <1>3, <1>4, <2>1 DEF Aplicaciones
<1> QED BY <1>10, <1>12, <1>13, <1>14, <1>15

LEMMA GenerarIInv ==
  ASSUME IInv, NEW n \in Nominas, Generar(n)
  PROVE  IInv'
<1> USE DEF IInv
<1>1. PICK periodo \in 1 .. MaxPeriodo :
        nomina' = [nomina EXCEPT ![n] =
          [estado |-> "ready", periodo |-> periodo, captura |-> SinNomina(periodo)]]
  BY DEF Generar
<1>2. /\ nomina[n].estado = "none"
      /\ UNCHANGED <<cuenta, solicitud, puentes, activo, aplicando, tardias, request,
                     operations, incidentes>>
  BY DEF Generar
<1>3. periodo # 0 /\ periodo \in 0 .. MaxPeriodo
  BY BoundsAssumption
<1>4. SinNomina(periodo) \subseteq Solicitudes
      /\ \A s \in SinNomina(periodo) : solicitud[s].fecha # 0
  BY <1>3 DEF SinNomina
<1>5. /\ nomina' \in [Nominas -> NominaType]
      /\ nomina'[n].estado = "ready" /\ nomina'[n].periodo = periodo
      /\ nomina'[n].captura = SinNomina(periodo)
      /\ \A m \in Nominas \ {n} : nomina'[m] = nomina[m]
  BY <1>1, <1>3, <1>4 DEF TypeOK, NominaType
<1>6. TypeOK'
  BY <1>2, <1>5 DEF TypeOK, cuenta
<1>7. \A s \in Solicitudes : Creada(s)' <=> Creada(s)
  BY <1>2 DEF Creada
<1>8. Peticiones'
  BY <1>2, <1>7, PeticionesIgual
<1>9. Filas'
  BY <1>2, <1>3, <1>4, <1>5 DEF Filas, Creada
<1>10. ASSUME Orderly'
       PROVE  Ordenada'
  <2>1. Ordenada
    BY <1>2, <1>10 DEF Orderly
  <2>2. CuentaOK'
    BY <1>2, <1>5, <2>1 DEF Ordenada, CuentaOK, SinTardias, cuenta
  <2>3. ASSUME NEW s \in Solicitudes
        PROVE  SolicitudOK(s)'
    <3>1. <<s, n>> \in puentes => solicitud[s].estado # "taken"
      BY <1>2, <2>1 DEF Ordenada, SolicitudOK
    <3> QED BY <1>2, <1>5, <2>1, <3>1 DEF Ordenada, SolicitudOK, cuenta
  <2> QED BY <2>2, <2>3 DEF Ordenada
<1>11. Aplicaciones'
  BY <1>2, <1>5 DEF Aplicaciones
<1> QED BY <1>6, <1>8, <1>9, <1>10, <1>11

\* What a period earns, and what the cap leaves of it, is never negative.
LEMMA AcumulaNat ==
  ASSUME TypeOK, NEW n, NEW tasa \in Devengos
  PROVE  Acumula(n, tasa) \in Nat
<1>1. tasa \in Nat
  BY CasosAssumption, DevengadoNat DEF Devengos
<1> DEFINE total == Libro!Suma(libro)
<1>2. total \in Int
  BY SumaEntera DEF TypeOK
<1> HIDE DEF total
<1>3. Acumula(n, tasa) =
        IF ~AccrueDuringLeave /\ DeLaNomina(n) # {} THEN 0
        ELSE IF Tope = 0 \/ tasa <= Tope - total THEN tasa
        ELSE IF Tope - total > 0 THEN Tope - total ELSE 0
  BY DEF Acumula, total
<1>4. Tope - total \in Int
  BY <1>2, BoundsAssumption
<1>5. Tope - total > 0 => Tope - total \in Nat
  BY <1>4
<1> DEFINE resta == Tope - total
           sinDevengo == ~AccrueDuringLeave /\ DeLaNomina(n) # {}
<1>6. Acumula(n, tasa) \in {0, tasa} \/ (Acumula(n, tasa) = resta /\ resta > 0)
  BY <1>3, Zenon
<1> QED BY <1>1, <1>5, <1>6

LEMMA UnidadesVacia == Unidades({}) = 0
<1> DEFINE u == [s \in {} |-> 0]
           U == [X \in SUBSET {} |-> 0]
<1>1. u \in [{} -> Int] /\ EsSuma(U, u, {}) /\ U[{}] = 0
  BY DEF EsSuma
<1> HIDE DEF u, U
<1> QED BY <1>1, UnidadesEs

\* What the application posts: the accrual of the payroll and what is deducted
\* for each request, over entries that were not there.
LEMMA AsientosFields ==
  ASSUME TypeOK, NEW n \in Nominas, libro[n] = 0, NEW a \in Nat,
         NEW T \in SUBSET Solicitudes, \A s \in T : libro[s] = 0,
         libro' = Asientos(n, a, T)
  PROVE  /\ libro' \in [Claves -> Int] /\ libro'[n] = a
         /\ \A s \in T : libro'[s] = -solicitud[s].unidades
         /\ \A k \in Claves : k # n /\ k \notin T => libro'[k] = libro[k]
         /\ Libro!Suma(libro') = Libro!Suma(libro) + a - Unidades(T)
         /\ Unidades(T) \in Int
<1>1. \A s \in Solicitudes : solicitud[s].unidades \in Nat
  BY BoundsAssumption DEF TypeOK, SolicitudType
<1>2. n \in Claves /\ T \subseteq Claves /\ n \notin T
  BY ClavesAparte, NamesAssumption
<1>3. libro' = [k \in Claves |-> IF k = n THEN a
                                 ELSE IF k \in T THEN -solicitud[k].unidades ELSE libro[k]]
  BY DEF Asientos
<1>4. libro' \in [Claves -> Int]
  <2>1. \A k \in T : -solicitud[k].unidades \in Int
    BY <1>1
  <2>2. \A k \in Claves : libro[k] \in Int
    BY DEF TypeOK
  <2> QED BY <1>3, <2>1, <2>2
<1>5. \A k \in Claves : libro'[k] = IF k = n THEN a
                                    ELSE IF k \in T THEN -solicitud[k].unidades ELSE libro[k]
  BY <1>3
<1>6. libro \in [Claves -> Int] /\ a \in Int
  BY DEF TypeOK
<1>7. Libro!Suma(libro') = Libro!Suma(libro) + a - Unidades(T) /\ Unidades(T) \in Int
  BY <1>1, <1>4, <1>5, <1>6, SumaAsientos
<1>8. \A s \in T : libro'[s] = -solicitud[s].unidades
  BY <1>2, <1>5
<1> QED BY <1>2, <1>4, <1>5, <1>7, <1>8

\* What a payroll deducts was created and is not taken; a snapshot lists only
\* leave that no payroll holds.
LEMMA DescontablesFields ==
  ASSUME TypeOK, Filas, NEW n \in Nominas
  PROVE  /\ Descontables(n) \subseteq Solicitudes
         /\ \A s \in Descontables(n) :
              libro[s] = 0 /\ solicitud[s].estado \in {"approved", "applied"}
         /\ nomina[n].estado = "ready" =>
              \A s \in Descontables(n) : solicitud[s].fecha # 0 \/ <<s, n>> \in puentes
         /\ nomina[n].captura = {} =>
              \A s \in Solicitudes : <<s, n>> \in puentes =>
                \/ s \in Descontables(n) \/ libro[s] # 0
                \/ solicitud[s].estado \notin {"approved", "applied"}
<1>1. nomina[n].captura \subseteq Solicitudes
  BY DEF TypeOK, NominaType
<1>2. DeLaNomina(n) \subseteq Solicitudes
  BY DEF DeLaNomina, SinNomina
<1>3. Descontables(n) \subseteq Tomadas(n) /\ Tomadas(n) \subseteq Solicitudes
  BY <1>1, <1>2 DEF Descontables, Tomadas
<1>4. nomina[n].estado = "ready" =>
        \A s \in Tomadas(n) : solicitud[s].fecha # 0 \/ <<s, n>> \in puentes
  <2>1. \A s \in nomina[n].captura : solicitud[s].fecha # 0
    BY DEF Filas
  <2>2. nomina[n].estado = "ready" =>
          \A s \in DeLaNomina(n) : solicitud[s].fecha # 0 \/ <<s, n>> \in puentes
    BY DEF Filas, DeLaNomina, SinNomina
  <2> QED BY <2>1, <2>2 DEF Tomadas
<1>5. nomina[n].captura = {} =>
        \A s \in Solicitudes : <<s, n>> \in puentes => s \in Tomadas(n)
  BY DEF Tomadas, DeLaNomina
<1> QED BY <1>3, <1>4, <1>5 DEF Descontables

\* A payroll is applied over an account it already has an entry in, or over
\* that of an employee who had left when he was read: it posts nothing.
LEMMA AplicarNada ==
  ASSUME IInv, NEW n \in Nominas, Aplicar(n), ~Devenga(n), Orderly'
  PROVE  Ordenada'
<1> USE DEF IInv
<1>1. /\ nomina[n].estado = "ready"
      /\ nomina' = [nomina EXCEPT ![n].estado = "applied"]
      /\ UNCHANGED <<cuenta, solicitud, puentes, tardias, incidentes>>
  BY DEF Aplicar, Aplicaciones
<1>2. activo' = activo
  BY DEF Aplicar
<1>3. Ordenada
  BY <1>1 DEF Orderly
<1>4. libro[n] = 0 /\ ~activo
  <2>1. libro[n] = 0
    BY <1>1, <1>3 DEF Ordenada, CuentaOK
  <2>2. aplicando[n] = "baja"
    BY <2>1 DEF Devenga, Aplicar, TypeOK
  <2> QED BY <2>1, <2>2 DEF Aplicaciones
<1>5. /\ nomina'[n].estado = "applied"
      /\ \A m \in Nominas \ {n} : nomina'[m] = nomina[m]
  BY <1>1 DEF TypeOK, NominaType
<1>6. CuentaOK'
  BY <1>1, <1>2, <1>3, <1>4, <1>5 DEF Ordenada, CuentaOK, SinTardias, cuenta
<1>7. ASSUME NEW s \in Solicitudes
      PROVE  SolicitudOK(s)'
  BY <1>1, <1>2, <1>3, <1>4, <1>5 DEF Ordenada, SolicitudOK, cuenta
<1> QED BY <1>6, <1>7 DEF Ordenada

\* A payroll is applied and posts what it earns and what it deducts.
LEMMA AplicarTodo ==
  ASSUME IInv, NEW n \in Nominas, Aplicar(n), Devenga(n)
  PROVE  /\ solicitud' \in [Solicitudes -> SolicitudType]
         /\ libro' \in [Claves -> Int] /\ saldo' \in Int
         /\ \A s \in Solicitudes :
              (Creada(s)' <=> Creada(s)) /\ solicitud'[s].fecha = solicitud[s].fecha
         /\ \A k \in Claves : libro[k] # 0 => libro'[k] = libro[k]
         /\ saldo' = Libro!Suma(libro')
         /\ tardias' \subseteq Claves /\ (tardias' # {} => ~activo)
         /\ Orderly' => Ordenada'
<1> USE DEF IInv
<1> DEFINE T == Descontables(n)
<1>1. PICK tasa \in Devengos :
        /\ Cubre(Acumula(n, tasa), T)
        /\ libro' = Asientos(n, Acumula(n, tasa), T)
        /\ saldo' = Libro!Suma(libro')
        /\ solicitud' = [s \in Solicitudes |->
             IF s \in T THEN [solicitud[s] EXCEPT !.estado = "taken"] ELSE solicitud[s]]
        /\ tardias' = IF ~activo /\ aplicando[n] = "activo" THEN tardias \cup {n} \cup T
                      ELSE tardias
  BY DEF Aplicar
<1> DEFINE a == Acumula(n, tasa)
<1>2. a \in Nat
  BY AcumulaNat
<1>3. /\ nomina[n].estado = "ready"
      /\ nomina' = [nomina EXCEPT ![n].estado = "applied"]
      /\ UNCHANGED <<puentes, incidentes>>
  BY DEF Aplicar, Aplicaciones
<1>4. activo' = activo
  BY DEF Aplicar
<1>5. aplicando[n] = "activo" /\ libro[n] = 0
  BY DEF Devenga
<1>6. /\ T \in SUBSET Solicitudes
      /\ \A s \in T : libro[s] = 0 /\ solicitud[s].estado \in {"approved", "applied"}
      /\ \A s \in T : solicitud[s].fecha # 0 \/ <<s, n>> \in puentes
      /\ nomina[n].captura = {} =>
           \A s \in Solicitudes : <<s, n>> \in puentes =>
             s \in T \/ libro[s] # 0 \/ solicitud[s].estado \notin {"approved", "applied"}
  BY <1>3, DescontablesFields
<1>7. libro' = Asientos(n, a, T) /\ saldo' = Libro!Suma(libro') /\ Cubre(a, T)
      /\ solicitud' = [s \in Solicitudes |->
           IF s \in T THEN [solicitud[s] EXCEPT !.estado = "taken"] ELSE solicitud[s]]
      /\ tardias' = IF activo THEN tardias ELSE tardias \cup {n} \cup T
  BY <1>1, <1>5
<1> HIDE DEF a, T
<1>8. /\ libro' \in [Claves -> Int] /\ libro'[n] = a
      /\ \A s \in T : libro'[s] = -solicitud[s].unidades
      /\ \A k \in Claves : k # n /\ k \notin T => libro'[k] = libro[k]
      /\ Libro!Suma(libro') = Libro!Suma(libro) + a - Unidades(T)
      /\ Unidades(T) \in Int
  BY <1>2, <1>5, <1>6, <1>7, AsientosFields
<1>9. saldo' \in Int
  BY <1>7, <1>8, SumaEntera
<1>10. \A k \in Claves : libro[k] # 0 => libro'[k] = libro[k]
  BY <1>5, <1>6, <1>8
<1>11. /\ solicitud' \in [Solicitudes -> SolicitudType]
       /\ \A s \in T : /\ solicitud'[s].estado = "taken"
                       /\ solicitud'[s].fecha = solicitud[s].fecha
                       /\ solicitud'[s].unidades = solicitud[s].unidades
       /\ \A s \in Solicitudes \ T : solicitud'[s] = solicitud[s]
  BY <1>6, <1>7 DEF TypeOK, SolicitudType, Estados
<1>12. \A s \in Solicitudes :
         (Creada(s)' <=> Creada(s)) /\ solicitud'[s].fecha = solicitud[s].fecha
  BY <1>6, <1>11 DEF Creada
<1>13. ASSUME Orderly'
       PROVE  Ordenada'
  <2>1. Ordenada
    BY <1>3, <1>13 DEF Orderly
  <2>2. /\ nomina'[n].estado = "applied" /\ nomina'[n].captura = nomina[n].captura
        /\ \A m \in Nominas \ {n} : nomina'[m] = nomina[m]
    BY <1>3 DEF TypeOK, NominaType
  <2>3. AllowNegative \/ saldo' >= 0 \/ saldo' >= libro'[Inicial]
    <3>1. saldo = Libro!Suma(libro) /\ saldo \in Int
      BY <2>1 DEF Ordenada, CuentaOK, TypeOK
    <3>2. libro'[Inicial] = libro[Inicial] /\ libro[Inicial] \in Int
      BY <1>6, <1>8, ClavesAparte DEF TypeOK
    <3>3. saldo' = saldo + a - Unidades(T)
      BY <1>7, <1>8, <3>1
    <3>4. CASE T = {}
      <4>1. saldo' = saldo + a
        BY <1>2, <3>1, <3>3, <3>4, UnidadesVacia
      <4> QED BY <1>2, <2>1, <3>1, <3>2, <4>1 DEF Ordenada, CuentaOK
    <3>5. CASE T # {} /\ ~AllowNegative
      <4>1. saldo + a >= Unidades(T)
        BY <1>7, <3>1, <3>5 DEF Cubre
      <4> QED BY <1>2, <1>8, <3>1, <3>3, <4>1
    <3> QED BY <3>4, <3>5
  <2>4. CuentaOK'
    <3>1. ASSUME NEW m \in Nominas, libro'[m] # 0
          PROVE  nomina'[m].estado = "applied"
      <4>1. m \in Claves /\ m \notin T
        BY <1>6, ClavesAparte, NamesAssumption
      <4> QED BY <1>8, <2>1, <2>2, <3>1, <4>1 DEF Ordenada, CuentaOK
    <3>2. ASSUME NEW l \in Liquidaciones, libro'[l] # 0
          PROVE  ~activo' /\ Libro!Suma(SinTardias') = 0
      <4>1. l \in Claves /\ l \notin T /\ l # n
        BY <1>6, ClavesAparte, NamesAssumption
      <4>2. ~activo /\ Libro!Suma(SinTardias) = 0
        BY <1>8, <2>1, <3>2, <4>1 DEF Ordenada, CuentaOK
      <4>3. SinTardias' = SinTardias
        <5>1. tardias' = tardias \cup {n} \cup T
          BY <1>7, <4>2
        <5>2. \A k \in Claves : k \in tardias' => k \in tardias \/ libro[k] = 0
          BY <1>5, <1>6, <5>1
        <5>3. \A k \in Claves : k \notin tardias' => k \notin tardias /\ libro'[k] = libro[k]
          BY <1>8, <5>1
        <5>4. \A k \in Claves : k \in tardias => k \in tardias'
          BY <5>1
        <5> QED BY <5>2, <5>3, <5>4 DEF SinTardias
      <4> QED BY <1>4, <4>2, <4>3
    <3> QED BY <1>7, <2>3, <3>1, <3>2 DEF CuentaOK
  <2>5. ASSUME NEW s \in T
        PROVE  SolicitudOK(s)'
    <3>1. s \in Solicitudes /\ SolicitudOK(s)
      BY <1>6, <2>1 DEF Ordenada
    <3>2. \A m \in Nominas : <<s, m>> \in puentes => m = n
      BY <1>6, <3>1 DEF SolicitudOK
    <3>3. libro'[s] = -solicitud'[s].unidades
      BY <1>8, <1>11
    <3> QED BY <1>3, <1>11, <2>2, <3>1, <3>2, <3>3 DEF SolicitudOK
  <2>6. ASSUME NEW s \in Solicitudes \ T
        PROVE  SolicitudOK(s)'
    <3>1. solicitud'[s] = solicitud[s] /\ SolicitudOK(s)
      BY <1>11, <2>1 DEF Ordenada
    <3>2. libro'[s] = libro[s]
      BY <1>8, ClavesAparte, NamesAssumption
    <3>3. <<s, n>> \in puentes /\ nomina[n].captura = {} => solicitud[s].estado = "taken"
      BY <1>6, <3>1 DEF SolicitudOK
    <3>4. ASSUME NEW m \in Nominas, <<s, m>> \in puentes
          PROVE  /\ solicitud[s].estado = "taken" => nomina'[m].estado = "applied"
                 /\ activo /\ nomina'[m].estado = "applied" /\ nomina'[m].captura = {} =>
                      solicitud[s].estado = "taken"
      BY <2>2, <3>1, <3>3, <3>4 DEF SolicitudOK
    <3> QED BY <1>3, <1>4, <3>1, <3>2, <3>4 DEF SolicitudOK
  <2> QED BY <2>4, <2>5, <2>6 DEF Ordenada
<1>14. tardias' \subseteq Claves /\ (tardias' # {} => ~activo)
  BY <1>6, <1>7, ClavesAparte DEF TypeOK, Aplicaciones
<1> QED BY <1>7, <1>8, <1>9, <1>10, <1>11, <1>12, <1>13, <1>14

LEMMA AplicarIInv ==
  ASSUME IInv, NEW n \in Nominas, Aplicar(n)
  PROVE  IInv'
<1> USE DEF IInv
<1>1. /\ nomina' = [nomina EXCEPT ![n].estado = "applied"]
      /\ UNCHANGED <<puentes, activo, request, operations, incidentes>>
      /\ aplicando' = [aplicando EXCEPT ![n] = "no"]
      /\ ~Devenga(n) => UNCHANGED <<cuenta, solicitud, tardias>>
  BY DEF Aplicar
<1>2. /\ solicitud' \in [Solicitudes -> SolicitudType]
      /\ libro' \in [Claves -> Int] /\ saldo' \in Int
      /\ \A s \in Solicitudes :
           (Creada(s)' <=> Creada(s)) /\ solicitud'[s].fecha = solicitud[s].fecha
      /\ tardias' \subseteq Claves /\ (tardias' # {} => ~activo)
      /\ Orderly' => Ordenada'
  <2>1. CASE Devenga(n)
    BY <2>1, AplicarTodo
  <2>2. CASE ~Devenga(n)
    BY <1>1, <2>2, AplicarNada DEF TypeOK, Aplicaciones, Creada, cuenta
  <2> QED BY <2>1, <2>2
<1>3. /\ nomina' \in [Nominas -> NominaType] /\ nomina'[n].estado = "applied"
      /\ nomina'[n].captura = nomina[n].captura
      /\ \A m \in Nominas \ {n} : nomina'[m] = nomina[m]
  BY <1>1 DEF TypeOK, NominaType
<1>4. TypeOK'
  BY <1>1, <1>2, <1>3 DEF TypeOK
<1>5. Peticiones'
  BY <1>1, <1>2, PeticionesIgual
<1>6. Filas'
  <2>1. \A p \in puentes' : Creada(p[1])'
    <3>1. \A p \in puentes : p[1] \in Solicitudes
      BY DEF TypeOK
    <3> QED BY <1>1, <1>2, <3>1 DEF Filas
  <2>2. \A s \in Solicitudes : solicitud'[s].fecha # 0 => Creada(s)'
    BY <1>2 DEF Filas
  <2>3. ASSUME NEW m \in Nominas
        PROVE  /\ nomina'[m].estado = "ready" => nomina'[m].periodo # 0
               /\ \A s \in nomina'[m].captura : solicitud'[s].fecha # 0
    <3>1. \A s \in nomina[m].captura : s \in Solicitudes /\ solicitud[s].fecha # 0
      BY DEF Filas, TypeOK, NominaType
    <3> QED BY <1>2, <1>3, <3>1 DEF Filas
  <2> QED BY <2>1, <2>2, <2>3 DEF Filas
<1>7. Aplicaciones'
  BY <1>1, <1>2, <1>3 DEF Aplicaciones, TypeOK
<1> QED BY <1>2, <1>4, <1>5, <1>6, <1>7

\* An application begins, or is rolled back.
LEMMA AplicarLeeIInv ==
  ASSUME IInv, NEW n \in Nominas, AplicarLee(n) \/ AplicarFalla(n)
  PROVE  IInv'
<1> USE DEF IInv
<1>1. /\ UNCHANGED <<cuenta, solicitud, puentes, nomina, activo, tardias, request, operations,
                     incidentes>>
      /\ \/ /\ aplicando' = [aplicando EXCEPT ![n] = IF activo THEN "activo" ELSE "baja"]
            /\ nomina[n].estado = "ready"
         \/ aplicando' = [aplicando EXCEPT ![n] = "no"]
  BY DEF AplicarLee, AplicarFalla
<1>2. TypeOK'
  BY <1>1 DEF TypeOK, cuenta
<1>3. Peticiones'
  BY <1>1, PeticionesIgual DEF Creada
<1>4. Filas'
  BY <1>1 DEF Filas, Creada
<1>5. Aplicaciones'
  BY <1>1 DEF Aplicaciones, TypeOK
<1>6. Orderly' => Ordenada'
  BY <1>1 DEF Orderly, Ordenada, CuentaOK, SinTardias, SolicitudOK, cuenta
<1> QED BY <1>2, <1>3, <1>4, <1>5, <1>6

-----------------------------------------------------------------------------
(* The theorems                                                              *)

LEMMA TerminaIInv ==
  ASSUME IInv, NEW r \in Requests, Termina(r)
  PROVE  IInv'
<1>1. CASE Cargar(r)
  BY <1>1, CargarIInv
<1>2. CASE Solicitar(r) \/ Registrar(r)
  BY <1>2, NuevaIInv
<1>3. CASE Aprobar(r) \/ Rechazar(r)
  BY <1>3, ResolverIInv
<1>4. CASE Adjuntar(r)
  BY <1>4, AdjuntarIInv
<1>5. CASE Anular(r)
  BY <1>5, AnularIInv
<1>6. CASE Liquidar(r)
  BY <1>6, LiquidarIInv
<1>7. CASE Fails(r)
  BY <1>7, FailsIInv
<1> QED BY <1>1, <1>2, <1>3, <1>4, <1>5, <1>6, <1>7 DEF Termina

LEMMA NextIInv ==
  ASSUME IInv, [Next]_vars
  PROVE  IInv'
<1>1. CASE UNCHANGED vars
  <2>1. UNCHANGED <<cuenta, filas, incidentes>> /\ UNCHANGED request
        /\ operations' = operations
    BY <1>1 DEF vars
  <2>2. \A s \in Solicitudes : Creada(s)' <=> Creada(s)
    BY <2>1 DEF filas, Creada
  <2>3. Peticiones'
    BY <2>1, <2>2, PeticionesIgual DEF IInv
  <2> QED BY <2>1, <2>3, SoloPeticiones DEF IInv, TypeOK
<1>2. ASSUME NEW r \in Requests, Empieza(r) PROVE IInv'
  BY <1>2, EmpiezaIInv
<1>3. ASSUME NEW r \in Requests, Termina(r) PROVE IInv'
  BY <1>3, TerminaIInv
<1>4. ASSUME NEW n \in Nominas, Generar(n) PROVE IInv'
  BY <1>4, GenerarIInv
<1>5. ASSUME NEW n \in Nominas, Aplicar(n) PROVE IInv'
  BY <1>5, AplicarIInv
<1>6. ASSUME NEW n \in Nominas, AplicarLee(n) \/ AplicarFalla(n) PROVE IInv'
  BY <1>6, AplicarLeeIInv
<1> QED BY <1>1, <1>2, <1>3, <1>4, <1>5, <1>6 DEF Next

\* The rows of the account, of the leave requests and of the payrolls, and what
\* each request read, are consistent at every moment.
THEOREM Invariant == Spec => []IInv
BY InitIInv, NextIInv, PTL DEF Spec

\* Every row of the account has its type: no sum and no accrual leaves the
\* integers, whatever the policies are.
THEOREM TypeCorrect == Spec => []TypeOK
<1>1. IInv => TypeOK
  BY DEF IInv
<1> QED BY <1>1, Invariant, PTL

\* A leave request that is taken has one entry of its units, and none has one
\* that is not taken, however often it is attached, voided and attached again.
THEOREM EachLeaveDeductedOnce == Spec => []LeaveDeductedOnce
<1>1. IInv => LeaveDeductedOnce
  BY DEF IInv, Ordenada, SolicitudOK, LeaveDeductedOnce
<1> QED BY <1>1, Invariant, PTL

\* Without leave in advance, the entries never add up to less than nothing, or
\* than the debt the account was loaded with.
THEOREM BalanceNeverOverdrawn == Spec => []NeverOverdrawn
<1>1. IInv => NeverOverdrawn
  <2> SUFFICES ASSUME IInv, Orderly, ~AllowNegative
               PROVE  Libro!Suma(libro) >= 0 \/ Libro!Suma(libro) >= libro[Inicial]
    BY DEF NeverOverdrawn
  <2> QED BY DEF IInv, Ordenada, CuentaOK
<1> QED BY <1>1, Invariant, PTL

\* Once a settlement has paid the balance out, the employee has left and the
\* entries add up to zero, whatever payrolls are applied later, but for exactly
\* those an application posts that had read him active before the settlement.
THEOREM PayoutEndsTheAccount == Spec => []PayoutIsFinal
<1>1. IInv => PayoutIsFinal
  <2> SUFFICES ASSUME IInv, Orderly
               PROVE  \A l \in Liquidaciones :
                        libro[l] # 0 => ~activo /\ Libro!Suma(SinTardias) = 0
    BY DEF PayoutIsFinal
  <2> QED BY DEF IInv, Ordenada, CuentaOK
<1> QED BY <1>1, Invariant, PTL

\* While the employee is active, what is attached to a payroll that is applied,
\* and whose snapshot lists nothing, is taken.
THEOREM AttachedLeaveIsDeducted == Spec => []AttachedIsDeducted
<1>1. IInv => AttachedIsDeducted
  <2> SUFFICES ASSUME IInv, Orderly, activo, NEW p \in puentes,
                      nomina[p[2]].estado = "applied", nomina[p[2]].captura = {}
               PROVE  solicitud[p[1]].estado = "taken"
    BY DEF AttachedIsDeducted
  <2>1. PICK s \in Solicitudes, n \in Nominas : p = <<s, n>>
    BY DEF IInv, TypeOK
  <2>2. p[1] = s /\ p[2] = n
    BY <2>1
  <2> QED BY <2>1, <2>2 DEF IInv, Ordenada, SolicitudOK
<1> QED BY <1>1, Invariant, PTL

-----------------------------------------------------------------------------
(* The ledger the account promises                                           *)

\* A commit over rows that did not change since they were read leaves every
\* entry there is.
LEMMA EntradasQuedan ==
  ASSUME IInv, Next, Orderly'
  PROVE  UNCHANGED cuenta \/ \A k \in Claves : libro[k] # 0 => libro'[k] = libro[k]
<1> USE DEF IInv
<1> DEFINE Quedan == \A k \in Claves : libro[k] # 0 => libro'[k] = libro[k]
<1>1. ASSUME NEW r \in Requests, Empieza(r)
      PROVE  UNCHANGED cuenta
  BY <1>1 DEF Empieza, CargarLee, LiquidarLee, NuevaLee, AprobarLee, RechazarLee,
              AdjuntarLee, AnularLee, Begin
<1>2. ASSUME NEW r \in Requests, Cargar(r)
      PROVE  Quedan
  <2>1. request[r].op = "cargar" /\ ~Overtaken(r)
    BY <1>2, EndFields DEF Cargar
  <2>2. request[r].vista = <<saldo, libro, activo>>
    <3>1. request[r].vista = Vista("cargar", request[r].s, request[r].n)
      BY <2>1 DEF Overtaken
    <3>2. Vista("cargar", request[r].s, request[r].n) = <<saldo, libro, activo>>
      BY VistaDe, Zenon
    <3> QED BY <3>1, <3>2, Zenon
  <2>3. request[r].vista[2] = libro
    BY <2>2
  <2>4. \A k \in Claves : request[r].vista[2][k] = 0
    BY <2>1 DEF Peticiones, Peticion
  <2> QED BY <2>3, <2>4
<1>3. ASSUME NEW r \in Requests, Anular(r)
      PROVE  Quedan
  <2>1. PICK n \in Nominas : n = request[r].n /\ request[r].vista = <<"ready">>
    BY <1>3 DEF Anular, Peticiones, Peticion
  <2>2. /\ request[r].op = "anular" /\ End(r)
        /\ libro' = [libro EXCEPT ![n] = 0]
    BY <1>3, <2>1 DEF Anular
  <2>3. Ordenada /\ ~Overtaken(r)
    BY <2>2, EndFields
  <2>4. nomina[n].estado = "ready"
    <3>1. Vista("anular", request[r].s, n) = <<nomina[n].estado>>
      BY VistaDe, Zenon
    <3>2. request[r].vista = Vista("anular", request[r].s, n)
      BY <2>1, <2>2, <2>3 DEF Overtaken
    <3>3. <<nomina[n].estado>> = <<"ready">>
      BY <2>1, <3>1, <3>2, Zenon
    <3> QED BY <3>3
  <2>5. libro[n] = 0
    BY <2>3, <2>4 DEF Ordenada, CuentaOK
  <2> QED BY <2>2, <2>5 DEF TypeOK
<1>4. ASSUME NEW r \in Requests, Liquidar(r)
      PROVE  UNCHANGED cuenta \/ Quedan
  <2>1. PICK l \in Liquidaciones : Pago(r, l)
    BY <1>4 DEF Liquidar
  <2>2. UNCHANGED cuenta \/ (libro[l] = 0 /\ libro' = [libro EXCEPT ![l] = -request[r].saldo])
    BY <2>1 DEF Pago
  <2> QED BY <2>2 DEF TypeOK
<1>5. ASSUME NEW r \in Requests,
             \/ Solicitar(r) \/ Registrar(r) \/ Aprobar(r) \/ Rechazar(r)
             \/ Adjuntar(r) \/ Fails(r)
      PROVE  UNCHANGED cuenta
  BY <1>5 DEF Solicitar, Registrar, Aprobar, Rechazar, Resolver, Adjuntar, Fails
<1>6. ASSUME NEW n \in Nominas, Generar(n) \/ AplicarLee(n) \/ AplicarFalla(n)
      PROVE  UNCHANGED cuenta
  BY <1>6 DEF Generar, AplicarLee, AplicarFalla
<1>7. ASSUME NEW n \in Nominas, Aplicar(n)
      PROVE  UNCHANGED cuenta \/ Quedan
  <2>1. CASE Devenga(n)
    BY <1>7, <2>1, AplicarTodo
  <2>2. CASE ~Devenga(n)
    BY <1>7, <2>2 DEF Aplicar
  <2> QED BY <2>1, <2>2
<1> HIDE DEF Quedan
<1>8. ASSUME NEW r \in Requests, Termina(r)
      PROVE  UNCHANGED cuenta \/ Quedan
  BY <1>2, <1>3, <1>4, <1>5, <1>8 DEF Termina
<1>9. UNCHANGED cuenta \/ Quedan
  BY <1>1, <1>6, <1>7, <1>8 DEF Next
<1> QED BY <1>9 DEF Quedan

\* The handlers implement the ledger of the model: entries are only added, and
\* the balance is their sum, at every step that does not commit over rows that
\* changed since they were read.
THEOREM HandlersImplementLedger == Spec => ImplementaLibro
<1>1. Init => Libro!Init
  BY DEF Init
<1>2. ASSUME IInv, IInv', [Next]_vars
      PROVE  [Orderly' => Libro!Next]_<<libro, saldo>>
  <2> SUFFICES ASSUME Next, Orderly', ~UNCHANGED <<libro, saldo>>
               PROVE  Libro!Next
    BY <1>2 DEF vars, cuenta
  <2>1. \A k \in Claves : libro[k] # 0 => libro'[k] = libro[k]
    BY <1>2, EntradasQuedan DEF cuenta
  <2>2. saldo' = Libro!Suma(libro')
    BY <1>2 DEF IInv, Ordenada, CuentaOK
  <2> QED BY <2>1, <2>2 DEF Libro!Next, Libro!Intactos
<1> QED BY <1>1, <1>2, Invariant, PTL DEF Spec, ImplementaLibro
=============================================================================
