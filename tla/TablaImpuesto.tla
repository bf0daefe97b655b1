---------------------------- MODULE TablaImpuesto -----------------------------
(***************************************************************************)
(* The tax tables of the formula engine: what the validator accepts and    *)
(* what the lookup answers.                                                *)
(*                                                                         *)
(* Bounds and taxes are whole cents.  The value looked up comes from       *)
(* divisions that nothing rounds: it is given in parts of a cent.          *)
(* The engine is always strict: a warning is an error.                     *)
(***************************************************************************)
EXTENDS Integers, Sequences, FiniteSets

CONSTANT Partes     \* parts of a cent a looked up value is measured in

ASSUME PartesAssumption == Partes \in Nat \ {0}

\* max of the highest tier, None; and no answer, a CalculationError.  No bound
\* and no tax is negative.
Abierto == -1
SinTramo == -1

\* ROUND_HALF_UP of a fraction that is not negative.
Redondea(n, d) == (2 * n + d) \div (2 * d)

Mayor(a, b) == IF a >= b THEN a ELSE b
Menor(a, b) == IF a <= b THEN a ELSE b

TramoType == [min : Int, max : Int, fijo : Int, sobre : Int, tasa : Int]

-----------------------------------------------------------------------------
(* validate_table                                                            *)

TramoValido(b) ==
  /\ b.max = Abierto \/ b.min <= b.max
  /\ b.fijo >= 0 /\ 0 <= b.sobre /\ b.sobre <= b.min
  /\ 0 <= b.tasa /\ b.tasa <= 100

\* The gap of one cent that the validator allows for rounding.
Tolerancia == 1

Contiguos(b, siguiente) ==
  /\ b.min <= siguiente.min
  /\ b.max # Abierto
  /\ b.max <= siguiente.min /\ siguiente.min - b.max <= Tolerancia

Aceptada(tabla) ==
  /\ tabla # <<>>
  /\ \A i \in DOMAIN tabla : TramoValido(tabla[i])
  /\ \A i \in DOMAIN tabla \ {Len(tabla)} : Contiguos(tabla[i], tabla[i + 1])

-----------------------------------------------------------------------------
(* lookup                                                                    *)

EnTramo(b, v) == b.min * Partes <= v /\ (b.max = Abierto \/ v <= b.max * Partes)

Coinciden(tabla, v) == {i \in DOMAIN tabla : EnTramo(tabla[i], v)}

\* A slip: two brackets that share a boundary are a conflict.
TodosLosTramos(tabla, v) == Coinciden(tabla, v)

\* Of two brackets that share their boundary, the one that begins there.
Aplicables(tabla, v) ==
  LET empiezan == {i \in Coinciden(tabla, v) : v = tabla[i].min * Partes}
  IN  IF Cardinality(Coinciden(tabla, v)) > 1 /\ Cardinality(empiezan) = 1
      THEN empiezan ELSE Coinciden(tabla, v)

\* BracketCalculator.calculate
Tributo(b, v) ==
  Redondea(b.fijo * 100 * Partes + Mayor(v - b.sobre * Partes, 0) * b.tasa, 100 * Partes)

Impuesto(tabla, v) ==
  IF \E i \in Aplicables(tabla, v) : Aplicables(tabla, v) = {i}
  THEN Tributo(tabla[CHOOSE i \in Aplicables(tabla, v) : TRUE], v)
  ELSE SinTramo

\* The values an accepted table answers: from its first bracket to its last.
Alcanza(tabla, v) ==
  /\ tabla[1].min * Partes <= v
  /\ tabla[Len(tabla)].max = Abierto \/ v <= tabla[Len(tabla)].max * Partes
=============================================================================
