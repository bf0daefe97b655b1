----------------------------- MODULE MCVacaciones -----------------------------
(* Two requests at a time over one account with two leave requests, two      *)
(* payrolls and one settlement; months and fortnights of an employee who may  *)
(* be hired or leave in them, under policies of each method.                  *)
EXTENDS Vacaciones, TLC

CONSTANTS r1, r2, n1, n2, s1, s2, l1

MCSymmetry == Permutations({r1, r2}) \cup Permutations({n1, n2})
                \cup Permutations({s1, s2})

MCTramos == {[anios |-> 0, tasa |-> 1000], [anios |-> 1, tasa |-> 1500], [anios |-> 5, tasa |-> 2000]}

MCCasos ==
  LET caso(metodo, tasa, frecuencia, prorratea, base, minimo, dias, alta, baja, faltas, horas) ==
        [metodo |-> metodo, tasa |-> tasa, frecuencia |-> frecuencia, prorratea |-> prorratea,
         base |-> base, minimo |-> minimo, redondeo |-> "down", dias |-> dias, alta |-> alta,
         baja |-> baja, faltas |-> faltas, horas |-> horas,
         tramos |-> IF metodo = "seniority" THEN MCTramos ELSE {}]
      plazo == {15, 16, 28, 30, 31}
      altas == {-2000, -351, -20, 0, 3, 40}
      bajas == {5, 99}
  IN  {caso("periodic", 150, f, p, "days_worked", m, d, a, b, 0, 0) :
         f \in {"monthly", "biweekly", "annual"}, p \in BOOLEAN, m \in {0, 30}, d \in plazo,
         a \in altas, b \in bajas}
      \cup {caso("proportional", t[1], "monthly", TRUE, t[2], m, d, a, b, f[1], f[2]) :
         t \in {<<4, "days_worked">>, <<1, "hours_worked">>}, m \in {0, 30}, d \in {15, 16},
         a \in altas, b \in bajas, f \in {<<0, 0>>, <<2, 0>>, <<0, 5>>, <<1, 130>>}}
      \cup {caso("seniority", 0, "monthly", TRUE, "days_worked", m, d, a, b, 0, 0) :
         m \in {0, 30}, d \in plazo, a \in altas, b \in bajas}
=============================================================================
