---------------------------- MODULE MCComprobantes ----------------------------
(* Two employees of two cost centres, one with a loan, whose deductions are  *)
(* booked against the salaries payable or the way the guide says.            *)
EXTENDS Comprobantes, TLC

F(debe, haber) == [contabilizable |-> TRUE, debe |-> debe, haber |-> haber, invertir |-> FALSE]

De(tipo, concepto, monto) == [tipo |-> tipo, concepto |-> concepto, monto |-> monto]
ReciboDe(sueldo, falta, centro, detalles, entrada) ==
  [sueldo |-> sueldo, falta |-> falta, centro |-> centro, detalles |-> detalles,
   vacaciones |-> [entrada |-> entrada, monto |-> 3]]

Concepto == [bono |-> F("gasto", "xpagar"), inss |-> F("xpagar", "pasivo"),
             aguinaldo |-> F("gasto", "pasivo")]

Config(fichas, politica) ==
  [fichas |-> fichas, sueldo |-> [debe |-> "gasto", haber |-> "xpagar"], politica |-> politica]

Usual == Config(Concepto, [pagadas |-> TRUE, debe |-> "gasto", haber |-> "pasivo"])
Guia == Config([Concepto EXCEPT !.inss = [F("pasivo", "xpagar") EXCEPT !.invertir = TRUE],
                                !.aguinaldo.contabilizable = FALSE],
               [pagadas |-> FALSE, debe |-> "null", haber |-> "null"])

MCEscenarios ==
  { [recibos |-> [ana |-> ReciboDe(20, 0, "norte",
                     <<De("income", "bono", 5), De("deduction", "inss", 2),
                       De("deduction", "null", 4), De("benefit", "aguinaldo", 1)>>, "usage"),
                  beto |-> ReciboDe(10, 0, "sur", <<De("deduction", "inss", 1)>>, "accrual")],
     config |-> Usual, catalogados |-> {"bono", "inss", "aguinaldo"},
     prestamos |-> <<[empleado |-> "ana", deduccion |-> "null", estado |-> "applied", cuenta |-> "control"]>>],
    [recibos |-> [ana |-> ReciboDe(20, 0, "norte",
                     <<De("income", "bono", 5), De("deduction", "inss", 2)>>, "none"),
                  beto |-> ReciboDe(10, 3, "norte", <<De("deduction", "inss", 0)>>, "none")],
     config |-> Guia, catalogados |-> {"bono", "aguinaldo"},
     prestamos |-> <<[empleado |-> "beto", deduccion |-> "inss", estado |-> "paid", cuenta |-> "control"]>>] }

MCFichas == {F("null", "null"), [F("pasivo", "xpagar") EXCEPT !.invertir = TRUE]}

Finiquito(tipo, monto, debe, haber) == [tipo |-> tipo, monto |-> monto, debe |-> debe, haber |-> haber]
MCFiniquitos ==
  { <<Finiquito("benefit", 9, "gasto", "pasivo"), Finiquito("income", 4, "null", "null"),
      Finiquito("deduction", 3, "xpagar", "control"), Finiquito("deduction", 0, "null", "null")>>,
    <<Finiquito("income", 2, "gasto", "null"), Finiquito("deduction", 5, "null", "null")>> }
=============================================================================
