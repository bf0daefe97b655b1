--------------------------- MODULE LibroVacaciones ---------------------------
(***************************************************************************)
(* What the vacation accounts promise (model.py, VacationLedger): every    *)
(* movement is an entry of a ledger that is only added to, an entry is     *)
(* made once for what it refers to (uq_vacation_ledger_idempotency), and   *)
(* the balance of the account is the sum of its entries.                   *)
(***************************************************************************)
EXTENDS Integers, FiniteSetsExt

CONSTANT Claves     \* what an entry refers to: a payslip, a request, a settlement

VARIABLES
  libro,            \* the amount of the entry for each reference, 0 when none
  saldo             \* current_balance of the account

Suma(l) == MapThenSumSet(LAMBDA k : l[k], Claves)

Init == libro = [k \in Claves |-> 0] /\ saldo = 0

Intactos(nuevo) == \A k \in Claves : libro[k] # 0 => nuevo[k] = libro[k]

Next == Intactos(libro') /\ saldo' = Suma(libro')

Spec == Init /\ [][Next]_<<libro, saldo>>
=============================================================================
