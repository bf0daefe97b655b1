-------------------------------- MODULE Cambios --------------------------------
(***************************************************************************)
(* The concepts of a payroll and the changes made to their values: what    *)
(* Aprobacion, which approves them, and Configuracion, which calculates    *)
(* with them, share.  A value is the number of the change that set it.     *)
(***************************************************************************)
EXTENDS Integers

CONSTANTS
  Conceptos,    \* percepciones, deducciones and prestaciones
  MaxVersion    \* bound: changes of a value

ASSUME BoundAssumption == MaxVersion \in Nat

VARIABLE
  version       \* changes made

Versiones == 0 .. MaxVersion

Cambia == version < MaxVersion /\ version' = version + 1
=============================================================================
