SPECIFICATION Spec
CONSTANTS
  r1 = r1  r2 = r2  p1 = p1  p2 = p2
  Requests = {r1, r2}
  Periodos = {p1, p2}
  MaxNominas = 3
  MaxPostings = 4
  MaxOperations = 5
SYMMETRY MCSymmetry
INVARIANTS OnePayrollPerPeriod BooksMatch VacationAttached
PROPERTY AppliedIsFinal
CHECK_DEADLOCK FALSE
