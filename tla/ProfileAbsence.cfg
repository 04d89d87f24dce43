SPECIFICATION Spec
CONSTANTS
  Profiles = {p1, p2}
  Procs = {work1}
INVARIANTS
  AbsenceIsFinal
