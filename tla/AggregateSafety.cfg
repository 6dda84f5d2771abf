\* Three targets, two sessions that finalize.
CONSTANTS
  Target = {t1, t2, t3}
  Session = {s1, s2}
  Interference = {"cancel", "patch", "fence", "refuse"}
SYMMETRY Symmetry
SPECIFICATION Spec
CHECK_DEADLOCK FALSE
INVARIANTS
  ShownIsTrue
