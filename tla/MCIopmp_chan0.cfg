SPECIFICATION Spec
CONSTANTS
  Bus <- MCPort0
  Readouts = {"none"}
INVARIANTS Channel0ReadOnly
