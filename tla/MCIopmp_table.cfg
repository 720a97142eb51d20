SPECIFICATION Spec
CONSTANTS
  Bus <- MCTable
  Readouts = {"WRITE_ADDR"}
INVARIANTS TableObeyed Isolation ExceptionNamed
