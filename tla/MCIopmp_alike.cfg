SPECIFICATION Spec
CONSTANTS
  Bus <- MCSame
  Readouts = {"none"}
INVARIANTS PortsAlike
