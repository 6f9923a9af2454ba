CONSTANTS
  large = large
  small = small
  empty = empty
  Files = {large, small}
  Length <- OneRange
  Earlier = {}
  Faults = {"load"}
  LinkEvents = {}
  Patient = FALSE
  MaxCrashes = 1
SPECIFICATION Spec
INVARIANTS Recoverable
CHECK_DEADLOCK FALSE
