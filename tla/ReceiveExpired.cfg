CONSTANTS
  large = large
  small = small
  empty = empty
  Files = {large, small}
  Length <- OneRange
  Earlier = {}
  Faults = {}
  LinkEvents = {"expire"}
  Patient = FALSE
  MaxCrashes = 1
SPECIFICATION Spec
INVARIANTS NoOrphanOnLink
CHECK_DEADLOCK FALSE
